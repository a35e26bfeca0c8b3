------------------------- MODULE FileStoreCalmProofs -------------------------
(***************************************************************************)
(* More proofs about FileStore, again for every number of users, clients,  *)
(* paths, requests and chunks: that a listing shows what is there,         *)
(* whatever fails; what holds of clients that keep to paths of their own   *)
(* and get answers; and what holds of blocks and quotas if nothing fails.  *)
(*                                                                         *)
(* The argument for the last two: what a client has learnt of the rows of  *)
(* its path stays true, for nobody else writes there (CalmInv), and every  *)
(* block is registered or somebody is at it (GhostInv).                    *)
(***************************************************************************)
EXTENDS FileStoreProofs, SequenceTheorems

-----------------------------------------------------------------------------
(* The loop of list_files_in_dir.                                          *)

\* The entry of row g is that of the oldest row of its name.
IsOldest(rows, dir, g) ==
  \A h \in rows : Below(dir, h.path) /\ NameIn(dir, h.path) = NameIn(dir, g.path)
                    => g.id <= h.id

\* What the loop has listed when it is through with the row id.
Listed(s, rows, dir, id) ==
  /\ s \in Seq({Entry(dir, g) : g \in rows})
  /\ \A i \in 1..Len(s) : \E g \in rows :
       /\ s[i] = Entry(dir, g)
       /\ Below(dir, g.path) /\ g.id <= id /\ IsOldest(rows, dir, g)
  /\ \A i, j \in 1..Len(s) : s[i].filename = s[j].filename => i = j
  /\ \A g \in rows : Below(dir, g.path) /\ g.id <= id =>
       \E i \in 1..Len(s) : s[i].filename = NameIn(dir, g.path)

\* Rows as the table holds them.
IsTable(rows) ==
  /\ \A f \in rows : f.id \in Nat \ {0}
  /\ \A f, g \in rows : f.id = g.id => f = g

\* One turn lists the name of the next row, if it is new.
LEMMA TurnLists ==
  ASSUME NEW rows, NEW dir, NEW id \in Nat \ {0}, IsTable(rows), NEW s,
         Listed(s, rows, dir, id - 1)
  PROVE  Listed(Turn(rows, dir, s, id), rows, dir, id)
<1> DEFINE E == {Entry(dir, g) : g \in rows}
           new == {f \in rows : /\ f.id = id /\ Below(dir, f.path)
                                /\ \A i \in DOMAIN s : s[i].filename # NameIn(dir, f.path)}
<1>1. s \in Seq(E) /\ Len(s) \in Nat /\ DOMAIN s = 1..Len(s)
  BY LenProperties DEF Listed
<1>2. \A g \in rows : g.id \in Nat /\ (g.id <= id => g.id <= id - 1 \/ g.id = id)
  BY DEF IsTable
<1>3. CASE new = {}
  <2>1. Turn(rows, dir, s, id) = s
    BY <1>3 DEF Turn
  <2>2. ASSUME NEW g \in rows, Below(dir, g.path), g.id <= id
        PROVE  \E i \in 1..Len(s) : s[i].filename = NameIn(dir, g.path)
    <3>1. CASE g.id <= id - 1
      BY <2>2, <3>1 DEF Listed
    <3>2. CASE g.id = id
      BY <1>1, <1>3, <2>2, <3>2
    <3>3. QED
      BY <1>2, <2>2, <3>1, <3>2
  <2>3. \A g \in rows : g.id <= id - 1 => g.id <= id
    BY <1>2
  <2>4. QED
    BY <2>1, <2>2, <2>3, <1>1 DEF Listed
<1>4. CASE new # {}
  <2>1. PICK g \in new : Turn(rows, dir, s, id) = Append(s, Entry(dir, g))
    BY <1>4 DEF Turn
  <2>2. g \in rows /\ g.id = id /\ Below(dir, g.path) /\ Entry(dir, g) \in E
    OBVIOUS
  <2>3. \A i \in 1..Len(s) : s[i].filename # NameIn(dir, g.path)
    BY <1>1
  <2> DEFINE t == Append(s, Entry(dir, g))
  <2>4. /\ t \in Seq(E) /\ Len(t) = Len(s) + 1 /\ t[Len(s) + 1] = Entry(dir, g)
        /\ \A i \in 1..Len(s) : t[i] = s[i]
    BY <1>1, <2>2
  <2>5. \A i \in 1..Len(t) : i \in 1..Len(s) \/ i = Len(s) + 1
    BY <1>1, <2>4
  <2>6. Entry(dir, g).filename = NameIn(dir, g.path)
    BY DEF Entry
  <2>7. IsOldest(rows, dir, g)
    <3>1. ASSUME NEW h \in rows, Below(dir, h.path),
                 NameIn(dir, h.path) = NameIn(dir, g.path), h.id <= id - 1
          PROVE  FALSE
      BY <2>3, <3>1 DEF Listed
    <3>2. \A h \in rows : h.id <= id - 1 \/ g.id <= h.id
      BY <1>2, <2>2
    <3>3. QED
      BY <3>1, <3>2 DEF IsOldest
  <2> HIDE DEF new, t, E
  <2>8. ASSUME NEW i \in 1..Len(t)
        PROVE  \E f \in rows : /\ t[i] = Entry(dir, f)
                               /\ Below(dir, f.path) /\ f.id <= id /\ IsOldest(rows, dir, f)
    <3>1. CASE i \in 1..Len(s)
      <4>1. PICK f \in rows : /\ s[i] = Entry(dir, f) /\ Below(dir, f.path)
                              /\ f.id <= id - 1 /\ IsOldest(rows, dir, f)
        BY <3>1 DEF Listed
      <4>2. f.id <= id
        BY <4>1, <1>2
      <4>3. QED
        BY <3>1, <4>1, <4>2, <2>4
    <3>2. CASE i = Len(s) + 1
      BY <3>2, <2>2, <2>4, <2>7
    <3>3. QED
      BY <2>5, <3>1, <3>2
  <2>9. ASSUME NEW i \in 1..Len(t), NEW j \in 1..Len(t), t[i].filename = t[j].filename
        PROVE  i = j
    BY <2>9, <2>3, <2>4, <2>5, <2>6 DEF Listed
  <2>10. ASSUME NEW f \in rows, Below(dir, f.path), f.id <= id
         PROVE  \E i \in 1..Len(t) : t[i].filename = NameIn(dir, f.path)
    <3>1. 1..Len(s) \subseteq 1..Len(t) /\ Len(s) + 1 \in 1..Len(t)
      BY <1>1, <2>4
    <3>2. CASE f.id <= id - 1
      <4>1. PICK i \in 1..Len(s) : s[i].filename = NameIn(dir, f.path)
        BY <2>10, <3>2 DEF Listed
      <4>2. QED
        BY <3>1, <4>1, <2>4
    <3>3. CASE f.id = id
      <4>1. f = g
        BY <2>2, <3>3 DEF IsTable
      <4>2. QED
        BY <3>1, <4>1, <2>4, <2>6
    <3>4. QED
      BY <1>2, <2>10, <3>2, <3>3
  <2>11. Listed(t, rows, dir, id)
    BY <2>4, <2>8, <2>9, <2>10 DEF Listed, E
  <2>12. QED
    BY <2>1, <2>11 DEF t
<1>5. QED
  BY <1>3, <1>4

\* f is the loop up to the row n.
Loop(f, rows, dir, n) ==
  f = [id \in 0..n |-> IF id = 0 THEN <<>> ELSE Turn(rows, dir, f[id - 1], id)]

\* The recursion of the loop has a solution, up to any row.
LEMMA ListingExists ==
  ASSUME NEW rows, NEW dir
  PROVE  \A n \in Nat : \E f : Loop(f, rows, dir, n)
<1> DEFINE Bad == {n \in Nat : ~ \E f : Loop(f, rows, dir, n)}
<1>1. SUFFICES ASSUME Bad # {} PROVE FALSE
  OBVIOUS
<1>2. Bad \subseteq Nat
  OBVIOUS
<1> HIDE DEF Bad
<1>3. PICK n \in Bad : \A m \in Bad : n <= m
  BY <1>1, <1>2, LeastExists
<1>4. CASE n = 0
  <2>1. Loop([id \in 0..0 |-> <<>>], rows, dir, 0)
    BY DEF Loop
  <2>2. QED
    BY <2>1, <1>3, <1>4 DEF Bad
<1>5. CASE n # 0
  <2>1. n \in Nat /\ n - 1 \in Nat /\ n - 1 \notin Bad
    BY <1>2, <1>3, <1>5
  <2>2. PICK f : Loop(f, rows, dir, n - 1)
    BY <2>1 DEF Bad
  <2> DEFINE g == [id \in 0..n |-> IF id = n THEN Turn(rows, dir, f[n - 1], n) ELSE f[id]]
  <2>3. ASSUME NEW id \in 0..n
        PROVE  g[id] = IF id = 0 THEN <<>> ELSE Turn(rows, dir, g[id - 1], id)
    <3>1. CASE id = n
      <4>1. n - 1 \in 0..n /\ n - 1 # n
        BY <2>1
      <4>2. g[n - 1] = f[n - 1]
        BY <4>1
      <4>3. QED
        BY <3>1, <1>5, <4>2
    <3>2. CASE id # n
      <4>1. id \in 0..(n - 1) /\ (id # 0 => id - 1 \in 0..n /\ id - 1 # n)
        BY <3>2, <2>1
      <4>2. g[id] = f[id] /\ (id # 0 => g[id - 1] = f[id - 1])
        BY <4>1, <3>2
      <4>3. f[id] = IF id = 0 THEN <<>> ELSE Turn(rows, dir, f[id - 1], id)
        BY <4>1, <2>2 DEF Loop
      <4>4. QED
        BY <4>2, <4>3
    <3>3. QED
      BY <3>1, <3>2
  <2>4. Loop(g, rows, dir, n)
    <3>1. [id \in 0..n |-> g[id]]
            = [id \in 0..n |-> IF id = 0 THEN <<>> ELSE Turn(rows, dir, g[id - 1], id)]
      BY <2>3
    <3>2. QED
      BY <3>1 DEF Loop
  <2>5. QED
    BY <2>4, <1>3 DEF Bad
<1>6. QED
  BY <1>4, <1>5

\* There is a last row, unless there is none.
LEMMA LastRowExists ==
  ASSUME NEW rows, IsTable(rows), NEW n \in Nat, \A f \in rows : f.id <= n
  PROVE  /\ LastRow(rows) \in Nat
         /\ \A f \in rows : f.id <= LastRow(rows)
<1> DEFINE ids == {f.id : f \in rows}
<1>1. ids \subseteq 1..n
  BY DEF IsTable
<1>2. \E m \in {0} \cup ids : \A f \in rows : f.id <= m
  <2>1. CASE rows = {}
    BY <2>1
  <2>2. CASE rows # {}
    <3>1. PICK i \in ids : \A j \in ids : j <= i
      <4> ids # {}
        BY <2>2
      <4> HIDE DEF ids
      <4>1. QED
        BY <1>1, GreatestExists
    <3>2. QED
      BY <3>1
  <2>3. QED
    BY <2>1, <2>2
<1>3. LastRow(rows) \in {0} \cup ids /\ \A f \in rows : f.id <= LastRow(rows)
  BY <1>2 DEF LastRow
<1>4. QED
  BY <1>1, <1>3

\* So the loop lists every row below the directory.
LEMMA ListsAll ==
  ASSUME NEW rows, NEW dir, IsTable(rows), NEW n \in Nat, \A f \in rows : f.id <= n
  PROVE  Listed(ListFilesInDir(rows, dir), rows, dir, LastRow(rows))
<1> DEFINE last == LastRow(rows)
<1>1. last \in Nat
  BY LastRowExists
<1> HIDE DEF last
<1>2. \E f : Loop(f, rows, dir, last)
  BY <1>1, ListingExists
<1>3. PICK f : Loop(f, rows, dir, last) /\ ListFilesInDir(rows, dir) = f[last]
  <2>1. ListFilesInDir(rows, dir) = (CHOOSE f : Loop(f, rows, dir, last))[last]
    BY DEF ListFilesInDir, last, Loop
  <2>2. QED
    BY <1>2, <2>1
<1> DEFINE Bad == {id \in 0..last : ~ Listed(f[id], rows, dir, id)}
<1>4. ASSUME Bad # {} PROVE FALSE
  <2>1. Bad \subseteq Nat
    BY <1>1
  <2>2. PICK id \in Bad : \A j \in Bad : id <= j
    BY <1>4, <2>1, LeastExists
  <2>3. CASE id = 0
    <3>1. f[id] = <<>> /\ \A g \in rows : ~ (g.id <= 0)
      BY <1>1, <1>3, <2>3 DEF IsTable, Loop
    <3>2. <<>> \in Seq({Entry(dir, g) : g \in rows}) /\ Len(<<>>) = 0
      BY EmptySeq
    <3>3. Listed(f[id], rows, dir, id)
      BY <2>3, <3>1, <3>2 DEF Listed
    <3>4. QED
      BY <2>2, <3>3
  <2>4. CASE id # 0
    <3>1. id \in Nat \ {0} /\ id - 1 \in 0..last /\ id - 1 \notin Bad /\ id \in 0..last
      BY <1>1, <2>2, <2>4
    <3>2. f[id] = Turn(rows, dir, f[id - 1], id)
      BY <1>3, <3>1 DEF Loop
    <3>3. Listed(f[id], rows, dir, id)
      BY <3>1, <3>2, TurnLists
    <3>4. QED
      BY <2>2, <3>3
  <2>5. QED
    BY <2>3, <2>4
<1>5. QED
  <2>1. last \in 0..last
    BY <1>1
  <2>2. Listed(f[last], rows, dir, last)
    BY <1>4, <2>1
  <2>3. QED
    BY <1>3, <2>2 DEF last

\* What the loop has listed when it has seen every row is a listing.
LEMMA ListedIsListing ==
  ASSUME NEW rows, NEW dir, IsTable(rows), NEW s, NEW n \in Nat, Listed(s, rows, dir, n),
         \A f \in rows : f.id <= n
  PROVE  IsListing(s, rows, dir)
<1> DEFINE in == {f \in rows : Below(dir, f.path)}
           names == {NameIn(dir, f.path) : f \in in}
           IsOf(f, name) == /\ NameIn(dir, f.path) = name
                            /\ \A g \in in : NameIn(dir, g.path) = name => f.id <= g.id
           Oldest(name) == CHOOSE f \in in : IsOf(f, name)
<1>1. s \in Seq({Entry(dir, g) : g \in rows}) /\ Len(s) \in Nat /\ DOMAIN s = 1..Len(s)
  BY LenProperties DEF Listed
<1>2. \A g : Entry(dir, g).filename = NameIn(dir, g.path)
  BY DEF Entry
<1>3. ASSUME NEW i \in 1..Len(s)
      PROVE  s[i].filename \in names /\ s[i] = Entry(dir, Oldest(s[i].filename))
  <2>1. PICK g \in rows : s[i] = Entry(dir, g) /\ Below(dir, g.path) /\ IsOldest(rows, dir, g)
    BY DEF Listed
  <2>2. g \in in /\ s[i].filename = NameIn(dir, g.path) /\ IsOf(g, s[i].filename)
    BY <2>1, <1>2 DEF IsOldest
  <2>3. Oldest(s[i].filename) \in in /\ IsOf(Oldest(s[i].filename), s[i].filename)
    <3> HIDE DEF in, IsOf
    <3>1. QED
      BY <2>2
  <2>4. Oldest(s[i].filename) = g
    <3>1. PICK o \in in : o = Oldest(s[i].filename) /\ IsOf(o, s[i].filename)
      BY <2>3
    <3>2. o.id <= g.id /\ g.id <= o.id /\ o.id \in Nat /\ g.id \in Nat
      BY <2>2, <3>1 DEF IsTable
    <3>3. o.id = g.id
      BY <3>2
    <3>4. QED
      BY <2>2, <3>1, <3>3 DEF IsTable
  <2>5. QED
    BY <2>1, <2>2, <2>4
<1>4. ASSUME NEW name \in names PROVE \E i \in 1..Len(s) : s[i].filename = name
  BY DEF Listed
<1> HIDE DEF names, Oldest
<1>5. {s[i] : i \in DOMAIN s} = {Entry(dir, Oldest(name)) : name \in names}
  BY <1>1, <1>3, <1>4
<1>6. Len(s) = Cardinality(names)
  <2> DEFINE f == [i \in 1..Len(s) |-> s[i].filename]
  <2>1. f \in [1..Len(s) -> names]
    BY <1>3
  <2>2. \A i, j \in 1..Len(s) : f[i] = f[j] => i = j
    BY DEF Listed
  <2>3. \A name \in names : \E i \in 1..Len(s) : f[i] = name
    BY <1>4
  <2> HIDE DEF f
  <2>4. f \in Bijection(1..Len(s), names)
    BY <2>1, <2>2, <2>3 DEF Bijection, Injection, Surjection, IsInjective
  <2>5. QED
    BY <1>1, <2>4, FS_CountingElements DEF ExistsBijection
<1>7. QED
  BY <1>5, <1>6 DEF IsListing, names, Oldest

\* The rows a user may see are a table.
LEMMA VisibleIsTable ==
  ASSUME TablesOK, NEW user
  PROVE  IsTable(Visible(user)) /\ lastId \in Nat /\ \A f \in Visible(user) : f.id <= lastId
<1>1. Visible(user) \subseteq files
  BY DEF Visible
<1>2. \A f \in files : f.id \in Nat \ {0} /\ f.id <= lastId
  BY DEF TablesOK, Planned
<1>3. QED
  BY <1>1, <1>2 DEF IsTable, TablesOK

\* Whatever fails, every user's listing of every directory has one entry for
\* each name in it, decided by the oldest row of that name (db.py:147-166).
THEOREM ListingFaithful == Spec => []ListingIsFaithful
<1>1. ASSUME IInv PROVE ListingIsFaithful
  <2> SUFFICES ASSUME NEW user, NEW dir
               PROVE  IsListing(ListFilesInDir(Visible(user), dir), Visible(user), dir)
    BY DEF ListingIsFaithful
  <2>1. /\ IsTable(Visible(user)) /\ lastId \in Nat
        /\ \A f \in Visible(user) : f.id <= lastId
    BY <1>1, VisibleIsTable DEF IInv
  <2> DEFINE rows == Visible(user)
  <2> HIDE DEF rows
  <2>2. LastRow(rows) \in Nat /\ \A f \in rows : f.id <= LastRow(rows)
    BY <2>1, LastRowExists DEF rows
  <2>3. Listed(ListFilesInDir(rows, dir), rows, dir, LastRow(rows))
    BY <2>1, ListsAll DEF rows
  <2>4. IsTable(rows)
    BY <2>1 DEF rows
  <2>5. QED
    BY <2>2, <2>3, <2>4, ListedIsListing DEF rows
<1>2. QED
  BY <1>1, InductiveInvariant, PTL

-----------------------------------------------------------------------------
(* Clients that keep to paths of their own and get answers.                *)

\* No two clients name the same path, and all spell it from the root; nobody
\* runs mkdir or userdel; no path is the directory of another; and nothing goes
\* wrong except with blocks, so a user who has to be asked can be asked.
Calm ==
  /\ \A c, d \in Clients : c # d => PathsOf[c] \cap PathsOf[d] = {}
  /\ \A c \in Clients : Commands[c] \subseteq {"upload", "remove", "download", "quota"}
  /\ \A path \in Paths : IsAbsolute(path)
  /\ \A p, q \in Paths : ~ Below(p, q)
  /\ Faults \subseteq {"transfer", "erase"}

\* Every client that waits is served, and only those that wait.
Served ==
  /\ \A c \in Clients : client[c].pc \in Waiting =>
       /\ thread[client[c].request] # NoThread
       /\ thread[client[c].request].path = client[c].path
       /\ client[c].pc \notin {"mkdir", "userdel"}
  /\ \A r \in Requests : thread[r] # NoThread =>
       client[r[1]].pc \in Waiting /\ client[r[1]].request = r

\* The rows of a client's paths are its user's.
Owned == \A f \in files : \A c \in Clients : f.path \in PathsOf[c] => f.owner = UserOf[c]

HasRow(path, id) == \E f \in Named(path) : f.id = id

\* What client s, served by thread t, knows of the rows of its path: an upload
\* gets to its plan only when there is none, and then has one.
Phase(s, t) ==
  /\ s.pc = "list" => t.step \in {"start", "ok"} \/ Named(s.path) = {}
  /\ s.pc \in {"overwrite", "rm"} =>
       /\ t.step \in {"found", "delete"} => HasRow(s.path, t.file)
       /\ t.step \in Replied => Named(s.path) = {}
  /\ s.pc = "purgeOld" => Named(s.path) = {}
  /\ s.pc = "plan" => /\ t.step = "start" => Named(s.path) = {}
                      /\ t.step = "ok" => HasRow(s.path, t.file)
  /\ s.pc \in {"transfer", "complete"} => HasRow(s.path, s.file)

PhaseOK(c) == Phase(client[c], thread[client[c].request])

CalmInv == Served /\ Owned /\ OnePathOneFile /\ \A c \in Clients : PhaseOK(c)

\* An absolute path lies below the directories it begins with, the root among
\* them, and the next component is its name there.
LEMMA AbsoluteBelow ==
  ASSUME NEW path \in Paths, IsAbsolute(path), NEW dir \in Seq(STRING)
  PROVE  /\ Below(dir, path) <=> Len(dir) < Len(path) /\ SubSeq(path, 1, Len(dir)) = dir
         /\ Len(dir) < Len(path) =>
              /\ NameIn(dir, path) = path[Len(dir) + 1]
              /\ IsDeeper(dir, path) <=> Len(path) > Len(dir) + 1
<1>1. path \in Seq(STRING) /\ Len(path) \in Nat /\ Len(path) >= 2 /\ Len(dir) \in Nat
  BY MetadataAssumption
<1>2. ASSUME dir = Root PROVE Len(dir) < Len(path) /\ SubSeq(path, 1, Len(dir)) = dir
  <2>1. Len(dir) = 1 /\ dir[1] = path[1]
    BY <1>2 DEF Root, IsAbsolute
  <2>2. /\ SubSeq(path, 1, 1) \in Seq(STRING) /\ Len(SubSeq(path, 1, 1)) = 1
        /\ SubSeq(path, 1, 1)[1] = path[1]
    BY <1>1
  <2>3. SubSeq(path, 1, 1) = dir
    BY <2>1, <2>2, SeqEqual
  <2>4. QED
    BY <1>1, <2>1, <2>3
<1>3. Parts(dir, path) = SubSeq(path, Len(dir) + 1, Len(path))
  BY DEF Parts
<1>4. ASSUME Len(dir) < Len(path)
      PROVE  /\ Parts(dir, path)[1] = path[Len(dir) + 1]
             /\ Len(Parts(dir, path)) = Len(path) - Len(dir)
  BY <1>1, <1>3, <1>4
<1>5. QED
  BY <1>1, <1>2, <1>4 DEF Below, NameIn, IsDeeper

\* A file that is there and that the user may use is listed under its name:
\* the rows of its directory that share the name are the file itself, for no
\* path leads below it.
LEMMA FileIsListed ==
  ASSUME Calm, TablesOK, TablesTyped, NEW user, NEW f \in files, MayUse(user, f)
  PROVE  IsListed(user, f.path)
<1> DEFINE path == f.path
           n == Len(path)
           dir == Directory(path)
           rows == Visible(user)
           results == ListFilesInDir(rows, dir)
<1>1. /\ path \in Seq(STRING) /\ n \in Nat /\ n >= 2
      /\ n - 1 \in Int /\ 1 \in Int
  <2>1. path \in Seq(STRING) /\ Len(path) >= 2
    BY MetadataAssumption DEF TablesTyped
  <2>2. QED
    BY <2>1
<1>2. dir \in Seq(STRING) /\ Len(dir) = n - 1 /\ \A i \in 1..(n - 1) : dir[i] = path[i]
  BY <1>1 DEF Directory
<1>3. f \in rows /\ Below(dir, path) /\ NameIn(dir, path) = path[n]
  <2>1. path \in Paths /\ IsAbsolute(path)
    BY DEF Calm, TablesTyped
  <2>2. Len(dir) < n /\ SubSeq(path, 1, Len(dir)) = dir /\ Len(dir) + 1 = n
    BY <1>1, <1>2 DEF Directory
  <2>3. QED
    BY <1>2, <2>1, <2>2, AbsoluteBelow DEF Visible
<1>4. /\ IsTable(rows) /\ lastId \in Nat
      /\ \A g \in rows : g.id <= lastId
  BY VisibleIsTable
<1> HIDE DEF dir
<1>5. Listed(results, rows, dir, LastRow(rows)) /\ f.id <= LastRow(rows)
  <2> HIDE DEF rows
  <2>1. QED
    BY <1>3, <1>4, ListsAll, LastRowExists
<1> HIDE DEF results, rows
<1>6. PICK i \in 1..Len(results) : results[i].filename = path[n]
  BY <1>3, <1>5 DEF Listed
<1>7. PICK g \in rows : results[i] = Entry(dir, g) /\ Below(dir, g.path)
  BY <1>5 DEF Listed
<1> DEFINE q == g.path
<1>8. /\ q \in Seq(STRING) /\ Len(q) \in Nat /\ q \in Paths /\ path \in Paths
      /\ IsAbsolute(q)
  BY <1>7, MetadataAssumption DEF rows, Visible, TablesTyped, Calm
<1>9. q[n] = path[n] /\ Len(q) >= n /\ SubSeq(q, 1, n - 1) = dir
  <2>1. (n - 1) + 1 = n /\ (n - 1 < Len(q) => Len(q) >= n)
    BY <1>1, <1>8
  <2>2. n - 1 < Len(q) /\ SubSeq(q, 1, n - 1) = dir
    BY <1>2, <1>7, <1>8, AbsoluteBelow
  <2>3. Entry(dir, g).filename = q[n]
    BY <1>2, <1>8, <2>1, <2>2, AbsoluteBelow DEF Entry
  <2>4. QED
    BY <1>6, <1>7, <2>1, <2>2, <2>3
<1>10. ~ (n < Len(q))
  <2>1. SubSeq(q, 1, n) = path
    <3>1. \A i1 \in 1..n : q[i1] = path[i1]
      <4>1. \A i1 \in 1..(n - 1) : q[i1] = SubSeq(q, 1, n - 1)[i1]
        BY <1>1, <1>8, <1>9
      <4>2. \A i1 \in 1..n : i1 \in 1..(n - 1) \/ i1 = n
        BY <1>1
      <4>3. QED
        BY <1>2, <1>9, <4>1, <4>2
    <3>2. /\ SubSeq(q, 1, n) \in Seq(STRING) /\ Len(SubSeq(q, 1, n)) = n
          /\ \A i1 \in 1..n : SubSeq(q, 1, n)[i1] = q[i1]
      BY <1>1, <1>8, <1>9
    <3>3. QED
      BY <1>1, <3>1, <3>2, SeqEqual
  <2>2. QED
    BY <1>8, <2>1 DEF Calm, Below
<1>11. results[i] = [filename |-> path[n], is_dir |-> FALSE]
  <2>1. ~ (Len(q) > (n - 1) + 1)
    BY <1>1, <1>8, <1>10
  <2>2. Entry(dir, g) = [filename |-> Entry(dir, g).filename, is_dir |-> FALSE]
    <3>1. IsDeeper(dir, g.path) = FALSE
      BY <1>1, <1>2, <1>8, <1>9, <2>1, AbsoluteBelow DEF IsDeeper
    <3>2. QED
      BY <3>1 DEF Entry
  <2>3. QED
    BY <1>6, <1>7, <2>2
<1>12. i \in DOMAIN results
  BY <1>5, LenProperties DEF Listed
<1>13. QED
  BY <1>11, <1>12 DEF IsListed, dir, rows, results

\* What a transaction makes of thread u, and of the rows.
Moved(u, step, file, todo, targets) ==
  [op |-> u.op, step |-> step, user |-> u.user, path |-> u.path, file |-> file,
   todo |-> todo, targets |-> targets]

Lists(u, t) ==
  /\ u.op = "list" /\ UNCHANGED <<files, chunkRows>>
  /\ t.step = "ok" \/ (t.step = "missing" /\ ~ IsListed(u.user, u.path))
Reports(u, t) == u.op = "quota" /\ UNCHANGED <<files, chunkRows>>
Plans(u, t) ==
  /\ u.op = "plan" /\ u.step = "start" /\ t.step = "ok" /\ t.file = lastId + 1
  /\ files' = files \cup {[id |-> lastId + 1, path |-> u.path, owner |-> u.user,
                           chunks |-> Cardinality(u.todo)]}
  /\ UNCHANGED chunkRows
Registers(u, t) ==
  /\ u.op = "complete" /\ UNCHANGED files
  /\ \E index \in u.todo :
       /\ chunkRows' = chunkRows \cup {<<u.file, index>>}
       /\ t = Moved(u, IF u.todo \ {index} = {} THEN "ok" ELSE "start", u.file,
                    u.todo \ {index}, u.targets)
Looks(u, t) ==
  /\ u.op \in {"download", "remove"} /\ u.step = "start" /\ UNCHANGED <<files, chunkRows>>
  /\ \/ Named(u.path) # {} /\ t.step = "found" /\ t.file = FileByName(u.path).id
     \/ /\ ~ (Named(u.path) # {} /\ MayUse(u.user, FileByName(u.path)))
        /\ t.step = "missing"
ReadsChunks(u, t) ==
  /\ u.op \in {"download", "remove"} /\ u.step = "found" /\ UNCHANGED <<files, chunkRows>>
  /\ t = Moved(u, IF u.op = "remove" THEN "delete" ELSE "ok", u.file, u.todo,
               ChunksOf(u.file))
Deletes(u, t) ==
  /\ u.op = "remove" /\ u.step = "delete"
  /\ t = Moved(u, "ok", u.file, u.todo, u.targets)
  /\ chunkRows' = chunkRows \ ChunksOf(u.file)
  /\ files' = {f \in files : f.id # u.file}

Effect(u, t) ==
  \/ Lists(u, t) \/ Reports(u, t) \/ Plans(u, t) \/ Registers(u, t)
  \/ Looks(u, t) \/ ReadsChunks(u, t) \/ Deletes(u, t)

\* Every transaction of a handler has one of these effects.
LEMMA HandlerEffect ==
  ASSUME IInv, NEW r \in Requests, Handle(r), thread[r].op \notin {"mkdir", "userdel"},
         thread[r].op \in {"plan", "download", "remove"} =>
           FullPath(thread[r].path) = thread[r].path
  PROVE  \E t : /\ thread' = [thread EXCEPT ![r] = t]
                /\ t.op = thread[r].op /\ t.user = thread[r].user /\ t.path = thread[r].path
                /\ Effect(thread[r], t)
<1>1. PICK u : u = thread[r]
  OBVIOUS
<1>2. u # NoThread
  BY <1>1, HandlerKeeps
<1>3. u = Moved(u, u.step, u.file, u.todo, u.targets)
  BY <1>1, <1>2 DEF IInv, ThreadsOK, ThreadOK, IsThread, Moved
<1>4. ASSUME NEW t, NEW step, NEW file, NEW todo, NEW targets,
             t = Moved(u, step, file, todo, targets),
             thread' = [thread EXCEPT ![r] = t], Effect(u, t)
      PROVE  \E new : /\ thread' = [thread EXCEPT ![r] = new]
                      /\ new.op = u.op /\ new.user = u.user /\ new.path = u.path
                      /\ Effect(u, new)
  <2>1. t.op = u.op /\ t.user = u.user /\ t.path = u.path
    BY <1>4 DEF Moved
  <2>2. QED
    BY <1>4, <2>1
<1> HIDE DEF Effect
<1> USE DEF At, Update, tables
<1>5. CASE AddFile(r)
  <2>1. PICK t : t = [u EXCEPT !.step = "ok", !.file = lastId + 1]
    OBVIOUS
  <2>2. thread' = [thread EXCEPT ![r] = t]
    BY <1>1, <1>5, <2>1 DEF AddFile
  <2>3. t = Moved(u, "ok", lastId + 1, u.todo, u.targets)
    BY <1>3, <2>1 DEF Moved
  <2>4. u.op = "plan" /\ RowPath(r) = u.path
    BY <1>1, <1>5 DEF AddFile, RowPath
  <2>5. Plans(u, t)
    BY <1>1, <1>5, <2>3, <2>4 DEF AddFile, Plans, Moved
  <2>6. QED
    BY <1>1, <1>4, <2>2, <2>3, <2>5 DEF Effect
<1>6. CASE AddChunk(r)
  <2>1. PICK index : index = CHOOSE i \in u.todo : \A j \in u.todo : i <= j
    OBVIOUS
  <2>2. PICK t : t = [u EXCEPT !.todo = u.todo \ {index},
                        !.step = IF u.todo \ {index} = {} THEN "ok" ELSE "start"]
    OBVIOUS
  <2>3. /\ thread' = [thread EXCEPT ![r] = t]
        /\ chunkRows' = chunkRows \cup {<<u.file, index>>}
        /\ u.op = "complete" /\ u.step = "start" /\ files' = files
    BY <1>1, <1>6, <2>1, <2>2 DEF AddChunk
  <2>4. t = Moved(u, IF u.todo \ {index} = {} THEN "ok" ELSE "start", u.file,
                  u.todo \ {index}, u.targets)
    BY <1>3, <2>2 DEF Moved
  <2>5. index \in u.todo
    <3>1. /\ u.todo # {} /\ u.todo \subseteq Nat
      BY <1>1, <1>2, <2>3, FileStoreAssumption DEF IInv, ThreadsOK, ThreadOK, CompleteOK
    <3>2. \E i \in u.todo : \A j \in u.todo : i <= j
      BY <3>1, LeastExists
    <3>3. QED
      BY <2>1, <3>2
  <2>6. Registers(u, t)
    BY <2>3, <2>4, <2>5 DEF Registers
  <2>7. QED
    BY <1>1, <1>4, <2>3, <2>4, <2>6 DEF Effect
<1>7. CASE ListFiles(r)
  <2>1. PICK t : t = [u EXCEPT !.step = IF IsListed(u.user, u.path) THEN "ok" ELSE "missing"]
    OBVIOUS
  <2>2. thread' = [thread EXCEPT ![r] = t]
    BY <1>1, <1>7, <2>1 DEF ListFiles
  <2>3. t = Moved(u, IF IsListed(u.user, u.path) THEN "ok" ELSE "missing", u.file, u.todo,
                  u.targets)
    BY <1>3, <2>1 DEF Moved
  <2>4. Lists(u, t)
    BY <1>1, <1>7, <2>3 DEF ListFiles, Lists, Moved
  <2>5. QED
    BY <1>1, <1>4, <2>2, <2>3, <2>4 DEF Effect
<1>8. CASE ReportQuota(r)
  <2>1. PICK t : t = [u EXCEPT !.step = "ok", !.file = Quota(u.user)]
    OBVIOUS
  <2>2. thread' = [thread EXCEPT ![r] = t]
    BY <1>1, <1>8, <2>1 DEF ReportQuota
  <2>3. t = Moved(u, "ok", Quota(u.user), u.todo, u.targets)
    BY <1>3, <2>1 DEF Moved
  <2>4. Reports(u, t)
    BY <1>1, <1>8, <2>3 DEF ReportQuota, Reports, Moved
  <2>5. QED
    BY <1>1, <1>4, <2>2, <2>3, <2>4 DEF Effect
<1>9. CASE LookUpFile(r)
  <2> DEFINE found == Named(u.path) # {} /\ MayUse(u.user, FileByName(u.path))
  <2>1. PICK t : t = IF found THEN [u EXCEPT !.step = "found", !.file = FileByName(u.path).id]
                              ELSE [u EXCEPT !.step = "missing"]
    OBVIOUS
  <2>2. /\ thread' = [thread EXCEPT ![r] = t] /\ UNCHANGED <<files, chunkRows>>
        /\ u.op \in {"download", "remove"} /\ u.step = "start"
    <3>1. FullPath(u.path) = u.path
      BY <1>1, <1>9 DEF LookUpFile
    <3>2. QED
      BY <1>1, <1>9, <2>1, <3>1 DEF LookUpFile
  <2>3. t = Moved(u, IF found THEN "found" ELSE "missing",
                  IF found THEN FileByName(u.path).id ELSE u.file, u.todo, u.targets)
    BY <1>3, <2>1 DEF Moved
  <2>4. /\ t.step = IF found THEN "found" ELSE "missing"
        /\ t.file = IF found THEN FileByName(u.path).id ELSE u.file
    BY <2>3 DEF Moved
  <2>5. Looks(u, t)
    BY <2>2, <2>4 DEF Looks
  <2>6. QED
    BY <1>1, <1>4, <2>2, <2>3, <2>5 DEF Effect
<1>10. CASE ReadChunks(r)
  <2>1. PICK t : t = [u EXCEPT !.targets = ChunksOf(u.file),
                               !.step = IF u.op = "remove" THEN "delete" ELSE "ok"]
    OBVIOUS
  <2>2. thread' = [thread EXCEPT ![r] = t]
    BY <1>1, <1>10, <2>1 DEF ReadChunks
  <2>3. t = Moved(u, IF u.op = "remove" THEN "delete" ELSE "ok", u.file, u.todo, ChunksOf(u.file))
    BY <1>3, <2>1 DEF Moved
  <2>4. ReadsChunks(u, t)
    BY <1>1, <1>10, <2>3 DEF ReadChunks, ReadsChunks, Moved
  <2>5. QED
    BY <1>1, <1>4, <2>2, <2>3, <2>4 DEF Effect
<1>11. CASE DeleteFile(r)
  <2>1. PICK t : t = [u EXCEPT !.step = "ok"]
    OBVIOUS
  <2>2. thread' = [thread EXCEPT ![r] = t]
    BY <1>1, <1>11, <2>1 DEF DeleteFile
  <2>3. t = Moved(u, "ok", u.file, u.todo, u.targets)
    BY <1>3, <2>1 DEF Moved
  <2>4. Deletes(u, t)
    BY <1>1, <1>11, <2>3 DEF DeleteFile, Deletes, Moved
  <2>5. QED
    BY <1>1, <1>4, <2>2, <2>3, <2>4 DEF Effect
<1>12. CASE VerifyAdmin(r) \/ LookUpUser(r) \/ ListUserFiles(r) \/ PlanUserFile(r) \/ DeleteUser(r)
  BY <1>12 DEF VerifyAdmin, LookUpUser, ListUserFiles, PlanUserFile, DeleteUser
<1>13. QED
  BY <1>5, <1>6, <1>7, <1>8, <1>9, <1>10, <1>11, <1>12 DEF Handle, HandleFiles, HandleUserdel

\* Requests and files of different clients differ.
LEMMA ApartPaths ==
  ASSUME Calm, NEW c \in Clients, NEW d \in Clients, c # d, NEW path \in PathsOf[c]
  PROVE  path \notin PathsOf[d]
BY DEF Calm

\* A client spells its paths as the rows keep them.
LEMMA CalmPaths ==
  ASSUME Calm, NEW c \in Clients, NEW path \in Spelled(c)
  PROVE  path \in PathsOf[c] /\ FullPath(path) = path
<1>1. \A p \in PathsOf[c] : FullPath(p) = p
  BY FileStoreAssumption DEF Calm, FullPath
<1>2. QED
  BY <1>1 DEF Spelled

\* Where a client is on a path, the path is one of its own.
LEMMA OnOwnPath ==
  ASSUME Calm, TypeInv, NEW c \in Clients, client[c].pc \in OnPath
  PROVE  client[c].path \in PathsOf[c]
BY CalmPaths DEF TypeInv, ActorsTyped, ClientTyped

\* Client c and the threads that serve it change, the others go on being served.
ServesOn(c, s) ==
  /\ client' = [client EXCEPT ![c] = s]
  /\ \A q \in Requests : q[1] # c => thread'[q] = thread[q]
  /\ \A q \in Requests : q[1] = c /\ thread'[q] # NoThread => s.pc \in Waiting /\ s.request = q
  /\ s.pc \in Waiting => /\ thread'[s.request] # NoThread /\ thread'[s.request].path = s.path
                         /\ s.pc \notin {"mkdir", "userdel"}

\* What a client knows stays true while nobody touches it.
Untouched(d) ==
  /\ client'[d] = client[d]
  /\ client[d].pc \in Waiting => thread'[client[d].request] = thread[client[d].request]

LEMMA OthersServed ==
  ASSUME IInv, Served, NEW c \in Clients, NEW s, ServesOn(c, s)
  PROVE  Served' /\ client'[c] = s /\ \A d \in Clients : d # c => Untouched(d)
<1>1. ASSUME NEW d \in Clients PROVE client'[d] = IF d = c THEN s ELSE client[d]
  BY DEF ServesOn, IInv, ClientsOK
<1>2. ASSUME NEW d \in Clients, d # c PROVE Untouched(d)
  <2>1. client[d].pc \in Waiting => client[d].request \in Requests /\ client[d].request[1] = d
    BY DEF IInv, ClientsOK, RequestOK
  <2>2. QED
    BY <1>1, <1>2, <2>1 DEF ServesOn, Untouched
<1>3. ASSUME NEW d \in Clients, client'[d].pc \in Waiting
      PROVE  /\ thread'[client'[d].request] # NoThread
             /\ thread'[client'[d].request].path = client'[d].path
             /\ client'[d].pc \notin {"mkdir", "userdel"}
  BY <1>1, <1>2, <1>3 DEF ServesOn, Untouched, Served
<1>4. ASSUME NEW q \in Requests, thread'[q] # NoThread
      PROVE  client'[q[1]].pc \in Waiting /\ client'[q[1]].request = q
  <2>1. q[1] \in Clients
    BY FileStoreAssumption
  <2>2. QED
    BY <1>1, <1>4, <2>1 DEF ServesOn, Served
<1>5. QED
  BY <1>1, <1>2, <1>3, <1>4 DEF Served

LEMMA PhaseKept ==
  ASSUME Calm, TypeInv, NEW d \in Clients, PhaseOK(d), Untouched(d),
         \A path \in PathsOf[d] : Named(path)' = Named(path)
  PROVE  PhaseOK(d)'
<1>1. PICK s : s = client[d]
  OBVIOUS
<1>2. PICK t : t = thread'[s.request]
  OBVIOUS
<1>3. client'[d] = s /\ (s.pc \in Waiting => t = thread[s.request])
  BY <1>1, <1>2 DEF Untouched
<1>4. s.pc \in OnPath => /\ (Named(s.path) = {})' <=> Named(s.path) = {}
                         /\ \A id : HasRow(s.path, id)' <=> HasRow(s.path, id)
  <2>1. s.pc \in OnPath => Named(s.path)' = Named(s.path)
    BY <1>1, OnOwnPath
  <2>2. QED
    BY <2>1 DEF HasRow
<1>5. Phase(s, t)
  <2>1. Phase(s, thread[s.request])
    BY <1>1 DEF PhaseOK
  <2>2. QED
    BY <1>3, <2>1 DEF Phase, Waiting
<1>6. Phase(s, t)'
  BY <1>4, <1>5 DEF Phase, OnPath
<1>7. QED
  BY <1>2, <1>3, <1>6 DEF PhaseOK, Phase, Named, HasRow

\* The handler of request r, with thread u, serves client c, and a transaction
\* makes t of its thread.
Serving(r, u, t, c, s) ==
  /\ c \in Clients /\ s = client[c] /\ u = thread[r] /\ client'[c] = s
  /\ s.pc \in Waiting \ {"mkdir", "userdel"} /\ s.request = r /\ u.path = s.path
  /\ u.op = "complete" => u.file = s.file
  /\ u.user = UserOf[c] /\ (u.op # "quota" => s.path \in PathsOf[c])
  /\ u # NoThread /\ thread'[r] = t /\ ServesOn(c, s)

\* What a transaction deletes is one row, of the path of its client.
Deleted(u, s) ==
  \E f \in Named(s.path) : /\ f.id = u.file /\ \A g \in files : g.id = u.file => g = f
                           /\ files' = files \ {f}

\* What a transaction of a handler has to do with its client.
LEMMA HandlerServes ==
  ASSUME Calm, IInv, TypeInv, CalmInv, NEW r \in Requests, Handle(r), client' = client
  PROVE  \E u, t, c, s :
           /\ Serving(r, u, t, c, s) /\ Effect(u, t)
           /\ u.op = "remove" => s.pc \in {"overwrite", "rm"}
           /\ u.op # "remove" => s.pc = u.op
           /\ Deletes(u, t) => Deleted(u, s)
           /\ ~ Deletes(u, t) /\ ~ Plans(u, t) => files' = files
<1> USE DEF CalmInv
<1>1. PICK c, s, u : /\ c = r[1] /\ c \in Clients /\ s = client[c] /\ u = thread[r]
  BY FileStoreAssumption
<1>2. /\ u # NoThread /\ s.pc \in Waiting /\ s.request = r /\ u.path = s.path
      /\ s.pc \notin {"mkdir", "userdel"} /\ u.op = OpAt(s.pc)
  <2>1. u # NoThread
    BY <1>1, HandlerKeeps
  <2>2. s.pc \in Waiting /\ s.request = r
    BY <1>1, <2>1 DEF Served
  <2>3. QED
    BY <1>1, <2>1, <2>2 DEF Served, IInv, ClientsOK, RequestOK
<1>3. u.op \in {"list", "remove", "plan", "complete", "download", "quota"}
  BY <1>2 DEF OpAt, Waiting
<1>4. /\ u.user = UserOf[c]
      /\ u.op # "quota" => s.path \in PathsOf[c] /\ FullPath(u.path) = u.path
  <2>1. ThreadTyped(r, u)
    BY <1>1, <1>2 DEF TypeInv, ActorsTyped
  <2>2. u.op # "quota" => u.path \in Spelled(c)
    BY <1>1, <1>3, <2>1 DEF ThreadTyped, FileOps
  <2>3. QED
    BY <1>1, <1>2, <2>1, <2>2, CalmPaths DEF ThreadTyped
<1>5. PICK t : /\ thread' = [thread EXCEPT ![r] = t]
               /\ t.op = u.op /\ t.user = u.user /\ t.path = u.path /\ Effect(u, t)
  BY <1>1, <1>3, <1>4, HandlerEffect
<1>6. thread'[r] = t
  BY <1>5 DEF IInv, ThreadsOK
<1>7. ServesOn(c, s)
  <2>1. client' = [client EXCEPT ![c] = s]
    BY <1>1 DEF IInv, ClientsOK
  <2>2. \A q \in Requests : q # r => thread'[q] = thread[q]
    BY <1>5 DEF IInv, ThreadsOK
  <2>3. t # NoThread
    BY <1>3, <1>5 DEF NoThread
  <2>4. \A q \in Requests : q[1] = c /\ thread'[q] # NoThread => s.pc \in Waiting /\ s.request = q
    BY <1>1, <1>2, <2>2 DEF Served
  <2>5. QED
    BY <1>1, <1>2, <1>5, <1>6, <2>1, <2>2, <2>3, <2>4 DEF ServesOn
<1>8. u.op = "complete" => u.file = s.file
  BY <1>1, <1>2 DEF IInv, ClientsOK, RequestOK, OpAt
<1>9. Phase(s, u)
  BY <1>1, <1>2 DEF PhaseOK
<1>10. u.op = "remove" => s.pc \in {"overwrite", "rm"}
  BY <1>2 DEF OpAt, Waiting
<1>11. u.op # "remove" => s.pc = u.op
  BY <1>2 DEF OpAt
<1>12. ASSUME Deletes(u, t) PROVE Deleted(u, s)
  <2>1. PICK f \in Named(s.path) : f.id = u.file
    BY <1>9, <1>10, <1>12 DEF Deletes, Phase, HasRow
  <2>2. \A g \in files : g.id = u.file => g = f
    BY <2>1 DEF Named, IInv, TablesOK
  <2>3. files' = files \ {f}
    BY <1>12, <2>1, <2>2 DEF Deletes
  <2>4. QED
    BY <2>1, <2>2, <2>3 DEF Deleted
<1>13. ~ Deletes(u, t) /\ ~ Plans(u, t) => files' = files
  BY <1>5 DEF Effect, Lists, Reports, Registers, Looks, ReadsChunks
<1>14. Serving(r, u, t, c, s)
  BY <1>1, <1>2, <1>6, <1>7, <1>8, <1>4 DEF Serving
<1>15. QED
  BY <1>5, <1>10, <1>11, <1>12, <1>13, <1>14

\* A transaction of a handler keeps what its client and the others know.
LEMMA HandlerIsCalm ==
  ASSUME Calm, IInv, TypeInv, CalmInv, NEW r \in Requests, Handle(r), client' = client
  PROVE  CalmInv'
<1> USE DEF CalmInv
<1>1. PICK u, t, c, s :
        /\ Serving(r, u, t, c, s) /\ Effect(u, t)
        /\ u.op = "remove" => s.pc \in {"overwrite", "rm"}
        /\ u.op # "remove" => s.pc = u.op
        /\ Deletes(u, t) => Deleted(u, s)
        /\ ~ Deletes(u, t) /\ ~ Plans(u, t) => files' = files
  BY HandlerServes
<1>2. /\ c \in Clients /\ s = client[c] /\ u = thread[r] /\ u.path = s.path
      /\ s.pc \in Waiting /\ s.request = r
  BY <1>1 DEF Serving
<1>3. u.user = UserOf[c] /\ (u.op # "quota" => s.path \in PathsOf[c])
  BY <1>1 DEF Serving
<1>4. Served' /\ client'[c] = s /\ \A d \in Clients : d # c => Untouched(d)
  BY <1>1, <1>2, OthersServed DEF Serving
<1>5. thread'[r] = t
  BY <1>1 DEF Serving
<1>6. Phase(s, u)
  BY <1>2 DEF PhaseOK
<1>7. ASSUME Plans(u, t)
       PROVE  \E f : /\ f.id = lastId + 1 /\ f.path = s.path /\ f.owner = UserOf[c]
                     /\ files' = files \cup {f} /\ Named(s.path) = {}
  <2>1. PICK f : f = [id |-> lastId + 1, path |-> u.path, owner |-> u.user,
                      chunks |-> Cardinality(u.todo)]
    OBVIOUS
  <2>2. files' = files \cup {f}
    BY <1>7, <2>1 DEF Plans
  <2>3. f.id = lastId + 1 /\ f.path = s.path /\ f.owner = UserOf[c]
    BY <1>2, <1>3, <2>1
  <2>4. Named(s.path) = {}
    BY <1>6, <1>1, <1>7 DEF Plans, Phase
  <2>5. QED
    BY <2>2, <2>3, <2>4
<1>8. ASSUME NEW d \in Clients, d # c, NEW path \in PathsOf[d]
       PROVE  Named(path)' = Named(path)
  <2>1. u.op # "quota" => path # s.path
    BY <1>2, <1>3, <1>8, ApartPaths
  <2>2. CASE Deletes(u, t)
    <3>1. PICK f : files' = files \ {f} /\ f.path = s.path
      BY <1>1, <2>2 DEF Named, Deleted
    <3>2. u.op # "quota"
      BY <2>2 DEF Deletes
    <3>3. QED
      BY <2>1, <3>1, <3>2 DEF Named
  <2>3. CASE Plans(u, t)
    <3>1. PICK f : files' = files \cup {f} /\ f.path = s.path
      BY <1>7, <2>3
    <3>2. u.op # "quota"
      BY <2>3 DEF Plans
    <3>3. QED
      BY <2>1, <3>1, <3>2 DEF Named
  <2>4. QED
    BY <1>1, <2>2, <2>3 DEF Named
<1>9. Owned'
  <2>1. CASE Plans(u, t)
    <3>1. PICK f : files' = files \cup {f} /\ f.path = s.path /\ f.owner = UserOf[c]
      BY <1>7, <2>1
    <3>2. s.path \in PathsOf[c]
      BY <1>3, <2>1 DEF Plans
    <3>3. QED
      BY <1>2, <3>1, <3>2, ApartPaths DEF Owned
  <2>2. CASE Deletes(u, t)
    BY <1>1, <2>2 DEF Owned, Deleted
  <2>3. QED
    BY <1>1, <2>1, <2>2 DEF Owned
<1>10. OnePathOneFile'
  <2>1. CASE Plans(u, t)
    <3>1. PICK f : files' = files \cup {f} /\ f.path = s.path /\ Named(s.path) = {}
      BY <1>7, <2>1
    <3>2. QED
      BY <3>1 DEF OnePathOneFile, Named
  <2>2. CASE Deletes(u, t)
    BY <1>1, <2>2 DEF OnePathOneFile, Deleted
  <2>3. QED
    BY <1>1, <2>1, <2>2 DEF OnePathOneFile
<1>11. ASSUME NEW f \in Named(s.path), u.op # "quota" PROVE MayUse(u.user, f)
  BY <1>2, <1>3, <1>11 DEF Named, Owned, MayUse
<1>12. Phase(s, t)'
  <2>1. CASE Lists(u, t)
    <3>1. ASSUME t.step # "ok" PROVE Named(s.path) = {}
      <4>1. ASSUME NEW f \in Named(s.path) PROVE FALSE
        <5>1. f \in files /\ f.path = u.path /\ MayUse(u.user, f)
          BY <1>2, <1>11, <2>1 DEF Named, Lists
        <5>2. IsListed(u.user, f.path)
          BY <5>1, FileIsListed DEF IInv, TypeInv
        <5>3. QED
          BY <2>1, <3>1, <5>1, <5>2 DEF Lists
      <4>2. QED
        BY <4>1
    <3>2. files' = files /\ s.pc = "list"
      BY <1>1, <2>1 DEF Lists
    <3>3. QED
      BY <3>1, <3>2 DEF Phase, Named
  <2>2. CASE Reports(u, t)
    BY <1>1, <2>2 DEF Reports, Phase
  <2>3. CASE Plans(u, t)
    <3>1. PICK f : files' = files \cup {f} /\ f.path = s.path /\ f.id = lastId + 1
      BY <1>7, <2>3
    <3>2. f \in Named(s.path)'
      BY <3>1 DEF Named
    <3>3. HasRow(s.path, t.file)'
      BY <2>3, <3>1, <3>2 DEF HasRow, Plans
    <3>4. s.pc = "plan" /\ t.step = "ok"
      BY <1>1, <2>3 DEF Plans
    <3>5. QED
      BY <3>3, <3>4 DEF Phase
  <2>4. CASE Registers(u, t)
    BY <1>6, <1>1, <2>4 DEF Registers, Phase, HasRow, Named
  <2>5. CASE Looks(u, t)
    <3>1. CASE s.pc = "download"
      BY <3>1 DEF Phase
    <3>2. CASE s.pc \in {"overwrite", "rm"}
      <4>1. CASE Named(u.path) # {} /\ t.step = "found" /\ t.file = FileByName(u.path).id
        <5>1. HasRow(s.path, t.file)
          BY <1>2, <4>1, FileByNameIsNamed DEF HasRow, IInv
        <5>2. HasRow(s.path, t.file)'
          BY <2>5, <5>1 DEF Looks, HasRow, Named
        <5>3. QED
          BY <3>2, <4>1, <5>2 DEF Phase, Replied
      <4>2. CASE /\ ~ (Named(u.path) # {} /\ MayUse(u.user, FileByName(u.path)))
                 /\ t.step = "missing"
        <5>1. u.op # "quota"
          BY <2>5 DEF Looks
        <5>2. Named(s.path) = {}
          BY <1>2, <1>11, <4>2, <5>1, FileByNameIsNamed DEF IInv
        <5>3. Named(s.path)' = {}
          BY <2>5, <5>2 DEF Looks, Named
        <5>4. QED
          BY <3>2, <4>2, <5>3 DEF Phase
      <4>3. QED
        BY <2>5, <4>1, <4>2 DEF Looks
    <3>3. QED
      BY <1>1, <2>5, <3>1, <3>2 DEF Looks
  <2>6. CASE ReadsChunks(u, t)
    <3>1. CASE s.pc = "download"
      BY <3>1 DEF Phase
    <3>2. CASE s.pc \in {"overwrite", "rm"}
      <4>1. u.op = "remove" /\ u.step = "found" /\ files' = files
        BY <1>1, <2>6, <3>2 DEF ReadsChunks
      <4>2. t.step = "delete" /\ t.file = u.file
        BY <2>6, <4>1 DEF ReadsChunks, Moved
      <4>3. HasRow(s.path, t.file)'
        BY <1>6, <3>2, <4>1, <4>2 DEF Phase, HasRow, Named
      <4>4. QED
        BY <3>2, <4>2, <4>3 DEF Phase, Replied
    <3>3. QED
      BY <1>1, <2>6, <3>1, <3>2 DEF ReadsChunks
  <2>7. CASE Deletes(u, t)
    <3>1. PICK f \in Named(s.path) : files' = files \ {f}
      BY <1>1, <2>7 DEF Deleted
    <3>2. Named(s.path)' = {}
      BY <3>1 DEF OnePathOneFile, Named
    <3>3. t.step = "ok" /\ s.pc \in {"overwrite", "rm"}
      BY <1>1, <2>7 DEF Deletes, Moved
    <3>4. QED
      BY <3>2, <3>3 DEF Phase
  <2>8. QED
    BY <1>1, <2>1, <2>2, <2>3, <2>4, <2>5, <2>6, <2>7 DEF Effect
<1>13. ASSUME NEW d \in Clients PROVE PhaseOK(d)'
  <2>1. CASE d = c
    BY <1>2, <1>5, <1>4, <1>12, <2>1 DEF PhaseOK, Phase, HasRow, Named
  <2>2. CASE d # c
    BY <1>4, <1>8, <2>2, PhaseKept
  <2>3. QED
    BY <2>1, <2>2
<1>14. QED
  BY <1>4, <1>9, <1>10, <1>13

\* Client c turns to s, which knows enough of the rows.
LEMMA ClientKnows ==
  ASSUME Calm, IInv, TypeInv, CalmInv, NEW c \in Clients, NEW s, NEW t,
         ServesOn(c, s), files' = files, s.pc \in Waiting => t = thread'[s.request], Phase(s, t)
  PROVE  CalmInv'
<1> USE DEF CalmInv
<1>1. Served' /\ client'[c] = s /\ \A d \in Clients : d # c => Untouched(d)
  BY OthersServed
<1>2. Owned' /\ OnePathOneFile'
  BY DEF Owned, OnePathOneFile
<1>3. \A path : Named(path)' = Named(path)
  BY DEF Named
<1>4. PhaseOK(c)'
  <2>1. PICK t1 : t1 = thread'[s.request] /\ (s.pc \in Waiting => t1 = t)
    OBVIOUS
  <2>2. Phase(s, t1)'
    BY <2>1 DEF Phase, HasRow, Named, Waiting
  <2>3. QED
    BY <1>1, <2>1, <2>2 DEF PhaseOK, Phase, HasRow, Named
<1>5. \A d \in Clients : d # c => PhaseOK(d)'
  BY <1>1, <1>3, PhaseKept
<1>6. QED
  BY <1>1, <1>2, <1>4, <1>5

\* A request is a pair, so it is never the empty sequence.
LEMMA NoRequestIsNone == NoRequest \notin Requests
<1>1. \A id, n : <<>> # <<id, n>>
  OBVIOUS
<1>2. \A r \in Requests : \E id, n : r = <<id, n>>
  BY FileStoreAssumption
<1>3. QED
  BY <1>1, <1>2 DEF NoRequest

\* Client c asks, and has read the answer it waited for.
LEMMA AsksServed ==
  ASSUME IInv, Served, NEW c \in Clients, NEW done, NEW pc \in Waiting \ {"mkdir", "userdel"},
         NEW op, NEW path, NEW file, NEW todo,
         Ask(c, done, pc, op, path, file, todo), op # "none",
         \/ client[c].pc \in Waiting /\ done = client[c].request
         \/ client[c].pc \notin Waiting /\ done = NoRequest
  PROVE  \E r \in Requests : \E s :
           /\ s = [pc |-> pc, path |-> path, request |-> r, file |-> client[c].file,
                   left |-> client[c].left]
           /\ thread'[r] = Request(op, UserOf[c], path, file, todo)
           /\ ServesOn(c, s)
<1>1. PICK r \in Requests :
        /\ r[1] = c
        /\ thread' = [q \in Requests |->
             IF q = r THEN Request(op, UserOf[c], path, file, todo)
             ELSE IF q = done THEN NoThread ELSE thread[q]]
        /\ client' = [client EXCEPT ![c] =
             [client[c] EXCEPT !.pc = pc, !.path = path, !.request = r]]
  BY DEF Ask, Become
<1>2. PICK s : s = [client[c] EXCEPT !.pc = pc, !.path = path, !.request = r]
  OBVIOUS
<1>3. s = [pc |-> pc, path |-> path, request |-> r, file |-> client[c].file,
           left |-> client[c].left]
  <2>1. ClientOK(client[c])
    BY DEF IInv, ClientsOK
  <2>2. QED
    BY <1>2, <2>1 DEF ClientOK
<1>4. thread'[r] = Request(op, UserOf[c], path, file, todo)
  BY <1>1
<1>5. thread'[r] # NoThread /\ thread'[r].path = path
  BY <1>4 DEF Request, NoThread
<1>6. ASSUME NEW q \in Requests, q[1] # c PROVE thread'[q] = thread[q]
  <2>1. CASE q # done
    BY <1>1, <1>6, <2>1
  <2>2. CASE q = done
    BY <1>6, <2>2, NoRequestIsNone DEF IInv, ClientsOK, RequestOK
  <2>3. QED
    BY <2>1, <2>2
<1>7. ASSUME NEW q \in Requests, q[1] = c, thread'[q] # NoThread PROVE q = r
  <2>1. ASSUME q # r, q # done PROVE FALSE
    BY <1>1, <1>7, <2>1 DEF Served
  <2>2. QED
    BY <1>1, <1>7, <2>1
<1>8. ServesOn(c, s)
  BY <1>1, <1>2, <1>3, <1>5, <1>6, <1>7 DEF ServesOn
<1>9. QED
  BY <1>3, <1>4, <1>8

\* Client c goes on without asking, and has read the answer it waited for.
LEMMA RestsServed ==
  ASSUME IInv, Served, NEW c \in Clients, NEW s, s.pc \notin Waiting, Become(c, s),
         \/ client[c].pc \in Waiting /\ Read(c)
         \/ client[c].pc \notin Waiting /\ thread' = thread
  PROVE  ServesOn(c, s)
<1>1. client[c].pc \in Waiting => client[c].request \in Requests /\ client[c].request[1] = c
  BY DEF IInv, ClientsOK, RequestOK
<1>2. ASSUME NEW q \in Requests, q[1] # c PROVE thread'[q] = thread[q]
  BY <1>1, <1>2 DEF Read, IInv, ThreadsOK
<1>3. ASSUME NEW q \in Requests, q[1] = c PROVE thread'[q] = NoThread
  BY <1>1, <1>3 DEF Read, IInv, ThreadsOK, Served
<1>4. QED
  BY <1>2, <1>3 DEF ServesOn, Become

\* A client asks for a plan only if there is no row of its path, and to
\* complete only the row it has there.
LEMMA AskIsCalm ==
  ASSUME Calm, IInv, TypeInv, CalmInv, NEW c \in Clients, NEW done,
         NEW pc \in Waiting \ {"mkdir", "userdel"},
         NEW op, NEW path, NEW file, NEW todo,
         Ask(c, done, pc, op, path, file, todo), op # "none", files' = files,
         \/ client[c].pc \in Waiting /\ done = client[c].request
         \/ client[c].pc \notin Waiting /\ done = NoRequest,
         pc = "plan" => Named(path) = {},
         pc = "complete" => HasRow(path, client[c].file)
  PROVE  CalmInv'
<1>1. Served
  BY DEF CalmInv
<1>2. PICK r \in Requests :
        \E s : /\ s = [pc |-> pc, path |-> path, request |-> r, file |-> client[c].file,
                       left |-> client[c].left]
               /\ thread'[r] = Request(op, UserOf[c], path, file, todo)
               /\ ServesOn(c, s)
  BY <1>1, AsksServed
<1>3. PICK s : /\ s = [pc |-> pc, path |-> path, request |-> r, file |-> client[c].file,
                       left |-> client[c].left]
               /\ thread'[r] = Request(op, UserOf[c], path, file, todo)
               /\ ServesOn(c, s)
  BY <1>2
<1>4. PICK t : t = Request(op, UserOf[c], path, file, todo)
  OBVIOUS
<1>5. t.step = "start" /\ s.pc = pc /\ s.path = path /\ s.file = client[c].file
  BY <1>3, <1>4 DEF Request
<1>6. Phase(s, t)
  BY <1>5 DEF Phase, Waiting, Replied
<1>7. t = thread'[s.request]
  BY <1>3, <1>4
<1>8. QED
  BY <1>3, <1>6, <1>7, ClientKnows

\* A client that goes on without asking.
LEMMA RestIsCalm ==
  ASSUME Calm, IInv, TypeInv, CalmInv, NEW c \in Clients, NEW s, s.pc \notin Waiting,
         Become(c, s), files' = files,
         \/ client[c].pc \in Waiting /\ Read(c)
         \/ client[c].pc \notin Waiting /\ thread' = thread,
         s.pc = "purgeOld" => Named(s.path) = {},
         s.pc = "transfer" => HasRow(s.path, s.file)
  PROVE  CalmInv'
<1>1. ServesOn(c, s)
  BY RestsServed DEF CalmInv
<1>2. PICK t : t = thread'[s.request]
  OBVIOUS
<1>3. Phase(s, t)
  BY DEF Phase, Waiting
<1>4. QED
  BY <1>1, <1>2, <1>3, ClientKnows

\* It goes on to ask for a plan...
LEMMA PlanIsCalm ==
  ASSUME Calm, IInv, TypeInv, CalmInv, NEW c \in Clients, NEW done, AskPlan(c, done),
         Named(client[c].path) = {}, files' = files,
         \/ client[c].pc \in Waiting /\ done = client[c].request
         \/ client[c].pc \notin Waiting /\ done = NoRequest
  PROVE  CalmInv'
<1>1. PICK pc, op : /\ pc = "plan" /\ op = "plan"
                    /\ Ask(c, done, pc, op, client[c].path, 0, Chunks)
  BY DEF AskPlan
<1>2. pc \in Waiting \ {"mkdir", "userdel"} /\ op # "none" /\ pc # "complete"
  BY <1>1 DEF Waiting
<1>3. QED
  BY <1>1, <1>2, AskIsCalm

\* ... or to erase what it has removed.
LEMMA PurgeIsCalm ==
  ASSUME Calm, IInv, TypeInv, CalmInv, NEW c \in Clients, NEW pc \in {"purge", "purgeOld"},
         client[c].pc \in Waiting, Read(c), Purge(c, pc), files' = files,
         pc = "purgeOld" => Named(client[c].path) = {}
  PROVE  CalmInv'
<1>1. PICK old : /\ old = client[c]
           /\ old = [pc |-> old.pc, path |-> old.path, request |-> old.request,
                     file |-> old.file, left |-> old.left]
  BY ClientFields
<1>2. PICK left : left = Answer(c).targets
  OBVIOUS
<1>3. PICK s : s = [old EXCEPT !.pc = pc, !.request = NoRequest, !.left = left]
  OBVIOUS
<1>4. s = [pc |-> pc, path |-> old.path, request |-> NoRequest, file |-> old.file, left |-> left]
  BY <1>1, <1>3
<1>5. Become(c, s)
  BY <1>1, <1>2, <1>3 DEF Purge
<1>6. s.pc = pc /\ s.pc \notin Waiting /\ s.pc # "transfer" /\ s.path = client[c].path
  BY <1>1, <1>4 DEF Waiting
<1>7. QED
  BY <1>5, <1>6, RestIsCalm

\* A step of a client keeps what it and the others know.
LEMMA ClientIsCalm ==
  ASSUME Calm, IInv, TypeInv, CalmInv, NEW c \in Clients, Start(c) \/ ClientStep(c)
  PROVE  CalmInv'
<1>1. PICK old : /\ old = client[c]
           /\ old = [pc |-> old.pc, path |-> old.path, request |-> old.request,
                     file |-> old.file, left |-> old.left]
  BY ClientFields
<1>2. PICK t : t = thread[old.request]
  OBVIOUS
<1>3. Phase(old, t)
  BY <1>1, <1>2 DEF CalmInv, PhaseOK
<1>4. files' = files
  BY DEF Start, ClientStep, ListAnswered, OverwriteAnswered, PlanAnswered, Transfer,
         TransferFails, AskComplete, CompleteAnswered, RemoveAnswered, OtherAnswered, Erase,
         Purged, NoAnswer, tables, metaVars
<1>5. Idle.pc = "idle" /\ Idle.pc \notin Waiting
  BY DEF Idle, Waiting
<1>6. ASSUME Become(c, Idle),
             \/ client[c].pc \in Waiting /\ Read(c)
             \/ client[c].pc \notin Waiting /\ thread' = thread
      PROVE  CalmInv'
  <2>1. PICK s : s = Idle
    OBVIOUS
  <2>2. s.pc = "idle" /\ s.pc \notin Waiting
    BY <1>5, <2>1
  <2>3. QED
    BY <1>4, <1>6, <2>1, <2>2, RestIsCalm
<1>7. CASE Start(c)
  <2>1. client[c].pc \notin Waiting
    BY <1>5, <1>7 DEF Start
  <2>2. ASSUME NEW pc \in {"list", "rm", "download", "quota"}, NEW op, NEW path, NEW file,
               NEW todo, Ask(c, NoRequest, pc, op, path, file, todo), op # "none"
        PROVE  CalmInv'
    <3>1. pc \in Waiting \ {"mkdir", "userdel"} /\ pc # "plan" /\ pc # "complete"
      BY DEF Waiting
    <3>2. QED
      BY <1>4, <2>1, <2>2, <3>1, AskIsCalm
  <2>3. "mkdir" \notin Commands[c] /\ "userdel" \notin Commands[c]
    BY DEF Calm
  <2>4. QED
    BY <1>7, <2>2, <2>3 DEF Start, AskQuota, AskUserdel
<1>8. CASE ListAnswered(c)
  <2>1. old.pc = "list" /\ client[c].pc \in Waiting /\ t.step \in Replied
    BY <1>1, <1>2, <1>8 DEF ListAnswered, Answered, Waiting
  <2>2. CASE Read(c) /\ Become(c, Idle)
    BY <1>6, <2>1, <2>2
  <2>3. CASE Ask(c, client[c].request, "overwrite", "remove", FullPath(client[c].path), 0, {})
    <3>1. PICK pc, op, done, path :
            /\ pc = "overwrite" /\ op = "remove" /\ done = client[c].request
            /\ Ask(c, done, pc, op, path, 0, {})
      BY <2>3
    <3>2. pc \in Waiting \ {"mkdir", "userdel"} /\ op # "none" /\ pc # "plan" /\ pc # "complete"
      BY <3>1 DEF Waiting
    <3>3. QED
      BY <1>4, <2>1, <3>1, <3>2, AskIsCalm
  <2>4. CASE Answer(c).step # "ok" /\ AskPlan(c, client[c].request)
    <3>1. Named(client[c].path) = {}
      BY <1>1, <1>2, <1>3, <2>1, <2>4 DEF Phase, Answer, Replied
    <3>2. QED
      BY <1>4, <2>1, <2>4, <3>1, PlanIsCalm
  <2>5. "prompt" \notin Faults
    BY DEF Calm
  <2>6. QED
    BY <1>8, <2>2, <2>3, <2>4, <2>5 DEF ListAnswered
<1>9. CASE OverwriteAnswered(c)
  <2>1. old.pc = "overwrite" /\ client[c].pc \in Waiting /\ t.step \in Replied
    BY <1>1, <1>2, <1>9 DEF OverwriteAnswered, Answered, Waiting
  <2>2. Named(old.path) = {}
    BY <1>3, <2>1 DEF Phase
  <2>3. CASE Read(c) /\ Purge(c, "purgeOld")
    BY <1>1, <1>4, <2>1, <2>2, <2>3, PurgeIsCalm
  <2>4. CASE AskPlan(c, client[c].request)
    BY <1>1, <1>4, <2>1, <2>2, <2>4, PlanIsCalm
  <2>5. QED
    BY <1>9, <2>3, <2>4 DEF OverwriteAnswered
<1>10. CASE PlanAnswered(c)
  <2>1. old.pc = "plan" /\ client[c].pc \in Waiting /\ Read(c)
    BY <1>1, <1>10 DEF PlanAnswered, Waiting
  <2>2. CASE Answer(c).step # "ok"
    BY <1>6, <1>10, <2>1, <2>2 DEF PlanAnswered
  <2>3. CASE Answer(c).step = "ok"
    <3>1. PICK s : s = [old EXCEPT !.pc = "transfer", !.request = NoRequest,
                          !.file = t.file, !.left = {t.file} \X Chunks]
      OBVIOUS
    <3>2. s = [pc |-> "transfer", path |-> old.path, request |-> NoRequest,
               file |-> t.file, left |-> {t.file} \X Chunks]
      BY <1>1, <3>1
    <3>3. Become(c, s)
      BY <1>1, <1>2, <1>10, <2>3, <3>1 DEF PlanAnswered, Answer
    <3>4. HasRow(s.path, s.file)
      BY <1>1, <1>2, <1>3, <2>1, <2>3, <3>2 DEF Phase, Answer
    <3>5. s.pc = "transfer" /\ s.pc \notin Waiting
      BY <3>2 DEF Waiting
    <3>6. QED
      BY <1>4, <2>1, <3>3, <3>4, <3>5, RestIsCalm
  <2>4. QED
    BY <2>2, <2>3
<1>11. CASE Transfer(c) \/ Erase(c)
  <2>1. PICK chunk : /\ Become(c, [old EXCEPT !.left = @ \ {chunk}]) /\ thread' = thread
                     /\ old.pc \in {"transfer", "purge", "purgeOld"}
    BY <1>1, <1>11 DEF Transfer, Erase, metaVars
  <2>2. PICK s : s = [old EXCEPT !.left = @ \ {chunk}]
    OBVIOUS
  <2>3. s = [pc |-> old.pc, path |-> old.path, request |-> old.request, file |-> old.file,
             left |-> old.left \ {chunk}]
    BY <1>1, <2>2
  <2>4. s.pc = old.pc /\ s.path = old.path /\ s.file = old.file /\ old.pc \notin Waiting
    BY <2>1, <2>3 DEF Waiting
  <2>5. /\ s.pc = "purgeOld" => Named(s.path) = {}
        /\ s.pc = "transfer" => HasRow(s.path, s.file)
    BY <1>3, <2>4 DEF Phase
  <2>6. QED
    BY <1>1, <1>4, <2>1, <2>2, <2>4, <2>5, RestIsCalm
<1>12. CASE TransferFails(c)
  BY <1>6, <1>12 DEF TransferFails, Waiting, metaVars
<1>13. CASE AskComplete(c)
  <2>1. PICK pc, op : /\ pc = "complete" /\ op = "complete"
                      /\ Ask(c, NoRequest, pc, op, client[c].path, client[c].file, Chunks)
    BY <1>13 DEF AskComplete
  <2>2. HasRow(client[c].path, client[c].file) /\ client[c].pc \notin Waiting
    BY <1>1, <1>3, <1>13 DEF AskComplete, Phase, Waiting
  <2>3. pc \in Waiting \ {"mkdir", "userdel"} /\ op # "none" /\ pc # "plan"
    BY <2>1 DEF Waiting
  <2>4. QED
    BY <1>4, <2>1, <2>2, <2>3, AskIsCalm
<1>14. CASE CompleteAnswered(c) \/ OtherAnswered(c)
  BY <1>6, <1>14 DEF CompleteAnswered, OtherAnswered, Waiting
<1>15. CASE RemoveAnswered(c)
  <2>1. client[c].pc \in Waiting /\ Read(c)
    BY <1>15 DEF RemoveAnswered, Waiting
  <2>2. CASE Purge(c, "purge")
    BY <1>4, <2>1, <2>2, PurgeIsCalm
  <2>3. QED
    BY <1>6, <1>15, <2>1, <2>2 DEF RemoveAnswered
<1>16. CASE Purged(c)
  <2>1. client[c].pc \notin Waiting
    BY <1>16 DEF Purged, Waiting
  <2>2. CASE client[c].pc = "purgeOld" /\ AskPlan(c, NoRequest)
    <3>1. Named(client[c].path) = {}
      BY <1>1, <1>3, <2>2 DEF Phase
    <3>2. QED
      BY <1>4, <2>1, <2>2, <3>1, PlanIsCalm
  <2>3. QED
    BY <1>6, <1>16, <2>1, <2>2 DEF Purged
<1>17. ~ NoAnswer(c)
  BY DEF NoAnswer, Calm, CalmInv, Served
<1>18. QED
  BY <1>7, <1>8, <1>9, <1>10, <1>11, <1>12, <1>13, <1>14, <1>15, <1>16, <1>17 DEF ClientStep

\* No one else takes a step that changes a client, a thread or a row.
LEMMA CalmSteps ==
  ASSUME Calm, IInv, Served, [Next]_vars
  PROVE  \/ \E c \in Clients : Start(c) \/ ClientStep(c)
         \/ \E r \in Requests : Handle(r) /\ UNCHANGED <<client, blockVars, confirmed, started>>
         \/ \E chunk \in erasing : Unlink(chunk)
         \/ UNCHANGED vars
<1>1. ASSUME NEW c \in Clients PROVE ~ ClientDies(c)
  BY DEF ClientDies, Calm
<1>2. ASSUME NEW r \in Requests PROVE ~ DropAnswer(r)
  <2>1. r[1] \in Clients
    BY FileStoreAssumption
  <2>2. QED
    BY <2>1 DEF DropAnswer, Served
<1>3. ~ ServerRestarts
  BY DEF ServerRestarts, Calm
<1>4. ASSUME NEW r \in Requests, ServerStep(r)
      PROVE  Handle(r) /\ UNCHANGED <<client, blockVars, confirmed, started>>
  BY <1>4 DEF ServerStep, Calm
<1>5. QED
  BY <1>1, <1>2, <1>3, <1>4 DEF Next

LEMMA InitCalm == Init => CalmInv
<1> SUFFICES ASSUME Init PROVE CalmInv
  OBVIOUS
<1> USE DEF Init, MetaInit
<1>1. \A c \in Clients : client[c].pc = "idle"
  BY DEF Idle
<1>2. Served
  BY <1>1 DEF Served, Waiting
<1>3. Owned /\ OnePathOneFile
  BY DEF Owned, OnePathOneFile
<1>4. \A c \in Clients : PhaseOK(c)
  BY <1>1 DEF PhaseOK, Phase
<1>5. QED
  BY <1>2, <1>3, <1>4 DEF CalmInv

LEMMA NextCalm ==
  ASSUME Calm, IInv, TypeInv, CalmInv, [Next]_vars
  PROVE  CalmInv'
<1>1. ASSUME UNCHANGED <<files, client, thread>> PROVE CalmInv'
  <2>1. \A path, id : HasRow(path, id)' <=> HasRow(path, id)
    BY <1>1 DEF HasRow, Named
  <2>2. Served' /\ Owned' /\ OnePathOneFile'
    BY <1>1 DEF CalmInv, Served, Owned, OnePathOneFile
  <2>3. \A c \in Clients : PhaseOK(c)'
    BY <1>1, <2>1 DEF CalmInv, PhaseOK, Phase, Named
  <2>4. QED
    BY <2>2, <2>3 DEF CalmInv
<1>2. QED
  BY <1>1, CalmSteps, ClientIsCalm, HandlerIsCalm DEF CalmInv, Unlink, metaVars, vars

\* When nothing but transfers and erasures fails, a prompt is always answered
\* and directories are written with their leading slash, what clients with paths
\* of their own know of their rows stays true (core.py:48-68).
THEOREM CalmInvariant == Calm /\ Spec => []CalmInv
<1>1. CASE Calm
  <2>1. IInv /\ TypeInv /\ CalmInv /\ [Next]_vars => CalmInv'
    BY <1>1, NextCalm
  <2>2. QED
    BY <2>1, InitCalm, InductiveInvariant, TypeInvariant, PTL DEF Spec
<1>2. QED
  BY <1>1

\* Under these conditions an upload plans a row only when its path has none, so a
\* path names at most one file.  Without a terminal, or for a relative directory,
\* a client that is alone leaves two (core.py:48-68).
THEOREM OnePath == Calm /\ Spec => []OnePathOneFile
<1>1. CalmInv => OnePathOneFile
  BY DEF CalmInv
<1>2. QED
  BY <1>1, CalmInvariant, PTL

\* The row that an upload has planned is there while its chunks are sent and
\* registered: the removal of the old file is over before the plan
\* (core.py:60-77).
THEOREM UploadsKeepFiles == Calm /\ Spec => []UploadKeepsItsFile
<1>1. CalmInv => UploadKeepsItsFile
  BY DEF CalmInv, PhaseOK, Phase, HasRow, Named, UploadKeepsItsFile
<1>2. QED
  BY <1>1, CalmInvariant, PTL

-----------------------------------------------------------------------------
(* ... when nothing fails at all.                                          *)

ThreadOf(c) == thread[client[c].request]

\* The blocks that a client still has to send the erasure of, to register, or
\* to erase once it has read the answer.
Holds(s, t, chunk) ==
  \/ s.pc = "transfer" /\ chunk[1] = s.file
  \/ s.pc \in {"purge", "purgeOld"} /\ chunk \in s.left
  \/ s.pc = "complete" /\ chunk[1] = s.file /\ t.step = "start" /\ chunk[2] \in t.todo
  \/ s.pc \in {"overwrite", "rm"} /\ t.step = "ok" /\ chunk \in t.targets

\* The file that a client is uploading.
Uploads(s, t, id) ==
  \/ s.pc = "plan" /\ t.step = "ok" /\ t.file = id
  \/ s.pc = "transfer" /\ s.file = id
  \/ s.pc = "complete" /\ s.file = id /\ t.step = "start"

\* A removal deletes the chunks it has named, and a plan is for all chunks.
ThreadKnows(s, t) ==
  /\ s.pc \in {"overwrite", "rm"} /\ t.step = "delete" => t.targets = ChunksOf(t.file)
  /\ s.pc = "plan" /\ t.step = "start" => t.todo = Chunks

\* A block is registered, or its erasure was sent, or a client is at it.
Accounted(chunk) ==
  \/ chunk \in chunkRows /\ ~ Gone(chunk[1])
  \/ chunk \in erasing
  \/ \E c \in Clients : Holds(client[c], ThreadOf(c), chunk)

\* A file is registered whole, or a client is at it.
Whole(f) ==
  /\ f.chunks = Cardinality(Chunks)
  /\ \/ Blocks(f.id, Chunks) \subseteq chunkRows
     \/ \E c \in Clients : Uploads(client[c], ThreadOf(c), f.id)

GhostInv ==
  /\ \A c \in Clients : ThreadKnows(client[c], ThreadOf(c))
  /\ \A chunk \in onSome : Accounted(chunk)
  /\ \A f \in files : Whole(f)

\* What a client is at does not depend on what it does not wait for.
LEMMA AtIt ==
  ASSUME NEW s, NEW t, NEW t1, s.pc \in Waiting => t1 = t
  PROVE  /\ \A chunk : Holds(s, t1, chunk) <=> Holds(s, t, chunk)
         /\ \A id : Uploads(s, t1, id) <=> Uploads(s, t, id)
         /\ ThreadKnows(s, t1) <=> ThreadKnows(s, t)
BY DEF Holds, Uploads, ThreadKnows, Waiting

LEMMA OthersAtIt ==
  ASSUME NEW d \in Clients, Untouched(d)
  PROVE  /\ \A chunk : Holds(client[d], ThreadOf(d), chunk) => Holds(client[d], ThreadOf(d), chunk)'
         /\ \A id : Uploads(client[d], ThreadOf(d), id) => Uploads(client[d], ThreadOf(d), id)'
         /\ ThreadKnows(client[d], ThreadOf(d)) /\ UNCHANGED chunkRows
              => ThreadKnows(client[d], ThreadOf(d))'
<1>1. PICK s, t, t1 : s = client[d] /\ t = ThreadOf(d) /\ t1 = ThreadOf(d)'
  OBVIOUS
<1>2. client'[d] = s /\ (s.pc \in Waiting => t1 = t)
  BY <1>1 DEF Untouched, ThreadOf
<1>3. /\ \A chunk : Holds(s, t1, chunk) <=> Holds(s, t, chunk)
      /\ \A id : Uploads(s, t1, id) <=> Uploads(s, t, id)
      /\ ThreadKnows(s, t1) <=> ThreadKnows(s, t)
  BY <1>2, AtIt
<1>4. QED
  BY <1>1, <1>2, <1>3 DEF Holds, Uploads, ThreadKnows, ChunksOf

\* Client c turns from old, served by was, to s, served by t.
LEMMA ClientAccounts ==
  ASSUME GhostInv, NEW c \in Clients, NEW s, NEW t,
         client'[c] = s, s.pc \in Waiting => t = thread'[s.request],
         \A d \in Clients : d # c => Untouched(d),
         UNCHANGED <<files, chunkRows>>, erasing \subseteq erasing', ThreadKnows(s, t),
         \A chunk \in onSome' :
           \/ chunk \in erasing' \/ Holds(s, t, chunk)
           \/ chunk \in onSome /\ ~ Holds(client[c], ThreadOf(c), chunk),
         \A id : Uploads(client[c], ThreadOf(c), id) => Uploads(s, t, id)
  PROVE  GhostInv'
<1>1. PICK t1 : t1 = thread'[s.request] /\ (s.pc \in Waiting => t1 = t)
  OBVIOUS
<1>2. /\ \A chunk : Holds(s, t, chunk) => Holds(s, t1, chunk)
      /\ \A id : Uploads(s, t, id) => Uploads(s, t1, id)
      /\ ThreadKnows(s, t1)
  BY <1>1, AtIt
<1>3. /\ \A chunk : Holds(s, t, chunk) => Holds(client[c], ThreadOf(c), chunk)'
      /\ \A id : Uploads(s, t, id) => Uploads(client[c], ThreadOf(c), id)'
      /\ ThreadKnows(client[c], ThreadOf(c))'
  BY <1>1, <1>2 DEF ThreadOf, Holds, Uploads, ThreadKnows, ChunksOf
<1>4. \A d \in Clients : ThreadKnows(client[d], ThreadOf(d))'
  BY <1>3, OthersAtIt DEF GhostInv
<1>5. ASSUME NEW chunk \in onSome' PROVE Accounted(chunk)'
  <2>1. CASE chunk \in erasing'
    BY <2>1 DEF Accounted
  <2>2. CASE Holds(s, t, chunk)
    BY <1>3, <2>2 DEF Accounted
  <2>3. CASE chunk \in onSome /\ ~ Holds(client[c], ThreadOf(c), chunk)
    <3>1. CASE \E d \in Clients : Holds(client[d], ThreadOf(d), chunk)
      BY <2>3, <3>1, OthersAtIt DEF Accounted
    <3>2. CASE ~ \E d \in Clients : Holds(client[d], ThreadOf(d), chunk)
      BY <2>3, <3>2 DEF GhostInv, Accounted, Gone
    <3>3. QED
      BY <3>1, <3>2
  <2>4. QED
    BY <2>1, <2>2, <2>3
<1>6. ASSUME NEW f \in files' PROVE Whole(f)'
  <2>1. Whole(f)
    BY DEF GhostInv
  <2>2. \A d \in Clients : Uploads(client[d], ThreadOf(d), f.id)
          => Uploads(client[d], ThreadOf(d), f.id)'
    BY <1>3, OthersAtIt
  <2>3. QED
    BY <2>1, <2>2 DEF Whole
<1>7. QED
  BY <1>4, <1>5, <1>6 DEF GhostInv

\* A transaction that registers or deletes chunks does so for a file of the path
\* of its client.
LEMMA RowsOfOnePath ==
  ASSUME Calm, IInv, TypeInv, CalmInv, NEW r, NEW u, NEW t, NEW c, NEW s,
         Serving(r, u, t, c, s), u.op # "remove" => s.pc = u.op,
         Deletes(u, t) => Deleted(u, s), Registers(u, t) \/ Deletes(u, t)
  PROVE  /\ HasRow(s.path, u.file)
         /\ \A d \in Clients : d # c => \A id : HasRow(client[d].path, id)
              /\ client[d].path \in PathsOf[d] => id # u.file
<1>1. c \in Clients /\ s = client[c] /\ s.path \in PathsOf[c]
  BY DEF Serving, Registers, Deletes
<1>2. HasRow(s.path, u.file)
  <2>1. CASE Registers(u, t)
    <3>1. s.pc = "complete" /\ u.file = s.file
      BY <2>1 DEF Registers, Serving
    <3>2. QED
      BY <1>1, <3>1 DEF CalmInv, PhaseOK, Phase
  <2>2. CASE Deletes(u, t)
    BY <2>2 DEF Deleted, HasRow
  <2>3. QED
    BY <2>1, <2>2
<1>3. ASSUME NEW d \in Clients, d # c, NEW id, HasRow(client[d].path, id),
             client[d].path \in PathsOf[d]
      PROVE  id # u.file
  <2>1. client[d].path # s.path
    BY <1>1, <1>3, ApartPaths
  <2>2. QED
    BY <1>2, <1>3, <2>1 DEF HasRow, Named, IInv, TablesOK
<1>4. QED
  BY <1>2, <1>3

\* A transaction of a handler loses no block and no file of which its client,
\* or another, knows.
LEMMA HandlerAccounts ==
  ASSUME Calm, IInv, TypeInv, CalmInv, GhostInv, NEW r \in Requests, Handle(r),
         UNCHANGED <<client, blockVars>>
  PROVE  GhostInv'
<1>1. PICK u, t, c, s :
        /\ Serving(r, u, t, c, s) /\ Effect(u, t)
        /\ u.op = "remove" => s.pc \in {"overwrite", "rm"}
        /\ u.op # "remove" => s.pc = u.op
        /\ Deletes(u, t) => Deleted(u, s)
        /\ ~ Deletes(u, t) /\ ~ Plans(u, t) => files' = files
  BY HandlerServes
<1>2. /\ c \in Clients /\ s = client[c] /\ u = thread[r] /\ s.pc \in Waiting
      /\ s.request = r /\ u # NoThread /\ ServesOn(c, s) /\ thread'[r] = t
      /\ u.op = "complete" => u.file = s.file
  BY <1>1 DEF Serving
<1>3. client'[c] = s /\ \A d \in Clients : d # c => Untouched(d)
  BY <1>2, OthersServed DEF CalmInv
<1>4. ThreadOf(c) = u /\ ThreadOf(c)' = t
  BY <1>2, <1>3 DEF ThreadOf
<1>5. ThreadOK(u)
  BY <1>2 DEF IInv, ThreadsOK
<1>6. ThreadKnows(s, u)
  BY <1>2, <1>4 DEF GhostInv
<1>7. Registers(u, t) \/ Deletes(u, t) \/ chunkRows' = chunkRows
  BY <1>1 DEF Effect, Lists, Reports, Plans, Looks, ReadsChunks
<1>8. ASSUME Registers(u, t) \/ Deletes(u, t)
      PROVE  /\ HasRow(s.path, u.file)
             /\ \A d \in Clients : d # c => \A id : HasRow(client[d].path, id)
                  /\ client[d].path \in PathsOf[d] => id # u.file
  BY <1>1, <1>8, RowsOfOnePath
<1>9. ASSUME NEW chunk \in onSome, Holds(s, u, chunk)
      PROVE  Holds(s, t, chunk) \/ (chunk \in chunkRows /\ ~ Gone(chunk[1]))'
  <2>1. Registers(u, t)
    BY <1>1, <1>2, <1>9
    DEF Effect, Lists, Reports, Plans, Looks, ReadsChunks, Deletes, Holds, Waiting
  <2>2. s.pc = "complete" /\ chunk[1] = u.file /\ chunk[2] \in u.todo /\ u.file = s.file
    BY <1>1, <1>2, <1>9, <2>1 DEF Registers, Holds
  <2>3. PICK index \in u.todo :
          /\ chunkRows' = chunkRows \cup {<<u.file, index>>}
          /\ t = Moved(u, IF u.todo \ {index} = {} THEN "ok" ELSE "start", u.file,
                       u.todo \ {index}, u.targets)
    BY <2>1 DEF Registers
  <2>4. CASE chunk[2] = index
    <3>1. chunk = <<u.file, index>>
      BY <2>2, <2>4 DEF TypeInv, BlocksTyped
    <3>2. ~ Gone(u.file)'
      BY <1>8, <2>1 DEF HasRow, Named, Gone, Registers
    <3>3. QED
      BY <2>2, <2>3, <3>1, <3>2 DEF Gone
  <2>5. CASE chunk[2] # index
    <3>1. t.step = "start" /\ chunk[2] \in t.todo
      BY <2>2, <2>3, <2>5 DEF Moved
    <3>2. QED
      BY <1>2, <2>2, <3>1 DEF Holds
  <2>6. QED
    BY <2>4, <2>5
<1>10. ASSUME NEW chunk \in onSome, chunk \in chunkRows /\ ~ Gone(chunk[1])
       PROVE  Holds(s, t, chunk) \/ (chunk \in chunkRows /\ ~ Gone(chunk[1]))'
  <2>1. CASE Deletes(u, t) /\ chunk[1] = u.file
    <3>1. s.pc \in {"overwrite", "rm"} /\ u.step = "delete"
      BY <1>1, <2>1 DEF Deletes
    <3>2. u.targets = ChunksOf(u.file)
      BY <1>6, <3>1 DEF ThreadKnows
    <3>3. t.step = "ok" /\ t.targets = u.targets
      BY <2>1 DEF Deletes, Moved
    <3>4. QED
      BY <1>10, <2>1, <3>1, <3>2, <3>3 DEF Holds, ChunksOf
  <2>2. CASE Deletes(u, t) /\ chunk[1] # u.file
    BY <1>10, <2>2 DEF Deletes, ChunksOf, Gone
  <2>3. CASE ~ Deletes(u, t)
    <3>1. chunk \in chunkRows'
      BY <1>7, <1>10, <2>3 DEF Registers
    <3>2. files \subseteq files'
      BY <1>1, <2>3 DEF Plans
    <3>3. QED
      BY <1>10, <3>1, <3>2 DEF Gone
  <2>4. QED
    BY <2>1, <2>2, <2>3
<1>11. ASSUME NEW chunk \in onSome PROVE Accounted(chunk)'
  <2>1. CASE Holds(s, t, chunk)
    <3>1. Holds(client[c], ThreadOf(c), chunk)'
      BY <1>3, <1>4, <2>1 DEF Holds
    <3>2. QED
      BY <1>2, <3>1 DEF Accounted
  <2>2. CASE (chunk \in chunkRows /\ ~ Gone(chunk[1]))'
    BY <2>2 DEF Accounted
  <2>3. CASE chunk \in erasing
    BY <2>3 DEF Accounted, blockVars
  <2>4. ASSUME NEW d \in Clients, d # c, Holds(client[d], ThreadOf(d), chunk)
        PROVE  Accounted(chunk)'
    <3>1. Holds(client[d], ThreadOf(d), chunk)'
      BY <1>3, <2>4, OthersAtIt
    <3>2. QED
      BY <3>1 DEF Accounted
  <2>5. Accounted(chunk)
    BY DEF GhostInv
  <2>6. QED
    BY <1>2, <1>4, <1>9, <1>10, <2>1, <2>2, <2>3, <2>4, <2>5 DEF Accounted
<1>12. ThreadKnows(s, t)'
  <2>1. CASE ReadsChunks(u, t)
    <3>1. t.file = u.file /\ t.targets = ChunksOf(u.file) /\ chunkRows' = chunkRows
      BY <2>1 DEF ReadsChunks, Moved
    <3>2. s.pc # "plan"
      BY <1>1, <2>1 DEF ReadsChunks
    <3>3. QED
      BY <3>1, <3>2 DEF ThreadKnows, ChunksOf
  <2>2. CASE ~ ReadsChunks(u, t)
    <3>1. s.pc \in {"overwrite", "rm"} => t.step # "delete"
      BY <1>1, <2>2 DEF Effect, Lists, Reports, Plans, Registers, Looks, Deletes, Moved
    <3>2. s.pc = "plan" => t.step # "start"
      BY <1>1, <2>2 DEF Effect, Lists, Reports, Plans, Registers, Looks, Deletes, Moved
    <3>3. QED
      BY <3>1, <3>2 DEF ThreadKnows
  <2>3. QED
    BY <2>1, <2>2
<1>13. ASSUME NEW d \in Clients PROVE ThreadKnows(client[d], ThreadOf(d))'
  <2>1. CASE d = c
    BY <1>3, <1>4, <1>12, <2>1 DEF ThreadKnows, ChunksOf
  <2>2. CASE d # c /\ chunkRows' = chunkRows
    BY <1>3, <2>2, OthersAtIt DEF GhostInv
  <2>3. CASE d # c /\ (Registers(u, t) \/ Deletes(u, t))
    <3>1. PICK sd, td : sd = client[d] /\ td = ThreadOf(d)
      OBVIOUS
    <3>2. ASSUME sd.pc \in Waiting
          PROVE  client'[d] = sd /\ ThreadOf(d)' = td
      BY <1>3, <2>3, <3>1, <3>2 DEF Untouched, ThreadOf
    <3>3. ASSUME sd.pc \in {"overwrite", "rm"}, td.step = "delete"
          PROVE  ChunksOf(td.file)' = ChunksOf(td.file)
      <4>1. HasRow(sd.path, td.file)
        BY <3>1, <3>3 DEF CalmInv, PhaseOK, Phase, ThreadOf
      <4>2. sd.path \in PathsOf[d]
        BY <3>1, <3>3, OnOwnPath DEF OnPath
      <4>3. td.file # u.file
        BY <1>8, <2>3, <3>1, <4>1, <4>2
      <4>4. CASE Registers(u, t)
        BY <4>3, <4>4 DEF Registers, ChunksOf
      <4>5. CASE Deletes(u, t)
        BY <4>3, <4>5 DEF Deletes, ChunksOf
      <4>6. QED
        BY <2>3, <4>4, <4>5
    <3>4. ThreadKnows(sd, td)
      BY <3>1 DEF GhostInv
    <3>5. sd.pc \in Waiting => ThreadKnows(sd, td)'
      BY <3>3, <3>4 DEF ThreadKnows
    <3>6. client'[d] = sd
      BY <1>3, <2>3, <3>1 DEF Untouched
    <3>7. QED
      BY <3>2, <3>5, <3>6 DEF ThreadKnows, ChunksOf, Waiting
  <2>4. QED
    BY <1>7, <2>1, <2>2, <2>3
<1>14. ASSUME NEW f \in files' PROVE Whole(f)'
  <2>1. ASSUME NEW id, Uploads(s, t, id) PROVE Uploads(client[c], ThreadOf(c), id)'
    BY <1>3, <1>4, <2>1 DEF Uploads
  <2>2. CASE f \in files
    <3>1. Whole(f)
      BY <2>2 DEF GhostInv
    <3>2. ASSUME Blocks(f.id, Chunks) \subseteq chunkRows
          PROVE  Blocks(f.id, Chunks) \subseteq chunkRows'
      <4>1. CASE Deletes(u, t)
        BY <3>2, <4>1 DEF Deletes, ChunksOf, Blocks
      <4>2. CASE ~ Deletes(u, t)
        BY <1>7, <3>2, <4>2 DEF Registers
      <4>3. QED
        BY <4>1, <4>2
    <3>3. ASSUME Uploads(s, u, f.id)
          PROVE  Blocks(f.id, Chunks) \subseteq chunkRows' \/ Uploads(s, t, f.id)
      <4>1. Registers(u, t) /\ s.pc = "complete" /\ f.id = s.file
        <5>1. \/ s.pc = "plan" /\ u.step = "ok"
              \/ s.pc = "complete" /\ s.file = f.id
          BY <1>2, <3>3 DEF Uploads, Waiting
        <5>2. u.op = s.pc
          BY <1>1, <5>1
        <5>3. QED
          BY <1>1, <5>1, <5>2
          DEF Effect, Lists, Reports, Plans, Registers, Looks, ReadsChunks, Deletes
      <4>2. PICK index \in u.todo :
              /\ chunkRows' = chunkRows \cup {<<u.file, index>>}
              /\ t = Moved(u, IF u.todo \ {index} = {} THEN "ok" ELSE "start", u.file,
                           u.todo \ {index}, u.targets)
        BY <4>1 DEF Registers
      <4>3. CASE u.todo \ {index} = {}
        <5>1. Blocks(u.file, Chunks \ u.todo) \subseteq chunkRows /\ u.file = f.id
          BY <1>2, <1>5, <2>2, <4>1 DEF ThreadOK, CompleteOK, Gone, Registers
        <5>2. QED
          BY <4>2, <4>3, <5>1 DEF Blocks
      <4>4. CASE u.todo \ {index} # {}
        BY <4>1, <4>2, <4>4 DEF Uploads, Moved
      <4>5. QED
        BY <4>3, <4>4
    <3>4. ASSUME NEW d \in Clients, d # c, Uploads(client[d], ThreadOf(d), f.id)
          PROVE  Uploads(client[d], ThreadOf(d), f.id)'
      BY <1>3, <3>4, OthersAtIt
    <3>5. QED
      BY <1>2, <1>4, <2>1, <3>1, <3>2, <3>3, <3>4 DEF Whole, Blocks
  <2>3. CASE f \notin files
    <3>1. Plans(u, t)
      BY <1>1, <2>3 DEF Deletes
    <3>2. s.pc = "plan" /\ u.todo = Chunks
      BY <1>1, <1>6, <3>1 DEF Plans, ThreadKnows
    <3>3. f.id = lastId + 1 /\ f.chunks = Cardinality(Chunks)
      BY <2>3, <3>1, <3>2 DEF Plans
    <3>4. Uploads(s, t, f.id)
      BY <3>1, <3>2, <3>3 DEF Uploads, Plans
    <3>5. QED
      BY <1>2, <2>1, <3>3, <3>4 DEF Whole
  <2>4. QED
    BY <2>2, <2>3
<1>15. QED
  BY <1>11, <1>13, <1>14 DEF GhostInv, blockVars

\* A client that asks is at nothing, or has sent all chunks of its file.
LEMMA AskAccounts ==
  ASSUME IInv, TypeInv, CalmInv, GhostInv, NEW c \in Clients, NEW done,
         NEW pc \in Waiting \ {"mkdir", "userdel"},
         NEW op, NEW path, NEW file, NEW todo,
         Ask(c, done, pc, op, path, file, todo), op # "none",
         \/ client[c].pc \in Waiting /\ done = client[c].request
         \/ client[c].pc \notin Waiting /\ done = NoRequest,
         UNCHANGED <<files, chunkRows, blockVars>>,
         pc \in {"plan", "complete"} => todo = Chunks,
         \A chunk \in onSome :
           Holds(client[c], ThreadOf(c), chunk) => pc = "complete" /\ client[c].file = chunk[1],
         \A id : Uploads(client[c], ThreadOf(c), id) => pc = "complete" /\ client[c].file = id
  PROVE  GhostInv'
<1>1. PICK r \in Requests :
        \E s : /\ s = [pc |-> pc, path |-> path, request |-> r, file |-> client[c].file,
                       left |-> client[c].left]
               /\ thread'[r] = Request(op, UserOf[c], path, file, todo)
               /\ ServesOn(c, s)
  BY AsksServed DEF CalmInv
<1>2. PICK s : /\ s = [pc |-> pc, path |-> path, request |-> r, file |-> client[c].file,
                       left |-> client[c].left]
               /\ thread'[r] = Request(op, UserOf[c], path, file, todo)
               /\ ServesOn(c, s)
  BY <1>1
<1>3. PICK t : t = Request(op, UserOf[c], path, file, todo)
  OBVIOUS
<1>4. t.step = "start" /\ t.todo = todo /\ t = thread'[s.request]
  BY <1>2, <1>3 DEF Request
<1>5. s.pc = pc /\ s.file = client[c].file
  BY <1>2
<1>6. client'[c] = s /\ \A d \in Clients : d # c => Untouched(d)
  BY <1>2, OthersServed DEF CalmInv
<1>7. ThreadKnows(s, t)
  BY <1>4, <1>5 DEF ThreadKnows
<1>8. ASSUME NEW chunk \in onSome'
      PROVE  \/ chunk \in erasing' \/ Holds(s, t, chunk)
             \/ chunk \in onSome /\ ~ Holds(client[c], ThreadOf(c), chunk)
  <2>1. chunk \in onSome /\ chunk[2] \in Chunks
    BY DEF blockVars, TypeInv, BlocksTyped
  <2>2. CASE Holds(client[c], ThreadOf(c), chunk)
    BY <1>4, <1>5, <2>1, <2>2 DEF Holds
  <2>3. QED
    BY <2>1, <2>2
<1>9. \A id : Uploads(client[c], ThreadOf(c), id) => Uploads(s, t, id)
  BY <1>4, <1>5 DEF Uploads
<1>10. UNCHANGED <<files, chunkRows>> /\ erasing \subseteq erasing'
  BY DEF blockVars
<1>11. QED
  BY <1>4, <1>6, <1>7, <1>8, <1>9, <1>10, ClientAccounts

\* A client that goes on without asking keeps hold of its blocks, or sends
\* their erasure.
LEMMA RestAccounts ==
  ASSUME IInv, CalmInv, GhostInv, NEW c \in Clients, NEW s, s.pc \notin Waiting, Become(c, s),
         \/ client[c].pc \in Waiting /\ Read(c)
         \/ client[c].pc \notin Waiting /\ thread' = thread,
         UNCHANGED <<files, chunkRows>>, erasing \subseteq erasing',
         \A chunk \in onSome' :
           \/ chunk \in erasing'
           \/ s.pc = "transfer" /\ s.file = chunk[1]
           \/ s.pc \in {"purge", "purgeOld"} /\ chunk \in s.left
           \/ chunk \in onSome /\ ~ Holds(client[c], ThreadOf(c), chunk),
         \A id : Uploads(client[c], ThreadOf(c), id) => s.pc = "transfer" /\ s.file = id
  PROVE  GhostInv'
<1>1. client'[c] = s /\ \A d \in Clients : d # c => Untouched(d)
  BY RestsServed, OthersServed DEF CalmInv
<1>2. PICK t : t = thread'[s.request]
  OBVIOUS
<1>3. ThreadKnows(s, t)
  BY DEF ThreadKnows, Waiting
<1>4. ASSUME NEW chunk \in onSome'
      PROVE  \/ chunk \in erasing' \/ Holds(s, t, chunk)
             \/ chunk \in onSome /\ ~ Holds(client[c], ThreadOf(c), chunk)
  BY DEF Holds
<1>5. \A id : Uploads(client[c], ThreadOf(c), id) => Uploads(s, t, id)
  BY DEF Uploads
<1>6. QED
  BY <1>1, <1>3, <1>4, <1>5, ClientAccounts

\* It goes on to ask for a plan, when it is at nothing...
LEMMA PlanAccounts ==
  ASSUME IInv, TypeInv, CalmInv, GhostInv, NEW c \in Clients, NEW done, AskPlan(c, done),
         \/ client[c].pc \in Waiting /\ done = client[c].request
         \/ client[c].pc \notin Waiting /\ done = NoRequest,
         UNCHANGED <<files, chunkRows, blockVars>>,
         \A chunk : ~ Holds(client[c], ThreadOf(c), chunk),
         \A id : ~ Uploads(client[c], ThreadOf(c), id)
  PROVE  GhostInv'
<1>1. PICK pc, op, todo : /\ pc = "plan" /\ op = "plan" /\ todo = Chunks
                          /\ Ask(c, done, pc, op, client[c].path, 0, todo)
  BY DEF AskPlan
<1>2. pc \in Waiting \ {"mkdir", "userdel"} /\ op # "none"
  BY <1>1 DEF Waiting
<1>3. QED
  BY <1>1, <1>2, AskAccounts

\* ... or to erase what it has removed.
LEMMA PurgeAccounts ==
  ASSUME IInv, CalmInv, GhostInv, NEW c \in Clients, NEW pc \in {"purge", "purgeOld"},
         client[c].pc \in {"overwrite", "rm"}, Read(c), Purge(c, pc),
         UNCHANGED <<files, chunkRows, blockVars>>
  PROVE  GhostInv'
<1>1. PICK old : /\ old = client[c]
           /\ old = [pc |-> old.pc, path |-> old.path, request |-> old.request,
                     file |-> old.file, left |-> old.left]
  BY ClientFields
<1>2. PICK t : t = ThreadOf(c)
  OBVIOUS
<1>3. PICK s : s = [old EXCEPT !.pc = pc, !.request = NoRequest, !.left = t.targets]
  OBVIOUS
<1>4. s = [pc |-> pc, path |-> old.path, request |-> NoRequest, file |-> old.file,
           left |-> t.targets]
  BY <1>1, <1>3
<1>5. Become(c, s)
  BY <1>1, <1>2, <1>3 DEF Purge, Answer, ThreadOf
<1>6. s.pc = pc /\ s.left = t.targets /\ s.pc \notin Waiting
  BY <1>4 DEF Waiting
<1>7. \A chunk : Holds(client[c], t, chunk) => chunk \in s.left
  BY <1>6 DEF Holds
<1>8. \A id : ~ Uploads(client[c], t, id)
  BY DEF Uploads
<1>9. client[c].pc \in Waiting
  BY DEF Waiting
<1>10. onSome' = onSome /\ erasing' = erasing
  BY DEF blockVars
<1>11. QED
  BY <1>2, <1>5, <1>6, <1>7, <1>8, <1>9, <1>10, RestAccounts

\* A step of a client drops no block, unless a transfer or an erasure fails.
LEMMA ClientStepAccounts ==
  ASSUME Calm, Faults = {}, IInv, TypeInv, CalmInv, GhostInv,
         NEW c \in Clients, Start(c) \/ ClientStep(c)
  PROVE  GhostInv'
<1>1. PICK old : /\ old = client[c]
           /\ old = [pc |-> old.pc, path |-> old.path, request |-> old.request,
                     file |-> old.file, left |-> old.left]
  BY ClientFields
<1>2. PICK t : t = ThreadOf(c)
  OBVIOUS
<1>3. UNCHANGED <<files, chunkRows>>
  BY DEF Start, ClientStep, ListAnswered, OverwriteAnswered, PlanAnswered, Transfer,
         TransferFails, AskComplete, CompleteAnswered, RemoveAnswered, OtherAnswered, Erase,
         Purged, NoAnswer, tables, metaVars
<1>4. Answer(c) = t /\ (Answered(c) => client[c].pc \in Waiting /\ t.step \in Replied)
  BY <1>2 DEF Answer, Answered, ThreadOf
<1> DEFINE AtNothing == /\ \A chunk : ~ Holds(client[c], ThreadOf(c), chunk)
                        /\ \A id : ~ Uploads(client[c], ThreadOf(c), id)
<1>5. ASSUME Become(c, Idle), AtNothing, UNCHANGED blockVars,
             \/ client[c].pc \in Waiting /\ Read(c)
             \/ client[c].pc \notin Waiting /\ thread' = thread
      PROVE  GhostInv'
  <2>1. PICK s : s = Idle
    OBVIOUS
  <2>2. s.pc \notin Waiting
    BY <2>1 DEF Idle, Waiting
  <2>3. erasing' = erasing /\ onSome' = onSome
    BY <1>5 DEF blockVars
  <2>4. QED
    BY <1>3, <1>5, <2>1, <2>2, <2>3, RestAccounts
<1>6. ASSUME NEW done, NEW pc \in Waiting \ {"mkdir", "userdel", "plan", "complete"}, NEW op,
             NEW path, NEW file, NEW todo, Ask(c, done, pc, op, path, file, todo), op # "none",
             AtNothing, UNCHANGED blockVars,
             \/ client[c].pc \in Waiting /\ done = client[c].request
             \/ client[c].pc \notin Waiting /\ done = NoRequest
      PROVE  GhostInv'
  BY <1>3, <1>6, AskAccounts
<1>7. CASE Start(c)
  <2>1. client[c].pc \notin Waiting /\ AtNothing /\ UNCHANGED blockVars
    BY <1>7 DEF Start, Idle, Waiting, Holds, Uploads
  <2>2. ASSUME NEW pc \in {"list", "rm", "download", "quota"}, NEW op, NEW path, NEW file,
               NEW todo, Ask(c, NoRequest, pc, op, path, file, todo), op # "none"
        PROVE  GhostInv'
    <3>1. pc \in Waiting \ {"mkdir", "userdel", "plan", "complete"}
      BY DEF Waiting
    <3>2. QED
      BY <1>6, <2>1, <2>2, <3>1
  <2>3. "mkdir" \notin Commands[c] /\ "userdel" \notin Commands[c]
    BY DEF Calm
  <2>4. QED
    BY <1>7, <2>2, <2>3 DEF Start, AskQuota, AskUserdel
<1>8. CASE ListAnswered(c)
  <2>1. client[c].pc = "list" /\ client[c].pc \in Waiting /\ UNCHANGED blockVars
    BY <1>4, <1>8 DEF ListAnswered
  <2>2. AtNothing
    BY <2>1 DEF Holds, Uploads
  <2>3. CASE Read(c) /\ Become(c, Idle)
    BY <1>5, <2>1, <2>2, <2>3
  <2>4. CASE Ask(c, client[c].request, "overwrite", "remove", FullPath(client[c].path), 0, {})
    <3>1. PICK pc, op, done, path :
            /\ pc = "overwrite" /\ op = "remove" /\ done = client[c].request
            /\ Ask(c, done, pc, op, path, 0, {})
      BY <2>4
    <3>2. pc \in Waiting \ {"mkdir", "userdel", "plan", "complete"} /\ op # "none"
      BY <3>1 DEF Waiting
    <3>3. QED
      BY <1>6, <2>1, <2>2, <3>1, <3>2
  <2>5. CASE AskPlan(c, client[c].request)
    BY <1>3, <2>1, <2>2, <2>5, PlanAccounts
  <2>6. QED
    BY <1>8, <2>3, <2>4, <2>5 DEF ListAnswered
<1>9. CASE OverwriteAnswered(c)
  <2>1. client[c].pc = "overwrite" /\ client[c].pc \in Waiting /\ UNCHANGED blockVars
    BY <1>4, <1>9 DEF OverwriteAnswered
  <2>2. CASE Answer(c).step = "ok"
    BY <1>3, <1>9, <2>1, <2>2, PurgeAccounts DEF OverwriteAnswered
  <2>3. CASE Answer(c).step # "ok"
    <3>1. AtNothing
      BY <1>2, <1>4, <2>1, <2>3 DEF Holds, Uploads
    <3>2. QED
      BY <1>3, <1>9, <2>1, <2>3, <3>1, PlanAccounts DEF OverwriteAnswered
  <2>4. QED
    BY <2>2, <2>3
<1>10. CASE PlanAnswered(c)
  <2>1. /\ client[c].pc = "plan" /\ client[c].pc \in Waiting /\ UNCHANGED blockVars
        /\ Read(c)
    BY <1>4, <1>10 DEF PlanAnswered
  <2>2. CASE t.step # "ok"
    <3>1. AtNothing
      BY <1>2, <2>1, <2>2 DEF Holds, Uploads
    <3>2. Become(c, Idle)
      BY <1>4, <1>10, <2>2 DEF PlanAnswered
    <3>3. QED
      BY <1>5, <2>1, <3>1, <3>2
  <2>3. CASE t.step = "ok"
    <3>1. PICK s : s = [old EXCEPT !.pc = "transfer", !.request = NoRequest,
                          !.file = t.file, !.left = {t.file} \X Chunks]
      OBVIOUS
    <3>2. s = [pc |-> "transfer", path |-> old.path, request |-> NoRequest,
               file |-> t.file, left |-> {t.file} \X Chunks]
      BY <1>1, <3>1
    <3>3. Become(c, s)
      BY <1>1, <1>4, <1>10, <2>3, <3>1 DEF PlanAnswered
    <3>4. s.pc = "transfer" /\ s.file = t.file /\ s.pc \notin Waiting
      BY <3>2 DEF Waiting
    <3>5. \A chunk : ~ Holds(client[c], ThreadOf(c), chunk)
      BY <2>1 DEF Holds
    <3>6. \A id : Uploads(client[c], ThreadOf(c), id) => s.file = id
      BY <1>2, <2>1, <3>4 DEF Uploads
    <3>7. erasing' = erasing /\ onSome' = onSome
      BY <2>1 DEF blockVars
    <3>8. QED
      BY <1>3, <2>1, <3>3, <3>4, <3>5, <3>6, <3>7, RestAccounts
  <2>4. QED
    BY <2>2, <2>3
<1>11. CASE Transfer(c)
  <2>1. PICK chunk : chunk = NextChunk(c)
    OBVIOUS
  <2>2. PICK s : s = [old EXCEPT !.left = @ \ {chunk}]
    OBVIOUS
  <2>3. s = [pc |-> old.pc, path |-> old.path, request |-> old.request, file |-> old.file,
             left |-> old.left \ {chunk}]
    BY <1>1, <2>2
  <2>4. /\ Become(c, s) /\ thread' = thread /\ old.pc = "transfer"
        /\ onSome' = onSome \cup {chunk} /\ erasing' = erasing
    BY <1>1, <1>11, <2>1, <2>2 DEF Transfer, metaVars
  <2>5. s.pc = "transfer" /\ s.file = old.file /\ s.pc \notin Waiting
    BY <2>3, <2>4 DEF Waiting
  <2>6. chunk[1] = old.file
    <3>1. client[c].left \subseteq Blocks(old.file, Chunks) /\ client[c].left # {}
      BY <1>1, <1>11, <2>4 DEF Transfer, IInv, ClientsOK, ClientOK
    <3>2. chunk \in client[c].left
      BY <2>1, <3>1, NextChunkIsLeft
    <3>3. QED
      BY <3>1, <3>2 DEF Blocks
  <2>7. \A b : Holds(client[c], ThreadOf(c), b) => b[1] = old.file
    BY <1>1, <2>4 DEF Holds
  <2>8. \A id : Uploads(client[c], ThreadOf(c), id) => old.file = id
    BY <1>1, <2>4 DEF Uploads
  <2>9. client[c].pc \notin Waiting
    BY <1>1, <2>4 DEF Waiting
  <2>10. QED
    BY <1>3, <2>4, <2>5, <2>6, <2>7, <2>8, <2>9, RestAccounts
<1>12. CASE AskComplete(c)
  <2>1. PICK pc, op, todo, done :
          /\ pc = "complete" /\ op = "complete" /\ todo = Chunks /\ done = NoRequest
          /\ Ask(c, done, pc, op, client[c].path, client[c].file, todo)
    BY <1>12 DEF AskComplete
  <2>2. client[c].pc = "transfer" /\ client[c].pc \notin Waiting /\ UNCHANGED blockVars
    BY <1>12 DEF AskComplete, Waiting
  <2>3. pc \in Waiting \ {"mkdir", "userdel"} /\ op # "none"
    BY <2>1 DEF Waiting
  <2>4. /\ \A chunk : Holds(client[c], ThreadOf(c), chunk) => client[c].file = chunk[1]
        /\ \A id : Uploads(client[c], ThreadOf(c), id) => client[c].file = id
    BY <2>2 DEF Holds, Uploads
  <2>5. QED
    BY <1>3, <2>1, <2>2, <2>3, <2>4, AskAccounts
<1>13. CASE CompleteAnswered(c) \/ OtherAnswered(c)
  <2>1. /\ client[c].pc \in {"complete", "download", "mkdir", "quota"} /\ Answered(c)
        /\ Read(c) /\ Become(c, Idle) /\ UNCHANGED blockVars
    BY <1>13 DEF CompleteAnswered, OtherAnswered
  <2>2. t.step # "start" /\ client[c].pc \in Waiting
    BY <1>4, <2>1 DEF Replied
  <2>3. AtNothing
    BY <1>2, <2>1, <2>2 DEF Holds, Uploads
  <2>4. QED
    BY <1>5, <2>1, <2>2, <2>3
<1>14. CASE RemoveAnswered(c)
  <2>1. /\ client[c].pc = "rm" /\ client[c].pc \in Waiting /\ UNCHANGED blockVars
        /\ Read(c)
    BY <1>4, <1>14 DEF RemoveAnswered, CalmInv, Served
  <2>2. CASE Answer(c).step = "ok"
    BY <1>3, <1>14, <2>1, <2>2, PurgeAccounts DEF RemoveAnswered
  <2>3. CASE Answer(c).step # "ok"
    <3>1. AtNothing
      BY <1>2, <1>4, <2>1, <2>3 DEF Holds, Uploads
    <3>2. QED
      BY <1>5, <1>14, <2>1, <2>3, <3>1 DEF RemoveAnswered
  <2>4. QED
    BY <2>2, <2>3
<1>15. CASE Erase(c)
  <2>1. PICK chunk : /\ Become(c, [old EXCEPT !.left = @ \ {chunk}]) /\ thread' = thread
                     /\ erasing' = erasing \cup {chunk} /\ onSome' = onSome
                     /\ old.pc \in {"purge", "purgeOld"}
    BY <1>1, <1>15 DEF Erase, metaVars
  <2>2. PICK s : s = [old EXCEPT !.left = @ \ {chunk}]
    OBVIOUS
  <2>3. s = [pc |-> old.pc, path |-> old.path, request |-> old.request, file |-> old.file,
             left |-> old.left \ {chunk}]
    BY <1>1, <2>2
  <2>4. s.pc \in {"purge", "purgeOld"} /\ s.pc \notin Waiting /\ s.left = old.left \ {chunk}
    BY <2>1, <2>3 DEF Waiting
  <2>5. \A b : Holds(client[c], ThreadOf(c), b) => b \in s.left \/ b \in erasing'
    BY <1>1, <2>1, <2>4 DEF Holds
  <2>6. \A id : ~ Uploads(client[c], ThreadOf(c), id)
    BY <1>1, <2>1 DEF Uploads
  <2>7. client[c].pc \notin Waiting /\ erasing \subseteq erasing'
    BY <1>1, <2>1 DEF Waiting
  <2>8. QED
    BY <1>3, <2>1, <2>2, <2>4, <2>5, <2>6, <2>7, RestAccounts
<1>16. CASE Purged(c)
  <2>1. client[c].pc \in {"purge", "purgeOld"} /\ client[c].left = {} /\ UNCHANGED blockVars
    BY <1>16 DEF Purged
  <2>2. AtNothing /\ client[c].pc \notin Waiting
    BY <2>1 DEF Holds, Uploads, Waiting
  <2>3. CASE AskPlan(c, NoRequest)
    BY <1>3, <2>1, <2>2, <2>3, PlanAccounts
  <2>4. QED
    BY <1>5, <1>16, <2>1, <2>2, <2>3 DEF Purged
<1>17. ~ NoAnswer(c) /\ ~ TransferFails(c)
  BY DEF NoAnswer, TransferFails, CalmInv, Served
<1>18. QED
  BY <1>7, <1>8, <1>9, <1>10, <1>11, <1>12, <1>13, <1>14, <1>15, <1>16, <1>17 DEF ClientStep

LEMMA InitGhost == Init => GhostInv
<1> SUFFICES ASSUME Init PROVE GhostInv
  OBVIOUS
<1>1. \A c \in Clients : client[c].pc = "idle"
  BY DEF Init, Idle
<1>2. \A c \in Clients : ThreadKnows(client[c], ThreadOf(c))
  BY <1>1 DEF ThreadKnows
<1>3. QED
  BY <1>2 DEF GhostInv, Init, MetaInit

LEMMA NextGhost ==
  ASSUME Calm, Faults = {}, IInv, TypeInv, CalmInv, GhostInv, [Next]_vars
  PROVE  GhostInv'
<1>1. ASSUME UNCHANGED <<files, chunkRows, client, thread>>,
             \A chunk \in onSome' : chunk \in onSome,
             \A chunk \in onSome' : chunk \in erasing => chunk \in erasing'
      PROVE  GhostInv'
  <2>1. \A d \in Clients : Untouched(d)
    BY <1>1 DEF Untouched
  <2>2. ASSUME NEW chunk \in onSome' PROVE Accounted(chunk)'
    <3>1. Accounted(chunk)
      BY <1>1 DEF GhostInv
    <3>2. QED
      BY <1>1, <2>1, <3>1, OthersAtIt DEF Accounted, Gone
  <2>3. \A f \in files' : Whole(f)'
    BY <1>1, <2>1, OthersAtIt DEF GhostInv, Whole, Blocks
  <2>4. \A d \in Clients : ThreadKnows(client[d], ThreadOf(d))'
    BY <1>1, <2>1, OthersAtIt DEF GhostInv
  <2>5. QED
    BY <2>2, <2>3, <2>4 DEF GhostInv
<1>2. ASSUME NEW chunk \in erasing, Unlink(chunk) PROVE GhostInv'
  <2>1. UNCHANGED <<files, chunkRows, client, thread>>
    BY <1>2 DEF Unlink, metaVars
  <2>2. CASE UNCHANGED <<onSome, erasing>>
    BY <1>1, <2>1, <2>2
  <2>3. CASE onSome' = onSome \ {chunk} /\ erasing' = erasing \ {chunk}
    BY <1>1, <2>1, <2>3
  <2>4. QED
    BY <1>2, <2>2, <2>3 DEF Unlink
<1>3. CASE UNCHANGED vars
  BY <1>1, <1>3 DEF vars, metaVars, blockVars
<1>4. Served
  BY DEF CalmInv
<1>5. QED
  BY <1>2, <1>3, <1>4, CalmSteps, ClientStepAccounts, HandlerAccounts

\* When nothing fails, every block is registered, being erased, or in the care
\* of a client, and every file is registered whole or being uploaded.
THEOREM GhostInvariant == Calm /\ Faults = {} /\ Spec => []GhostInv
<1>1. CASE Calm /\ Faults = {}
  <2>1. IInv /\ TypeInv /\ CalmInv /\ GhostInv /\ [Next]_vars => GhostInv'
    BY <1>1, NextGhost
  <2>2. Spec => []CalmInv
    BY <1>1, CalmInvariant
  <2>3. QED
    BY <2>1, <2>2, InitGhost, InductiveInvariant, TypeInvariant, PTL DEF Spec
<1>2. QED
  BY <1>1

\* Overwriting and removing leave no ghost blocks: when nothing is in progress,
\* every block on a node is one of a registered file (core.py:60-103).
THEOREM NoGhosts == Calm /\ Faults = {} /\ Spec => []QuietMeansNoGhosts
<1>1. GhostInv => QuietMeansNoGhosts
  BY DEF GhostInv, QuietMeansNoGhosts, Quiet, Accounted, Gone, Holds, Idle
<1>2. QED
  BY <1>1, GhostInvariant, PTL

-----------------------------------------------------------------------------
(* What a quota sums up.                                                   *)

OwnedBy(user) == {f \in files : f.owner = user}

\* f sums up the chunks of the rows of every set, one row after the other.
First(rows) == CHOOSE f \in rows : TRUE
Sums(f, rows) ==
  f = [s \in SUBSET rows |-> IF s = {} THEN 0 ELSE First(s).chunks + f[s \ {First(s)}]]

LEMMA QuotaIsSum ==
  ASSUME NEW user
  PROVE  Quota(user) = (CHOOSE f : Sums(f, OwnedBy(user)))[OwnedBy(user)]
BY DEF Quota, MapThenSumSet, MapThenFoldSet, Sums, OwnedBy, First

\* Rows of k chunks each have k times as many chunks as there are rows.
LEMMA SumOfEqual ==
  ASSUME NEW rows, IsFiniteSet(rows), NEW k \in Nat, \A g \in rows : g.chunks = k
  PROVE  (CHOOSE f : Sums(f, rows))[rows] = k * Cardinality(rows)
<1>1. ASSUME NEW s \in SUBSET rows, s # {}
      PROVE  /\ First(s) \in s /\ First(s).chunks = k /\ s \ {First(s)} \in SUBSET rows
             /\ Cardinality(s) \in Nat \ {0}
             /\ Cardinality(s \ {First(s)}) = Cardinality(s) - 1
  <2>1. First(s) \in s
    BY <1>1 DEF First
  <2>2. IsFiniteSet(s)
    BY FS_Subset
  <2>3. Cardinality(s) \in Nat /\ Cardinality(s) # 0
    BY <1>1, <2>2, FS_CardinalityType, FS_EmptySet
  <2>4. QED
    BY <2>1, <2>2, <2>3, FS_RemoveElement
<1>2. \A n \in Nat \ {0} : k + k * (n - 1) = k * n
  OBVIOUS
<1>3. Cardinality({}) = 0 /\ k * 0 = 0
  BY FS_EmptySet
<1>4. \E f : Sums(f, rows)
  <2> DEFINE f == [s \in SUBSET rows |-> k * Cardinality(s)]
  <2>1. ASSUME NEW s \in SUBSET rows
        PROVE  f[s] = IF s = {} THEN 0 ELSE First(s).chunks + f[s \ {First(s)}]
    <3>1. CASE s = {}
      BY <1>3, <3>1
    <3>2. CASE s # {}
      <4>1. f[s \ {First(s)}] = k * (Cardinality(s) - 1)
        BY <1>1, <3>2
      <4>2. QED
        BY <1>1, <1>2, <3>2, <4>1
    <3>3. QED
      BY <3>1, <3>2
  <2>2. [s \in SUBSET rows |-> f[s]]
          = [s \in SUBSET rows |-> IF s = {} THEN 0 ELSE First(s).chunks + f[s \ {First(s)}]]
    BY <2>1
  <2>3. QED
    BY <2>2 DEF Sums
<1>5. PICK f : Sums(f, rows) /\ f = CHOOSE g : Sums(g, rows)
  BY <1>4
<1> DEFINE Bad == {n \in Nat : \E s \in SUBSET rows : Cardinality(s) = n /\ f[s] # k * n}
<1>6. ASSUME Bad # {} PROVE FALSE
  <2>1. Bad \subseteq Nat
    OBVIOUS
  <2>2. PICK n \in Bad : \A m \in Bad : n <= m
    BY <1>6, <2>1, LeastExists
  <2>3. PICK s \in SUBSET rows : Cardinality(s) = n /\ f[s] # k * n
    BY <2>2
  <2>4. f[s] = IF s = {} THEN 0 ELSE First(s).chunks + f[s \ {First(s)}]
    BY <1>5 DEF Sums
  <2>5. s # {}
    BY <1>3, <2>3, <2>4
  <2>6. n \in Nat \ {0} /\ n - 1 \in Nat /\ n - 1 \notin Bad
    <3>1. n \in Nat \ {0}
      BY <1>1, <2>3, <2>5
    <3>2. n - 1 \in Nat /\ ~ (n <= n - 1)
      BY <3>1
    <3> HIDE DEF Bad
    <3>3. QED
      BY <2>2, <3>1, <3>2
  <2>7. f[s \ {First(s)}] = k * (n - 1)
    BY <1>1, <2>3, <2>5, <2>6
  <2>8. QED
    BY <1>1, <1>2, <2>3, <2>4, <2>5, <2>6, <2>7
<1>7. Cardinality(rows) \in Nat
  BY FS_CardinalityType
<1>8. f[rows] = k * Cardinality(rows)
  BY <1>6, <1>7
<1>9. QED
  BY <1>5, <1>8

\* A user's rows are as many as their ids.
LEMMA RowsAreFinite ==
  ASSUME TablesOK, NEW user
  PROVE  LET ids == {f.id : f \in OwnedBy(user)}
         IN  /\ IsFiniteSet(OwnedBy(user)) /\ IsFiniteSet(ids)
             /\ Cardinality(ids) = Cardinality(OwnedBy(user))
<1> DEFINE rows == OwnedBy(user)
           ids == {f.id : f \in rows}
           g == [f \in rows |-> f.id]
<1>1. ids \subseteq 1..lastId /\ lastId \in Nat
  BY DEF TablesOK, Planned, OwnedBy
<1>2. IsFiniteSet(1..lastId)
  <2>1. lastId \in Int /\ 1 \in Int
    BY <1>1
  <2>2. QED
    BY <2>1, FS_Interval
<1>3. IsFiniteSet(ids)
  BY <1>1, <1>2, FS_Subset
<1>4. g \in Injection(rows, ids)
  BY DEF Injection, IsInjective, OwnedBy, TablesOK
<1>5. g \in Surjection(rows, ids)
  BY DEF Surjection
<1> HIDE DEF g, ids, rows
<1>6. IsFiniteSet(rows) /\ Cardinality(rows) = Cardinality(ids)
  BY <1>3, <1>4, <1>5, FS_Injection
<1>7. QED
  BY <1>3, <1>6 DEF ids, rows

\* When nothing is in progress, every chunk of every file is on some node, and
\* nothing else.
LEMMA QuietIsWhole ==
  ASSUME IInv, TypeInv, GhostInv, Quiet
  PROVE  /\ \A f \in files : Blocks(f.id, Chunks) \subseteq onSome
         /\ \A chunk \in onSome : \E f \in files : f.id = chunk[1]
<1>1. ASSUME NEW f \in files PROVE Blocks(f.id, Chunks) \subseteq onSome
  <2>1. Blocks(f.id, Chunks) \subseteq chunkRows
    BY DEF GhostInv, Whole, Uploads, Quiet, Idle
  <2>2. ASSUME NEW row \in Blocks(f.id, Chunks) PROVE row \in onAll
    <3>1. row \in chunkRows /\ row[1] = f.id
      BY <2>1 DEF Blocks
    <3>2. QED
      BY <3>1 DEF IInv, RowsOK, Gone
  <2>3. QED
    BY <2>2 DEF TypeInv, BlocksTyped
<1>2. ASSUME NEW chunk \in onSome PROVE \E f \in files : f.id = chunk[1]
  BY DEF GhostInv, Accounted, Gone, Holds, Quiet, Idle
<1>3. QED
  BY <1>1, <1>2

\* When nothing is in progress and nothing has failed, a user's quota is what
\* the nodes store for that user (db.py:175-180).
THEOREM QuotaStored == Calm /\ Faults = {} /\ Spec => []QuotaIsStored
<1>1. ASSUME IInv, TypeInv, GhostInv, Quiet, NEW user \in Users
      PROVE  Quota(user)
               = Cardinality({c \in onSome : \E f \in files : f.id = c[1] /\ f.owner = user})
  <2> DEFINE stored == {c \in onSome : \E f \in files : f.id = c[1] /\ f.owner = user}
             rows == OwnedBy(user)
             ids == {f.id : f \in rows}
             k == Cardinality(Chunks)
  <2>1. IsFiniteSet(rows) /\ IsFiniteSet(ids) /\ Cardinality(ids) = Cardinality(rows)
    BY <1>1, RowsAreFinite DEF IInv
  <2>2. stored = ids \X Chunks
    <3>1. ASSUME NEW chunk \in stored PROVE chunk \in ids \X Chunks
      BY <1>1, <3>1 DEF OwnedBy, TypeInv, BlocksTyped
    <3>2. ASSUME NEW chunk \in ids \X Chunks PROVE chunk \in stored
      <4>1. PICK f \in rows : f.id = chunk[1]
        OBVIOUS
      <4>2. f \in files /\ f.owner = user /\ chunk \in Blocks(f.id, Chunks)
        BY <4>1 DEF OwnedBy, Blocks
      <4>3. QED
        BY <1>1, <4>1, <4>2, QuietIsWhole
    <3>3. QED
      BY <3>1, <3>2
  <2>3. k \in Nat
    BY FS_CardinalityType, FileStoreAssumption
  <2>4. \A f \in rows : f.chunks = k
    BY <1>1 DEF OwnedBy, GhostInv, Whole
  <2> HIDE DEF ids, k, stored
  <2>5. Cardinality(stored) = Cardinality(ids) * Cardinality(Chunks)
    BY <2>1, <2>2, FS_Product, FileStoreAssumption
  <2> HIDE DEF rows
  <2>6. Quota(user) = k * Cardinality(rows)
    <3>1. Quota(user) = (CHOOSE f : Sums(f, rows))[rows]
      BY QuotaIsSum DEF rows
    <3>2. QED
      BY <2>1, <2>3, <2>4, <3>1, SumOfEqual
  <2>7. k * Cardinality(rows) = Cardinality(rows) * k
    BY <2>1, <2>3, FS_CardinalityType
  <2>8. QED
    BY <2>1, <2>5, <2>6, <2>7 DEF k, stored
<1>2. IInv /\ TypeInv /\ GhostInv => QuotaIsStored
  BY <1>1 DEF QuotaIsStored
<1>3. QED
  BY <1>2, GhostInvariant, InductiveInvariant, TypeInvariant, PTL

=============================================================================
