# AdriaBOX in TLA+

AdriaBOX stores files for several users: a metadata server (Flask and SQLite)
plans where the chunks of a file go, and the client streams the chunks to
storage nodes, three replicas each.  This directory models the parts of it that
carry its logic, checks them with TLC on small instances and proves the
properties that matter most with TLAPS for instances of every size.  The models
are translated from the Python code under `src/src/`; `PROJECT.json` maps every
definition to its lines.

## 1. The system

| component | code | state | operations | hard behaviour |
|---|---|---|---|---|
| replication pipeline | `common/tcp.py`, `client/transfer.py` | per node: `.tmp` file, block file, sockets, `pipeline_failed`, `bytes_received` | `send_with_pipeline`, `handle_pipeline_upload` | one thread per connection on every node; timeouts, resets, crashes, a half-finished ACK cascade |
| storage daemon | `storage_node/node.py`, `common/tcp.py` | the storage directory | accept loop; upload, download, delete commands | accepted sockets have no timeout |
| download | `client/transfer.py`, `common/tcp.py` | destination file, current chunk and replica | `download_file_chunks`, `handle_download` | failover in the middle of a chunk, a disk that fails while a block is sent, blocks deleted meanwhile |
| placement | `metadata_server/manager.py` | `storage_nodes` (fixed at start) | `build_upload_plan`; `build_download_plan` and `get_file_deletion_plan`, which work the placement out again | boundary sizes, short lists, a restart with another list |
| metadata | `metadata_server/db.py`, `server.py`, `manager.py` | tables `users`, `files`, `chunks` | the HTTP routes | a route is several transactions, and threads interleave between them |
| client operations | `client/core.py`, `http_client.py` | none that lasts | `upload` (list, overwrite, plan, transfer, complete), `rm`, `download`, `mkdir`, `quota`, `admin_delete_user` | HTTP timeouts with the handler still running, best-effort erasures done late or never, killed clients, a prompt nobody can answer |
| directory view | `db.py` `list_files_in_dir` | none: made up from the rows of `files` | grouping of paths | one name that is a file and a directory, names below one another |
| accounts and tokens | `db.py`, `manager.py`, `server.py` | table `users` | `/register`, `/login`, `/admin/userdel`; the operator's `UPDATE` of a role | a token outlives its account, the name is taken again; an account is read twice in one login |
| session file | `client/session.py`, `core.py`, `cli.py` | `~/.adriabox/session.json` | load, save, clear, by `login`, `logout` and every command that starts | nothing locks the file; truncated and written in two steps; processes are killed |
| encryption helpers | `client/crypto.py` | none | `derive_key`, stream cipher | only the key is ever used |
| command line, UI | `cli.py`, `ui.py` | none | dispatch, `_is_admin`, rendering | |
| validators, configuration, exceptions, JSON stub, deployment | | | | not modelled |

How they interact: a client command is a sequence of HTTP requests to the
metadata server and of TCP exchanges with storage nodes.  Nodes talk to each
other only along the upload chain.  The metadata server never talks to a storage
node: rows and blocks are kept in step by the client alone, which is why most of
the hard cases are there.

What makes each component correct:

- pipeline: success means three complete replicas; what a node answers is what
  it has on disk; no thread hangs because another failed;
- download: the failover tries every replica once, ends, and each chunk it
  completes is the chunk that was uploaded, as far as lengths can tell;
- placement: the plan tiles the file, three different nodes per chunk, and
  downloads and removals ask the nodes that the upload has stored a chunk on;
- metadata and client: a chunk that is registered is stored; a confirmed file
  stays whole until it is removed; only its owner or an administrator removes it;
  without failures nothing is left behind;
- directory view: a listing has one entry for each name of a directory;
- accounts and sessions: the id in a token is never that of a later account, a role
  is not inherited with a name, and a session is that of one login whatever
  processes share the file.

`PROJECT.json` lists the hazards at their lines, with the properties aimed at each.

## 2. Modules

| module | models | extends / composes |
|---|---|---|
| `ReplicatedWrite` | abstract: what the upload of one chunk promises | |
| `Pipeline` | the upload of one chunk through a chain of N nodes | refines `ReplicatedWrite` |
| `PipelineProofs` | theorems about `Pipeline` | `Pipeline` |
| `Download` | a download with failover | |
| `DownloadProofs` | theorems about `Download` | `Download`, `LeastGreatest` |
| `Placement` | chunking and placement of a file | |
| `PlacementProofs` | theorems about `Placement` | `Placement` |
| `FileLife` | abstract: what metadata server, clients and nodes promise together about the life of a file | |
| `FileLifeProofs` | what follows from `FileLife` | `FileLife` |
| `Listing` | the directory view, and what a listing should be | |
| `Metadata` | tables `files` and `chunks`, their routes, one action per transaction | `Listing` |
| `FileStore` | client commands over `Metadata` and the stored blocks | `Metadata`; the upload of a chunk is one step with the outcomes of `ReplicatedWrite`; refines `FileLife` |
| `LeastGreatest` | lemmas: bounded sets of integers have a least and a greatest member | |
| `FileStoreProofs` | theorems about `FileStore`, whatever fails | `FileStore`, `LeastGreatest` |
| `FileStoreCalmProofs` | theorems about `FileStore`: listings; and what holds of clients with paths of their own when the requests get answers | `FileStoreProofs` |
| `Accounts` | table `users`, tokens, their routes, one action per transaction | |
| `Session` | the session file and the commands that use it | `Accounts` |
| `SessionProofs` | theorems about `Session` | `Session` |
| `MCPipeline`, `MCDownload`, `MCPlacement`, `MCFileStore`, `MCSession` | instances for TLC | |

Definitions called "Mutant of ..." are not part of any specification.  Each is a
definition changed as a plausible bug would change it; putting it in the place
of the original must break the property `PROJECT.json` names with it.

### Pipeline

Party 0 is the client, parties 1..N are the nodes, link i leads to node i.
`pc[i]` is the position of the one thread that serves link i: `listen`,
`connect` (lines 125-164 of tcp.py), `stage` and `receive` (166-178), `await`
(181-184), `promote`, `discard` and the two replies (186-203), then `closed`, or
`crashed`.  `sent`, `rcvd` and `link` say what recv sees: data, the end of the
stream, or nothing; a cut link shows nothing for ever.  `staged` and `block` are
the two files of the chunk on each node; a block is the number of units it holds.

Data are counted, not named: one unit is what one `recv` returns.  A chunk file
name contains the id of its file row and is never uploaded twice, so one upload
is the whole life of a block until its removal.

`ReceiveEnds` is the place to look at first: the code leaves the receive loop in
the same way when the chunk is complete and when the upstream has closed.  The
tail of the chain then promotes what it has.

### Download

The client's two loops, one turn of each per action, against nodes that crash,
restart, refuse or break connections, lose blocks and fail to read them.  A node
serves the block, the bytes of `ACK_ERR`, or both: when the disk fails in the middle
of a block, `serve` answers the exception with `ACK_ERR` on the connection that has
already carried a part (`BrokenOff`), and the client counts all of it as data.
A disk is read `ReadSize` units at a time, so `ReadPoints` are the lengths that such
a part can have.  `dest` is the destination file as a sequence of units
that remember where they came from.  `reliable` is chosen at the start and fixed:
nodes spared every failure, which lets the properties say what one good replica
is worth.

### Placement

The loop of `build_upload_plan`, one turn per step, for one file; then the
recorded plan while the server restarts with other node lists.  The placement
arithmetic stands three times in `manager.py`, and three times in the module:
`PlannedNodes` (the upload), `AskedNodes` (a download, in this order) and
`ErasedNodes` (a removal).  Neither of the last two reads the `node_id` of the
chunk row.

### Metadata and FileStore

`thread[r]` is the handler thread of request r: which route, where it is, and
what its earlier transactions have read.  Each action of `Metadata` is one
transaction.  In `FileStore` a client is at one of its requests or works through
a list of chunks; `Ask` issues a request, the `...Answered` actions read the
answer, `NoAnswer` is a timeout or a lost connection.  After a timeout the
client goes on while its old thread runs; a slot of `Requests` is freed when the
answer is read or thrown away.  `onAll` holds the chunks that are complete on
their three replicas, `onSome` those of which some node has a block.

Erasures are asynchronous: the client sends them and closes the connection, and a
thread of the node unlinks the block whenever it runs.  `erasing` holds what was
sent and is not done; `Unlink` takes one replica away (the chunk leaves `onAll`)
and in the end the last one.  An erasure may also be lost, or miss one node.

`FileLife` says what all that amounts to, in five variables: a file is planned
with an id nobody had before, lives until its row is deleted, and never returns;
its chunks are stored, then registered in order, and erased only when the file is
gone.  It knows neither requests nor clients nor failures.

### Listing

A path is the sequence of its components.  `ListFilesInDir` is the loop of
`list_files_in_dir`, one `Turn` for each row in the order of their ids, `IsListing`
a definition of its result without a loop, and `ListingIsFaithful` compares them
for every user and directory in every state the file store reaches, half-uploaded
files included (and, in the theorem, the directory entries of `mkdir`).

A path starts with a `"/"` component if it is absolute; one that does not is a
relative path, as `tests/test_metadata_manager.py:72` uses.  `upload` and `/plan`
put the slash in front (`FullPath`), `list`, `download`, `rm` and `mkdir` take the
path as it was typed, and the loop compares both.  Every path has a directory and a
name; empty components and slashes at the end are not modelled.

### Accounts and Session

`Accounts` has the users table and a handler thread per request, as `Metadata`
has; the two are separate modules because they share only the account's id, and
what `userdel` does to files is in `Metadata`.  A login is two transactions
(`VerifyUser`, `GenerateToken`), an account deletion three.  The operator makes
administrators by hand (`Elevate`); no route does.  A token is a record that
nobody changes; that it expires is one of the outcomes of `Refuse`.  Two fields are
history, read by no action: `born`, the serial number of the registration that made
a row, tells two accounts of one name and even of one id apart; the password in a
token is that of the login which the token answers.

In `Session` asking whether `session.json` exists, reading, truncating, writing
and removing it are steps of their own; opening the file and reading it are one
step.  A process that writes a file which another one has removed writes into
nothing (`orphan`); two writers write over each other, so `file.size` counts.  A
file that does not parse is no session.  `settled` is the history of what the last
login or logout should have left; it is `Unsettled` while nobody can tell, because
a login was killed after truncating the file or two overlapped.  The key is a
function of the password and of the salt, the first 16 bytes of the name
(`SaltOf`), so names that begin alike share keys.

## 3. Runs

| run | instance | shows |
|---|---|---|
| `pipeline` | 3 nodes, 2 units, all failures, fairness; and the behaviours without failures | `AckImpliesReplicated`, `TailFirst`, `ReplyMatchesDisk`, `TruncatedMeansAbandoned`, the inductive invariant, refinement of `ReplicatedWrite`; `CalmUploadSucceeds`: no circular wait; `HandlersEnd` |
| `pipeline_truncated` | 3 nodes, 2 units | finding: a truncated block under a final name |
| `pipeline_aborted` | 3 nodes, 1 unit | finding: blocks left by an upload answered with `ACK_ERR` |
| `download` | 3 nodes, chunks of 4 and 2 units read 2 at a time, any reliable set, fairness | every replica is tried, downloads end, one reliable replica is enough; `ChunkArrivesWhole` and `RightLengthIsRightFile`, with parts of blocks followed by `ACK_ERR` |
| `download_failover` | 3 nodes, 1 chunk | finding: residue of a broken attempt in the file |
| `placement` | block size 3, files of 0..16 bytes, 7 node lists | tiling, distinct replicas, `AskedWhereStored` after restarts |
| `filestore` | user with 2 commands, administrator with 1, one path that the user spells with and without its slash, 2 chunks, all failures but refusals, prompts nobody can answer | `RegisteredIsStored`, `ConfirmedSurvives`, `OnlyPermittedRemovals`, refinement of `FileLife` |
| `filestore_calm` | a user with a file at the root and an administrator with two in a directory, 2 commands each; no failures | no ghost blocks, one row per path, quotas, listings, uploads keep their row, commands end |
| `filestore_slow_purge` | 1 client, timeouts only | finding: an overwrite deletes the new file's row |
| `filestore_tenants` | 2 users, one path, no failures | finding: one's own listed file is not found |
| `session` | 2 process slots with 2 and 3 commands, 3 account ids, 2 names, 2 passwords, kills, timeouts, refusals, restarts | `TokenNamesOneAccount`, `AdminOnlyByOperator`, `SessionIsOneLogin`, `FileIsLastLogin`, `DeletesWhomItNamed` |
| `session_relogin` | the same without failures | finding: a token of one account with a key from another's password |

Bounds, and why they are enough for what the runs look for:

- Three nodes are the chain `build_upload_plan` hands out and have all three
  roles (head, middle, tail).  Two units tell nothing, a part and all of a chunk
  apart.  For other lengths and sizes there are the proofs.
- Two chunks are the least with a first one registered or downloaded and a second
  one not yet.  `ErrorLength` is one unit, `ReadSize` two: one chunk of `download` is a
  single read and the other two, so `ACK_ERR` can come instead of a block, behind the
  first half of one, or behind all of it (when the disk fails at the read that finds
  the end).  In none of these does it fill a chunk up, which is the hypothesis of
  `ChunkArrivesWhole` and `RightLengthIsRightFile` (`ErrorFillsNoChunk`).  In bytes: a
  read is 4096 (`tcp.py:220`) and `ACK_ERR` is 7, so the hypothesis fails for files
  that end one to seven bytes behind a multiple of 4096 (section 5).
- `Placement` is checked for every size up to five and a third blocks, on lists
  that are empty, shorter than, equal to and longer than the replication factor,
  one with the nodes in another order and one with a node replaced.
- `MaxFiles`, `MaxCommands` and the slots in `Requests` bound what one behaviour
  does.  Two spellings of one path let a client miss the file it has uploaded itself.
  Two commands of the user and one of the administrator contain upload then
  overwrite or removal, with a removal or the deletion of the account at any point
  of them; two slots let an abandoned handler run beside the next request.
  `filestore_calm` has the four ids its four uploads need.
- `filestore` leaves out one failure, the handler that is refused in the middle
  (`Refuse`), to end in minutes: to its client it is what a timeout is, and it
  leaves the tables as a handler does that a restart stops or that never gets to
  run, both of which the run has.  The theorems of section 4 are about every set of
  failures, refusals included.
- `Session`: three account ids are an account, its deletion, and another account of
  the same name while a third is registered; three commands of one slot are
  register, login and userdel in any order and number, the other slot registers,
  logs in and out beside them.  The two names give records of different lengths and
  have different salts.  Two passwords tell two accounts of one name, and two logins
  of different passwords, apart; nothing treats one password differently from the
  other, so they are symmetric.  Two logins of one account with one password differ
  in the expiry of their tokens only, which no property is about.

Deadlock is not checked: an upload, a download and a bounded number of commands
really end.

Fairness:

- `Pipeline`: a thread that can run runs, and the timeouts of the client socket
  and of the 10 s downstream socket fire (weak fairness on the client and on each
  node).  Accepted sockets have no timeout, so nothing is assumed for a receiver
  whose link is cut: `HandlersEnd` excludes exactly that case.  No failure is
  ever obliged to happen.
- `Download`: the client runs and its socket timeouts fire; a live daemon serves
  what it has accepted.
- `FileStore`: the client runs, the server's threads run, the nodes do the
  erasures they were sent.  Users need not issue commands.
- `MCPipeline` tells the behaviours without failures apart by a constant variable
  `calm`; in those, a step is taken while one is possible, and no timeout is among
  the steps.  The links of `Pipeline` are unbounded: it has no wait on a full socket
  buffer, so the freedom from circular waits is of waits for data and answers.

## 4. Proofs

`PipelineProofs`, for every chain length N >= 1 and every chunk size: `TypeOK`,
`AckImpliesReplicated`, `TailFirst`, `ReplyMatchesDisk`,
`TruncatedMeansAbandoned`, and that `Pipeline` implements `ReplicatedWrite`.  The
only assumption is `ChainAssumption`.

None of these is inductive alone.  That an `ACK_OK` read by a node or by the client
means complete blocks below needs to know where blocks come from, and whether a
stream that ended was complete.  `IInv` adds:

- `FlowsDown`: nothing is received that was not sent, or sent on that was not
  received; a unit count equal to `Size` at node i therefore says the same of every
  node above it;
- `HoldsLink`: whoever may still read an answer holds its link open.  With `TailCut`
  this is the heart of the argument: a truncated block at the tail is behind a
  closed link, a party waiting for an answer holds an open one, so the party that
  reads the tail's `ACK_OK` reads it of a complete block;
- `Promotable`: a node about to promote is the tail, or stands above complete
  blocks and is complete itself;
- `DiskFollowsStep`: the files of a node follow from its thread's position.

`NextIInv` has a step for each action.  The refinement maps `block` to `stored`
and the client's outcome to `verdict`: only `Promote` (a `Store`) and the ends of
the client (`Confirm` or `GiveUp`) are visible, every other step stutters; the
invariant is what makes `Store` and `Confirm` enabled in the abstract module.

`PlacementProofs`, for every block size, file size and set of node lists without
repetitions: the loop invariant `PlanInv` (the k-th chunk is the k-th block of the
file, on the replicas of its index), from it that committed plans tile the file,
that replicas are distinct (by arithmetic modulo the length of the list), and
`AskedWhereStored`.  That one is about the list the server has by the time of a
download or a removal, whatever it is.  A removal erases a chunk where a download
looks for it, although the two work the nodes out apart; these are the replicas,
first to last, if the list is the old one or if nodes were added behind it and the
old rotation did not wrap at the chunk; and for a cluster of three nodes they
are the replicas in whatever order the nodes are listed.  For other changes they are
not, and even in a reordered list of three the first node asked is not the primary that the
row records.

`FileStoreProofs`, for every set of users, clients, requests, paths and chunk
indexes, every bound and every set of failures: `RegisteredIsStored`,
`ConfirmedSurvives`, `OnlyPermittedRemovals`, and that `FileStore` implements
`FileLife`.  It assumes `MetadataAssumption` and `FileStoreAssumption`.  The
argument rests on two facts about every step (`Frame`): ids grow, so a file that
is gone (`Gone`) does not come back; and a replica or a chunk row goes only with
the file.  What a client or a handler has read earlier may be stale in every other
respect, but not in these, and `IInv` says so for each place an id is kept:

- `ErasingOK`, and `ClientOK` at a purge: whatever is to be erased belongs to a
  file that is gone, however long ago the answer was read;
- `ClientOK` at a transfer, `CompleteOK`: what is no longer to be sent is on its
  replicas, unless the file is gone;
- `RowsOK`, `ConfirmedOK`: registered chunks are stored, with no gap before them,
  and confirmed files have all of theirs, unless the file is gone;
- `RemoveOK`, `UserdelOK`: the rows a handler will delete belong to whom it was
  checked for, and its answer names chunks of files that are then gone.

Every action is shown to preserve `Frame` first; the threads and clients it does
not touch then keep their part of `IInv` by one lemma.  The refinement maps the
transaction of `/plan` to `Plan`, `Transfer` to `Store`, each `add_chunk` of
`/complete` to `Register`, a successful `CompleteAnswered` to `Confirm`, the
deletions of a file and of a user to `Remove`, `Unlink` to `Erase`; the rest
stutters.

`FileLifeProofs` shows that the abstract module is worth implementing: in it
`LiveIsStored`, `NoGaps` and `ConfirmedIsWhole` hold for every set of chunks.
`NoGaps` comes back to the code as `RegistrationHasNoGaps`: a plan that is fetched
while `/complete` is still adding rows is a beginning of the file, never one with a
hole.

`SessionProofs`, for every set of names, passwords, processes and requests, every
bound and every set of failures: `TypeOK`, `TokenNamesOneAccount`,
`AdminOnlyByOperator`, `SessionIsOneLogin`, `FileIsLastLogin` and
`DeletesWhomItNamed`, from `AccountsAssumption` and `SessionAssumption`.  Again an
id is handed out once and an account is not renamed, so what was read of an
account (`TokenOK`) stays true of it or it is gone for good: a row with the id of a
token is of the same birth (`born`), which says more than that it has the same name.
`IInv` says `TokenOK` of every copy, in a thread, an answer, a process or the file.
`SessionIsOneLogin` needs `AnswerOK`: the thread or answer a login waits for is about
the name and the password that were typed, so the token in it is of that name and
the key that is derived next is of that password.  It does not say that the account
has this password: between the two reads of a login the account may be another one of
the same name (`session_relogin`).  `FileIsLastLogin` needs
`SettledOK`: if what should be in the file is known, then either nobody writes and
it is there, or the file is empty and exactly one process is about to write just
that.

`DownloadProofs`, for every number of nodes (three or more), chunks and units and
every size of `ACK_ERR`: `TypeOK`, `ChunkArrivesWhole`, `RightLengthIsRightFile`
and `RefusedOnlyWithoutReplica`, from `DownloadAssumption`.  Its `IInv` adds:

- `Serving`: what an attempt has counted are the last units of `dest`, and together
  with what is still to come they are the block, or a part of it that may be empty
  and `ACK_ERR` behind it.  The second is shorter than the chunk or begins with all of
  it, if `ACK_ERR` is shorter than what a node reads last (`ErrorFillsNoChunk`); then
  an attempt that has counted as many units as the plan says has added the block.
  Without that hypothesis it is false (section 5);
- `Prefix`: before this attempt `dest` holds as many units as the chunks before
  this one have, or more, and if no more, then just theirs.  The residue of a
  broken attempt can only lengthen the file, so the length gives it away;
- `Kept`, `Exhausted`: a reliable node holds what the plan expects of it, and the
  replicas given up were not reliable.

The file as a whole is defined by recursion over its chunks.  As with the loop of
a listing below, the provers have no induction to offer; the proofs take the
least index at which the recursion has no solution, or the claim is false, and
refute it (`LeastGreatest`).

Types: `FileStore.TypeOK` and `Placement.TypeOK` are theorems too.  The first
needs `TypeInv`, which knows more than the types: a handler works for the user of
the client that called it, on one of that client's paths.

`FileStoreCalmProofs` begins with `ListingIsFaithful`, for every table the file
store can hold and every directory, whatever fails.  After the row with id n the
results have one entry for each name of a row up to n, made from the oldest row of
that name (`Listed`); `TurnLists` shows that one turn of the loop keeps this.

The rest of that module is about clients that do not disturb each other.  Its
theorems have a hypothesis, and each part of it excludes something that breaks
them; the instance of `filestore_calm` satisfies all of it, so the run shows the
same properties on a small instance.  `Calm` says:

- clients name disjoint sets of paths: two uploads of one path both find it not
  listed and plan a row each;
- they write directories with their leading slash: a relative one is listed under
  another name than its files are stored under (section 5);
- they run upload, rm, download and quota only: `mkdir` adds a row whenever it is
  called, and `userdel` removes another client's;
- no path leads below another one: if `d/a` is older than `d`, a listing shows `d`
  as a directory, and the next upload of `d` adds a second row instead of
  replacing the first;
- nothing fails but transfers and erasures, and there is a terminal to answer the
  overwrite prompt: after a timeout, a refusal, a restart, a kill or an `EOFError` an
  upload goes on with the old row in place, or a handler runs on that deletes a newer
  one (section 5).

From `Calm` and `IInv`, `CalmInv`: whoever waits is served, by the thread of its
own request and nobody else's; rows of a client's paths are its user's, at most
one each; and what a client has learnt of its path (`Phase`) is still so, e.g. an
upload at its plan has found no row or waited for its deletion.  The step that
needs most is the listing: "not listed" must mean "no row", which is
`FileIsListed`, a consequence of the theorem on listings.  `OnePathOneFile` and
`UploadKeepsItsFile` follow.

With `Faults = {}` besides, `GhostInv`: a block is registered for a file that is
there, or its erasure is on its way, or a client is at it (`Holds`: it is sending
the file, registering it, or has it in the answer of a removal); and a file is
registered whole or being uploaded, in as many chunks as its row says.  A removal
reads the chunks and deletes them in two transactions; that nothing is registered
in between is `ThreadKnows`, and holds because no one else is on that path.  When
nothing is in progress only the first case is left: `QuietMeansNoGhosts`; and then
every file of a user stands for as many stored chunks as its row counts, so the
sum that the quota takes over the rows is their number: `QuotaIsStored`.

Only model-checked: all liveness (`CalmUploadSucceeds`, `HandlersEnd`,
`DownloadEnds`, `ReliableReplicaSuffices`, `CommandEnds`: out of the reach of the
provers here, like ENABLED) and the findings.  Every invariant and every action
property of the runs is a theorem.

## 5. Where the code and its documents disagree

Six runs end in a violation, each of one sentence of the documentation, quoted in
`PROJECT.json`.  The most consequential is `filestore_slow_purge`: one client,
one slow request, and an upload that reports success has no row.

1. An upload finds its path listed and the user agrees to overwrite.
2. The removal request times out; its handler has not looked the name up yet.
3. The client plans the new file; the handler now takes the newest row of that
   name, which is the new one, and deletes it.
4. The chunks are transferred, `complete` adds their rows to a file id without a
   row and answers that all is well.

The others in a sentence each:

- `pipeline_truncated`: the tail promotes a block whose upload broke off.
- `pipeline_aborted`: an upload that was answered with an error leaves blocks behind.
- `download_failover`: what a broken attempt has written stays in the file, and the
  download reports success.
- `filestore_tenants`: another user's newer file of the same name hides one's own.
- `session_relogin`: a login that was checked against one account gets the token of
  the next account of that name, whose password is another.

Others are not runs of their own, but hypotheses of the properties above, which fail
when they are dropped:

- An upload should detect that its path is taken and ask
  (`latex/04-implementation.tex:86`), so a client that is alone should never have
  two rows for one path.  That fails in two ways without any failed request.
  `upload -d docs` lists `docs`, which is never a prefix of a path that begins with
  a slash, and so never sees that the file exists (`core.py:45-50`,
  `db.py:150-155`); and without a terminal `input()` raises, the exception is
  swallowed, and the upload adds a second row instead of stopping (`core.py:55`,
  `63-65`).  TLC finds either after two uploads: give a client of `filestore_calm` a
  relative path, or add `"prompt"` to its `Faults`.  `Calm` excludes both;
  `filestore` has both, and what it checks holds all the same.
- A disk that fails before the last one to seven bytes of a block is not noticed:
  `ACK_ERR` takes their place, the chunk counts as complete, and no replica is
  asked (`tcp.py:117`, against `latex/02-requirements.tex:75`).  `ErrorFillsNoChunk`
  excludes it; with chunks of three units in `download`, `ChunkArrivesWhole` without
  that hypothesis fails.
- A download asks the nodes of the running server's list, not the primary that the
  chunk row records (`manager.py:86-90`, against `latex/03-design.tex:153` and `194`).
  `AskedWhereStored` says when they are the same nodes.
- `latex/02-requirements.tex:26` makes a write visible in the registry only after all
  three mirrors confirm, while `build_upload_plan` inserts the row of `files` before the
  first byte is sent (`manager.py:52`), and `list` and the quota count it from then on.
  `Metadata` models it so; `FileLife` therefore speaks of the chunk rows, which do wait,
  and `QuotaIsStored` of the states in which nothing is in progress.

## 6. Not modelled

- `rmdir` and `mv`: the server has no such routes, so they always fail and change
  nothing, whatever `latex/07-user-guide.tex:27-28` says they do.
- The user list and the cluster status: read-only reports that no other code uses.
- The stream cipher: the transfer code never calls it.  `derive_key` is in
  `Session`, because its result is part of the session.
- Argument parsing, the terminal UI, validators (called by nothing), exceptions,
  deployment files, and the unused JSON stub of `metadata_server/__init__.py`.
- The constants of the configuration are parameters of the modules.
- Threads running out, disks filling up, a full listen backlog, and the accept
  loop's end on an exception: the code does nothing about them.
- `.tmp` files of killed daemons: they stay for ever and nothing reads them, so no
  property of the stored files can notice.

## 7. Plan

1. Done: the pipeline with its refinement and proofs; download; placement with
   proofs; metadata and client operations with the abstract `FileLife`, the
   refinement and proofs; the directory view; accounts and sessions with proofs.
2. Done: proofs about `Download`; `TypeOK` of `FileStore` and `Placement`;
   listings; the properties of `FileStore` without failures, from `CalmInv` and
   `GhostInv`.
3. Open: what the calm theorems say of a client that is disturbed by others only on
   paths they do not share, but may itself be killed or time out.
