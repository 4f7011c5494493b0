# A TLA+ verification of rickydata-git

rickydata-git keeps agent work records (intents, attempts, runs, patches, notes)
as content-addressed, optionally signed canonical objects beside a Git
repository. Nothing in it takes a lock: many `rickygit` processes work in one
clone at once, clones exchange objects through Git remotes or through a relay
server, and any process may die between two system calls. This project models
that concurrency and checks and proves what survives it.

## 1. Inventory

Paths are under `src/crates/`; GIT, CORE, RELAY, CLI, AGENT and RDL stand for
the crates `rickydata-git-git`, `-core`, `-relay`, `-cli`, `-agent` and `-rdl`.

| Component | State | Operations | What is hard | What makes it correct |
|---|---|---|---|---|
| Object store (GIT) | cache files, shared temp files, object refs | write, read, verify, list | no lock; one temp file per id; cache and ref written one after the other; reads trust the cache | reported writes are durable and found again; a read returns the object asked for |
| Store layout (GIT) | directories, VERSION | init, open | written step by step; VERSION in place | an opened store is complete; init is idempotent; other releases' stores are left alone |
| Signed ref expectations (GIT, CORE) | refs | compare-and-set of a ref | read, then transaction | at most one of two rival updates wins |
| Relay, file store (RELAY) | object files, idempotency files | push, pull, get | check-then-write by server threads, in-place files, crashes | stored objects authentic and immutable; acknowledged pushes stored; one key, one answer |
| Relay, GCS store (RELAY) | bucket, token cache | push, pull, get | retries after lost answers, conditional puts, token expiry | the same, over HTTP |
| KFDB projection (RELAY, CLI) | external graph index | chunked batch writes after a push | partial failure | no edge dangles, only stored objects are mirrored, the proof's counts can be believed |
| Relay client (CLI) | local store, chunk keys | relay push, pull, status | chunks that fail half way, retries with the same keys, limits, comparison by counts | after a successful push all objects are on the relay; repeated limited pulls get all |
| Sync (CLI) | local and remote refs | git push, git fetch, status, verify | ref by ref while others push, stale caches, signed lists that age | an ok verification, parity and a signed expectation are true |
| Notes (CLI) | notes in the store, a read marker per agent | send, inbox, list | marker read-modify-write without a lock; late notes | nothing is skipped, nothing is shown twice |
| Intents, attempts and runs (CLI, AGENT) | appended objects | intent, start, transition, run | status read, then transition appended; clocks; worktrees made while others use them | an outcome is final; an attempt on record has its tree |
| Changes, patches, review (CLI, AGENT) | objects, worktrees, review checkouts | detect, prepare, apply, retire, checkout | the agent edits meanwhile; worktree changed before the record is written; checkouts replaced under each other | a patch has its whole evidence; one application per key; a marked checkout is whole and nobody else's directory is touched |
| Canonical JSON, hashes, signatures (CORE) | none | hashing, signing | numbers at the edge of 64 bits | equal bodies have equal ids |
| RDL manifest (RDL) | none | the capabilities each command declares | declarations and code may differ | a command that declares no mutation does none |
| Keys, receipts, graph reports, schemas, scripts | files or none | | | stateless or external; not modelled |

The CLI calls GIT in process; processes share only the file system. The relay is
a separate server reached over HTTP; Git remotes are reached by running `git`.
There are no callbacks. `PROJECT.json` lists each component with its status, and
each hazard at its line.

## 2. Modules

| Module | Models | Run or proof modules |
|---|---|---|
| `StoreProcesses` | the processes of a clone, each with its next system call | extended by the next and `StoreInit` |
| `ObjectStore` | GIT write/read/verify, one action per system call | `MCObjectStore`, `StoreProofs` |
| `ObjectRegistry` | what the store promises: a write-once register per id | refined by `ObjectStore` |
| `StoreInit` | GIT init and `open_initialized_store` | `MCStoreInit`, `StoreProofs` |
| `RelayObjects` | bundles, signature policy and reports, shared by both relay stores | extended by `FileRelay` and `GcsRelay` |
| `FileRelay` | RELAY push/pull/get over `FileRelayStore` | `MCFileRelay`, `FileRelayProofs` |
| `RelayPromise` | what a relay promises its clients, without connections or requests | refined by `GcsRelay` |
| `GcsRequests` | server threads of `GcsRelayStore` and the tries of their requests | extended by the next two |
| `GcsRelay` | RELAY push/pull/get/list over `GcsRelayStore` and its bucket | `MCGcsRelay`, `GcsRelayProofs` |
| `GcsTransport` | one HTTP request of `GcsRelayStore` in time: token cache, metadata URLs, retries | `MCGcsTransport`, `GcsRelayProofs` |
| `RelayContents` | what is stored on a relay, as its clients and its index see it | extended by the next two |
| `RelayClient` | CLI `relay push`, `pull`, `status` against the relay's promise | `MCRelayClient`, `RelayContentsProofs` |
| `KfdbIndex` | RELAY `IndexedRelayStore` and the counts of CLI `proof` | `MCKfdbIndex`, `RelayContentsProofs` |
| `Manifest` | RDL command manifests and `classify_effects` | extended by `Sync` |
| `Sync` | CLI `sync`, `repo status`, `proof`; GIT listing and signed ref updates; every command by its effect on the store | `MCSync`, `SyncProofs` |
| `NoteInbox` | CLI `note inbox` | `MCNoteInbox`, `NoteInboxProofs` |
| `WorkFlow` | CLI `intent write`, `issue import`, `work start`, `attempt start/submit/abandon`, `run exec`, `change detect`, `patch prepare` | `MCWorkFlow`, `WorkFlowProofs` |
| `PatchObjects` | the patch objects that a command takes from the store by id, and the command's steps | extended by the next two |
| `PatchApply` | CLI `patch apply`, and the temp file it shares with `patch checkout` | `MCPatchApply`, `PatchProofs` |
| `ReviewCheckout` | CLI `patch checkout`, `patch retire` | `MCReviewCheckout`, `PatchProofs` |

`NoteInbox`, `WorkFlow`, `PatchApply` and `ReviewCheckout` are about commands of the CLI,
which see the store as the set of objects that `ObjectRegistry` promises: a write is one
step there, and objects are never removed. `RelayClient` and `KfdbIndex` use the relay in
the same way: its answer to a request is one step, as `RelayPromise` has it, which
`GcsRelay` implements (the file relay keeps it only until pushes overlap). `Sync` uses
`ObjectStore`: a write or a read of one object is one step. Two models over one base
module (`StoreProcesses`, `GcsRequests`, `RelayContents`, `PatchObjects`) are
specifications of their own: neither constrains the other.

### ObjectStore

State: `cache`, `tmp` and `refs` are the three places an id can be in; `pc`, `op`,
`req`, `buf`, `fd`, `out` are a process's program counter, API call, requested id,
object in hand, open file and result; `acked` and `expects` are history variables
(reported writes, and what had been reported when a call began).

Data: an object is an `Envelope`: the id it claims, the id its content hashes to,
and its `wire` form, the part of the bytes the id does not cover (signatures,
`created_at_ms`). A file may also be `Empty` or `Garbled`. Hashing is assumed
collision free.

Actions follow the code call by call: `Stat`/`Compare`/`OpenTemp`/`Fill`/`Rename`
are `write_object_cache_bytes`, `RefCheck`/`RefCreate` are `write_git_object_ref`,
`Lookup`/`Load`/`ReadRef` are `read_object_from_cache_or_ref`,
`VerifyStat`/`VerifyLoad`/`VerifyRef` are `verify_cached_object`. `fs::write` is an
open with truncation followed by a write at offset 0, so two writers can meet
inside it. An open file follows its inode: after another process's rename it is
the cache file (`Relinked`), after a second rename or a deletion it is `gone`.
`Abort` is a kill or an I/O error at any step. Outside the code: `DeleteCached` and
`Fetch` (`git fetch refs/rickydata/*`, which does not check object refs for fast
forwards, so a ref may become any blob). `SpecLocal` has no fetch, `SpecSync` does.

### StoreInit

`dirs` and `version` are the disk; an init walks the directories in order
(`EnsureDir`, `MakeDir`), then looks at VERSION and creates, fills or compares it.
The twelve directories of the code are `NumDirs` numbered ones, `TempDir` the
position of `tmp`. A store of another release may be there from the start.

### FileRelay

One repository, several connections. A push validates the whole bundle (`Accepts`,
with the policy flags `Enforce` and `Legacy`), replays a known idempotency key,
compares existing files (`Compare`), writes the missing ones (`Exists`, `Create`,
`Fill`) and records its report (`RecordCreate`, `RecordFill`). Counts are kept
because they are in the replayed report; the history variable `raced` says whether
two pushes have overlapped. Pull and get read files one by one. `Fail`
is an I/O error or the death of the server.

### GcsRelay

The same operations over a bucket. Each is a sequence of HTTP requests: the record
of the key, the pages of a listing, an upload per object that was not listed, the
upload of the record and, if that name was taken, reading it back. An upload takes
only a free name (`ifGenerationMatch=0`). A try may be answered, or lose its answer:
the bucket has not seen it, has carried it out, or will do so later (`late`,
`Arrive`), while the retry, another request or another push is under way. `told` and
`credit` are histories: what clients were told, and which bytes were counted as
accepted.

### GcsTransport

One request of a server thread, with the clock: a unit is the HTTP client's timeout
of 30 s, so a try sees at most one tick. `cache` holds the time until the cached
`expires_at` and until the token is really refused, which differ by the 60 s the code
takes off and by the time the metadata server's answer took. A request fetches a
token (several URLs, several tries each) or takes the cached one, and then tries its
own request. What it does to the bucket is `GcsRelay`.

### RelayClient

Clones, each with its object refs, and one relay that answers a chunk in one step:
from the record of its key, or by storing and recording. Ids are numbers, which stand
for their sorted order. A push lists the clone's objects, cuts the list into chunks (a
chunk is the set of the objects at its positions: `FirstOf`, `Chunk`, `ChunkKey`), and
ends at the first failure or lost answer. Pulls and other commands go on in the clone
meanwhile, but what a push sends was listed at its start. `mixed` are objects that were
sent under the key of another bundle and answered from its record, `habits` the keys and
chunk sizes in use.

### KfdbIndex

`IndexBatch` is `kfdb_index_batch`: the list of node and edge writes for a bundle,
with mirrors, projections by kind, files, signers and lineage. `thread` holds the
operations a server thread has left to write. It sends them in
batches of `IndexLimit` operations, stops at the first failure, and answers its push
as if nothing had happened. A node is its label and key, so writing it again merges;
two patch objects of one patch id therefore share a projected node, and the object_id
given last counts.

### Manifest and Sync

`Manifest` lists what each of the 49 commands declares. `Sync` has a clone (`refs`,
`cache`, retirements), a remote, and at most one sync or proof command under way (`job`),
while other commands write, read and clear the cache, other clones push to the remote and
objects are replaced there. A push signs what the refs point at (`StartPush`), runs `git
push`, which lists the refs once more (`PushLists`) and then the remote (`PushAsks`), and
sends what it listed where it found nothing (`SendRef`). The remote takes a ref only if
there is nothing still, and a ref that it has with other bytes is rejected; the others are
sent all the same. `Accepted` is the exit code: every listed ref was there already or was
taken, as far as git knows (`job.known`). A pull fetches one ref after another; `git
fetch` replaces a ref that differs, because object refs are not checked for fast forwards.
`held` is what was verified, listed or signed when the command began. Two things void it:
the ref moves before the command (or the git it runs) lists it, or the object is replaced
at the remote after a push has found or put it there. A ref that moves later leaves `held`
as it is. Signing and git's listing are two moments, so what was signed of a ref that
moves between them may never be pushed: that is the one exception of `AttestedPushed`
inside the clone. Signed updates are a check (`CheckExpectation`) and a transaction
(`MoveRef`) with anything in between. When the host has withdrawn its grants (`viewer`)
only commands run of which the manifest declares no mutation.

### NoteInbox

`store` holds the notes that are ref-backed in the clone; `Land` adds one (note
send, sync or relay pull). An inbox lists, reads the marker for the window, reads
it again for the newest time, writes it back in place and prints last. `MarkerOf`
is `sanitize_agent_filename`, so agents may share a file (`Namesakes`). The history
variable `excused` collects the notes an agent may never be shown for a known reason.

### WorkFlow

One set per kind of object (`intents`, `attempts`, `statuses`, `traces`, `runs`,
`changes`, `diffs`, `patches`) and `tree`, what each working tree holds: `Absent`,
`Partial` while `git worktree add` is at work, `Clean`, or something that differs from the
base commit. `git worktree add` looks (`LookForWorktree`), makes the directory
(`AddWorktree`, whatever another start has made there by now) and checks out
(`FillWorktree`). One that fails or is interrupted deletes the directory it made, one that
is killed leaves it (`StopAdding`); so a start that found the directory meanwhile
(`UseWorktree`) may have its tree taken away. Ids are hashes, so an id is the record of
what it covers. Neither `--in-place` nor the lease is in an attempt id, so one id may have
two attempt objects; `find_attempt` takes the one that sorts first (`Found`,
`InPlaceFirst`).

An attempt id covers its intent (`IntentOf`); attempt start wants a valid one on
record, work start records one first and goes on in the same way.

A command is: the listings and checks it begins with (one step; as objects are
only added, a listing made earlier that passed the checks for a patch, an attempt
or some evidence passes them at that step too), then one step per object it writes
or tree it touches. A run's command is `Exec`, and the agent may `Edit` a tree at
any moment. `Stop` is a refusal, a failure or a kill. A transition's `rank` is the
order of its timestamp and object id, and is arbitrary: clocks may be wrong. Two history
variables name the known exceptions: `raced`, attempts of which two transitions were
under way at once, and `early`, attempts whose worktree was used before it was whole,
or made by two starts at once. A `git worktree add` that fails, is interrupted or is
killed is no exception of its own: unless its tree was used early, no attempt on record
loses its tree or gets half of it into the evidence.

### PatchApply

`listed` and `apps` are the patch objects and the application objects made in the clone,
`pulled` the applications of other clones, which the lookup of a key finds as well
(`LandApplication`, `Applied`); the main tree is what is `committed` and what is `dirty`.
An apply reads the patch, HEAD and the stored diff (`StartApply`; a patch whose diff does
not resolve is refused, which is `Fail`), writes the diff to a temp file named after patch
and millisecond (`MakeTemp`), looks its idempotency key up (`Replay`, `Lookup`), looks at
the tree (`CheckClean`), runs `git apply` (`Apply`) and records the application
(`Record`), while the user edits, commits and resets. HEAD is checked before the key is
looked up, as in the code. A `git apply` happens as a whole or not at all. A `patch
checkout` writes, uses and removes the same temp file (`StartReview`, `MakeTemp`,
`EndReview`); what else it does is `ReviewCheckout`. `rivals` and `lost` record applies
that overlapped under one key, and diffs whose apply died before its record, or whose temp
file was also made, in one millisecond, by an apply or checkout of another diff of the
patch. A file is removed when its command returns, whoever wrote it last; a killed command
leaves it. `OneApplicationPerKey` is about the applications that this clone records:
another clone may record one under the same key before they meet.

### ReviewCheckout

`dir` says what is at a checkout path: nothing, an empty directory or one with files of
the user, or a checkout with a diff and a marker, each perhaps not yet there. The user may
make a directory and put files there at any moment (`MakeDir`, `PutFiles`). A checkout
takes a free path or (`--force`) removes a checkout that is marked as one of the same
patch, adds the worktree, applies the diff and writes the marker last; an error after the
worktree was added removes it, an error of `git worktree add` does not. That command looks
at the path again (`AddLooks`) and takes an empty directory too, then makes the worktree
in whatever is there (`AddTree`), deletes it when it fails (`AddUndone`) or leaves it when
it is killed (`KillAdd`). A removal cut half way, by a kill or an error, leaves the diff
or the marker or both or neither (`RemoveHalf`). The temp file may hold the diff of
another patch object of the same id (`ApplyTree`), for which see `PatchApply`. A marker
being written is a marker that is not there, as the reader rejects both. `clash` are the
paths where two checkouts were at work at once, or where the user put files while one was;
`torn` those that hold what a checkout or a removal left that died or failed half way (or
failed to write its temp file, which has no cleanup). A marker on a `torn` path still
names a patch on record, so `--force` replaces what is there; that its diff is there is
claimed of the others.

## 3. Runs

| Run | Instance | Shows |
|---|---|---|
| `store_local` | 2 processes, 1 id, 2 wire forms, forged contents | writes durable, no lost object, reads authentic; refinement of `ObjectRegistry`, of which write-once refs are a part |
| `init` | 3 processes, 3 directories | opened stores complete, initialization permanent, foreign stores kept |
| `relay` | 2 connections, 7 bundles, 2 keys, signatures enforced, failures | stored objects authentic, records backed; until two pushes overlap also: acknowledged objects whole, one key one answer, objects immutable |
| `gcs` | 2 connections, 3 bundles, pages of 1 name, 2 tries, 1 late upload | acknowledged objects stored, one key one answer even when pushes overlap, each object credited to one push, whose bytes are stored; refinement of `RelayPromise` |
| `transport` | 2 requests, 3 tries, 2 URLs, tokens of 0 to 6 units | the first two tries of a request never carry an expired cached token; every request ends (liveness) |
| `client` | 2 clones, 4 objects, chunks of 2 or 3, limits 0 and 1, 2 pushes | an ok push is stored unless a key was reused for other objects, which derived keys and one chunk size exclude; status by counts is right after a full push; repeated limited pulls get everything (liveness) |
| `kfdb` | 2 threads, 4 objects in 2 bundles, batches of 4 operations | no dangling edge, only stored objects mirrored, a proof with parity means what it says |
| `sync` | 1 patch, its diff in 2 wire forms, torn and alien objects, 2 signed updates | verify is true of the refs; parity and what an accepted push has signed are true of the remote, for refs that did not move before they were listed and were not replaced at the remote; no lost update; commands without declared mutation change nothing but fill the cache from refs |
| `inbox` | 2 processes, 2 agents of one marker file, 3 notes, options, kills | markers always name a note that is there; a note is hidden only if it came late, was before a `--since-ms` window, was passed by an agent of the same marker file, or its report was lost by a kill |
| `work` | 2 processes, 1 intent, 1 attempt started in a worktree and in place, 1 run, 2 changes, 1 patch, 2 ranks | every patch has its whole record down to attempt and intent; a submitted attempt has a patch; attempts on record keep their tree and half made ones stay out of the evidence, although `git worktree add` may fail, unless a tree was used before it was whole; outcomes are final unless two transitions overlapped |
| `apply` | 2 processes, 2 patch objects of one id with different diffs, 1 key or none, 2 milliseconds, 2 applications made or pulled; applies and checkouts | one application of the clone per key unless lookups overlapped; no patch in the tree without a record unless its apply died or its temp file was shared with an apply or a checkout |
| `checkout` | 2 processes, 1 path, 3 patch objects of 2 ids; the path may be taken, empty or filled by the user | marked checkouts are of a patch on record and whole, leftovers replaceable, the user's files and marked checkouts untouched, each with its exceptions |

Bounds. Ids never interact in `ObjectStore` (each has its own files and ref), so one
is enough there; two wire forms are what two writers can disagree on, and `h2` is
a content that does not match. Two processes suffice for each race of a pair; the
proofs cover any number. In `FileRelay` two ids are needed for a bundle that is half
stored; the bundles cover two signers of one id in two bundles and in one, a reused
key, and an unsigned, a forged and a mislabelled object. `GcsRelay` has two bundles
under one key that share an object with different signatures (pushes under different
keys meet only in the objects, as these do), more names than fit a page, and two tries,
which is one retry after a lost answer; the code's three repeat that. In `GcsTransport`
the lifetimes are those below, at and above the margins. In `RelayClient` object 3 is
created by the agents between the others, so that later pushes cut other chunks. In
`KfdbIndex` a bundle has more operations than a batch. In `Sync` the diff is an object
that a patch names and that exists in two signed forms, which is what a cache and a
ref, or two clones, can disagree on. In `inbox` one note is the reader's own to
everyone, which moves its marker unread. In `work` attempts share only the main tree,
so one id with both kinds of tree has every interaction of a pair of commands; two
ranks are a transition before and after another. In `apply` the two diffs of one patch
id are two patches prepared from one set of changes, which are all that two commands
need to differ in; the user edits the tree as it was checked out. Paths do not interact in
`ReviewCheckout`.

Fairness. Most models let each process stop for good, so their runs are about safety
and assume no fairness. Two state progress. In `GcsTransport` each step a request waits
for is weakly fair: the client is built with a timeout, so every try is answered,
fails or times out, and the loops over tries and URLs are bounded; nothing is assumed
of the servers. In `RelayClient` a chunk under way ends (the same timeout), and for
each clone a pull with some positive limit that is not cut short happens again and
again as long as objects are missing: the user or script that repeats
`relay pull --limit`; a pull that never succeeds would promise nothing. Deadlock is
checked everywhere.

Each property of a passing run has a mutant in `PROJECT.json`: a definition with a
plausible bug, under which TLC finds the property violated.

## 4. Proofs

For all processes, connections, clones, ids, wire forms, requests, limits and
directories:

* `StoreProofs`. *Type correctness* of `ObjectStore` (`TypeCorrect`) needs more than
  `TypeOK`: an open file must exist where `fd` says (`FdCoherent`), the program counter
  must fit the call (`OpCoherent`), and an object being written must already be checked
  (`CarriedAuthentic`). *Reads are authentic* (`SyncInv`) adds that every parseable
  cache or temp file has its id (`FilesAuthentic`): every path into the cache has
  checked the object, and two writers that collide produce one of their objects or
  garbage. *Durability, write-once refs and the refinement* (`LocalInv`) rest on refs
  that never change once set: a process at `ack` has found its own object in the
  ref (`AckInstalled`), so what is reported is what is installed.
  In `StoreInit` an init past the directories has made all of them, so VERSION
  implies the layout (`DirsMade`); VERSION never disappears (`VersionSeen`); only an
  init that saw no VERSION writes it, and it cannot have become another release's
  (`NotForeign`).
* `FileRelayProofs`. A push under way was accepted as a whole (`JobInv`), files and
  records never disappear, and the second loop has passed only files that exist
  (`WrittenInv`); so a recorded report is backed and every parseable file is valid.
  Until two pushes overlap (`LoneInv`) one at most is under way (`Single`); it has seen in
  its first loop that no file of its objects is cut off, and only the file it is writing
  may be (`Whole`); what clients were told is what is recorded (`ToldRecorded`). So
  acknowledged objects are whole, answers agree and nothing stored changes.
* `GcsRelayProofs`. The bucket takes a name once (`Kept`), so what a connection has seen
  there stays: `Holds` says what that is at each label, `Passed` which objects of the
  push are in the bucket, and `BucketInv` that a record, also one in an upload that may
  still arrive, names only objects that are there. From `GcsInv` follow the three
  invariants of the run and, step by step, that the relay implements `RelayPromise`
  (`GcsKeepsPromise`): an upload that is carried out is its `Store` or `Record`, an
  answer to a push a `Record` of what is there, everything else a stutter.
  In `GcsTransport` a cached token was taken with three ticks left, of which each try
  uses one at most (`Budget`).
* `RelayContentsProofs`. In `RelayClient` what a push has sent so far is stored or `mixed`
  (`PushInv`), a record holds a chunk of a push that was started, all of it stored
  (`RecordsInv`), and with derived keys and one chunk size a key names its chunk
  (`KeyNamesChunk`), so that nothing is mixed. The arithmetic of `div_ceil` (`DivCeil`)
  makes the last chunk end the list. Equal counts then are equal sets.
  In `KfdbIndex` the invariant is about what is still to be written: `OpsOk` says of a
  list of operations that every edge follows both of its ends, which exist or are created
  by an earlier operation, and that every node is true of what is stored. Such a list may
  be cut anywhere (`SplitOk`), which is why a failed or lost write leaves a whole graph,
  and two such lists may follow each other (`ConcatOk`). That `IndexBatch` is one for any
  list of objects (`BatchOk`) is an induction over the list, done with the well-founded <
  on the naturals: of the set of lengths for which it is not, a least one is taken
  (`WFMin`). `ProofSound` is stated of finite clones; it follows because a subset of equal
  size is the whole set, and a node names one object (`GraphOk`).
* `SyncProofs`. What a verification, a comparison or a push has first seen of a ref is
  what the command lists of it, unless the ref moved in between (`HeldInv`), whatever the
  cache contains. What git knows the remote to have, because it found or put it there, the
  remote has still (`KnownInv`): other clones push only where there is nothing. So when
  every listed ref is known to be there, what was signed is on the remote
  (`AttestationsHold`). A signed update re-checks in its transaction what it expects. What
  commands without declared mutation may do is shown command by command from the manifest.
* `NoteInboxProofs`. The marker file is read twice and written last, so the invariant is
  about times: `Settled` holds the agents and times up to which every note was shown, is
  about to be shown by a process under way, or is excused. The marker (`MarkerInv`), the
  lower bound of a process (`BoundInv`) and the time it will write (`NewestInv`) are such
  times, and later notes are excused when they land (`Late`).
* `WorkFlowProofs`. Objects are only added (`Grows`), so what a process has seen stays
  true: `JobInv` says what that is at each label, for instance that a run about to be
  written has its trace and a patch about to be written has its stored diff. From it
  `RecordInv`, every object is written after the ones it names, an attempt after its
  intent, and `ChainComplete`. `TreeInv` follows a worktree from `git worktree add` to the
  attempt object. While a start or run fills a tree that was not used early, it is the
  only one that does and the tree is `Partial` (`FillInv`), as the tree of no attempt on
  record is (`Settled`): so git may delete it. `MoveInv` says that without a race an
  attempt has one transition at most, under way or written; it makes a running attempt one
  without transitions, which is what the finality of an outcome rests on, as the ranks are
  arbitrary.
* `PatchProofs`. In `ReviewCheckout`, away from clashes, one process is at work on a path
  (`Alone`) and what is there fits its label (`Fits`): nobody else can have removed or
  replaced the worktree between its steps. So the marker goes into a worktree with the
  diff, and the cleanup removes the process's own worktree. A checkout without a marker is
  being worked on or torn (`Manned`), one with a marker holds its diff or is torn (`Whole`).
  In `PatchApply` an apply that has passed the lookup of its key is the only one and is not
  yet recorded, unless another overlapped with it there (`LookedUp`), and what it finds in
  its temp file is its own diff, or one that is known to be another's (`OwnTemp`), of
  whichever command: a diff that is not `lost` has no twin in the millisecond.

The assumptions are the named ASSUMEs on the constants; TLC evaluates them in
every run. Every safety property of every run is proved, and both refinements. Only
model-checked are `Returns` and `CaughtUp`: liveness under fairness, which needs ENABLED.
`CaughtUp` would also need an induction over the number of missing objects.

## 5. Where code and documents, or code and declarations, differ

What the models had to allow for. The properties above are stated so that they hold
for the code as it is; each exception in them is one of these. The exceptions are
history variables, set when the race or failure that a property does not survive has
happened, and for no other reason: `raced` in `FileRelay` and `WorkFlow`, `mixed` in
`RelayClient`, `excused` in `NoteInbox`, `early` in `WorkFlow`, `rivals` and `lost` in
`PatchApply`, `clash` and `torn` in `ReviewCheckout`, and what voids `held` in `Sync`. What
happens after such a race is named here and not excluded by a property.

* ADR 0002 (line 9) has objects "stored twice". Two writers of one id share a temp
  file, so a reported write may leave a torn or empty cache file; the ref is right.
* ADR 0002 (line 35) wants init idempotent. An init killed while it writes VERSION
  leaves an empty file that every later init and open refuses.
* ADR 0007 (line 186): a stored object is "never silently overwritten". Two
  overlapping pushes to the file relay both find no file, and the later overwrites the
  earlier; the GCS relay does not.
* `agent-notes-comms.md` (lines 85-86) and README (line 84): the inbox shows unread
  notes. A note that lands after a newer one was read is never shown.
* The GCS relay answers ok for an object that is there with another signature.
* `--idempotency-key`, or a changed `--chunk-size`, makes a relay push answer from the
  record of other objects: it reports ok and does not store them.
* A pull replaces a ref by the remote's wire form under a cache that holds another:
  verify then reports OBJECT006 until the cache is cleared. Verify accepts a patch of
  which the diff is only cached.
* "after this push, ref X should still point to oid Y" (CLI 2969): the list is signed
  before `git push` makes its own, so an accepted push may attest a value of a ref that a
  pull or a signed update replaced in between, and that was not pushed.
* A `git worktree add` that fails deletes the directory it made, also when another start
  or run has found it meanwhile: an attempt can be on record, and a run under way, without
  a tree (CLI 5288).
* `patch checkout` refuses a path that exists, but an empty directory that the user makes
  after the check is taken over by `git worktree add`, and a later error removes it. Files
  that the user puts there while git is at work are not protected, nor is a checkout from
  another one that passed the check at the same time.
* A removal cut half way may leave the marker of a review checkout without its diff.
  `--force` replaces it; until then it looks like a finished checkout.
* Two commands for one patch, an apply and another apply or a checkout, share a temp file
  if they make it in one millisecond: the apply may put in the diff of the other and
  record its own. Retries under one key are answered from one record only within a clone.
* Manifests under-declare: `patch_apply` writes an application object and its ref
  without the capabilities for it; `repo_status`, `attempt_status`, `patch_review_queue`,
  `receipt_verify`, `relay_push` and `proof` fill the object cache without
  LocalMetadataWrite, as `issue_import` and `work_start` do; `sync_pull` omits
  GitObjectWrite; `relay_push` declares no write to the relay. The note, graph, impact,
  context and project-kfdb commands have no manifest. `ViewerHarmless` therefore allows
  cache entries that repeat a ref, and no more.

## 6. Not modelled

`PROJECT.json` gives the reason for each component. In short:

* cryptography, JSON canonicalisation and hashing are assumed: the models use the ids
  they yield. At the edge, `canonical_number` turns the float 2^63 into 2^63-1;
* HTTP routing, authentication, key files, receipts and schemas are stateless or plain
  file I/O; of the manifest, schemas and hashes are data;
* list, show, status, export and the review queue only read. graph scan, impact, context
  and project-kfdb build a report from listings that are made one after another; what
  is written meanwhile can be missing from it. It is printed, or uploaded, and not kept;
* the index file of change detect is named after the millisecond as temp patch files
  are; only the latter is modelled. Its write is one step, and its name holds 12 digits
  of the patch id, of which those of different patches are taken to differ;
* transitions that come from another clone have, like local ones, a time of any clock;
  finality is claimed of the transitions of one clone;
* the scripts drive external tools.

## 7. Plan

1. `RelayPromise` as the contract of more than one store: the file relay implements it
   until two pushes overlap, with a run and a proof of that refinement.
2. `RelayClient` takes the promise by construction of `Serve`; composing it with
   `RelayPromise` would state it.
3. Safety lemmas towards the liveness properties: a pull never adds what is not missing,
   and what is missing shrinks with each whole pull; a try of a request is never repeated.
4. Left to TLC: liveness itself.
