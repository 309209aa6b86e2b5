# dboxed-volume in TLA+

This directory specifies dboxed-volume, a service for network-backed volumes: a server keeps
repositories (S3 buckets with a rustic password), volumes and a lock for each volume; a machine
that serves a volume holds its lock, keeps the volume in a local LVM image, and backs it up every
few minutes with rustic, through a local WebDAV proxy, into the repository's bucket.

The modules are translated from the Go sources under `src/`. TLC checks each on a small instance, and
TLAPS proves every safety property that the runs check, and every refinement, for every value of the
constants. Files are named here by their path under `src/`; `PROJECT.json` maps each definition to the
lines it stands for.

## The system

| Component | State it keeps | Operations |
|---|---|---|
| Volume lock endpoint: `pkg/server/resources/volumes`, `pkg/db/dmodel/volume.go` | columns `lock_id`, `lock_time`, `deleted_at` of a row | `restLockVolume`, `restDeleteVolume` |
| volume-serve: `pkg/volume_serve`, `cmd/.../volume_serve.go` | `vs.volume` (id and lock), the lock id file | `Start`, `lockVolume`, `periodicRefreshLock`, `periodicBackup` |
| Local image: `pkg/volume`, `pkg/lvm`, `pkg/losetup` | image file, loop device, LVM volumes, mount | `Create`, `Open`, `Mount` |
| Backup: `pkg/volume_backup`, `pkg/volume/snapshot.go` | snapshot, its mount, proxy, configuration directory | `Backup`, `CreateSnapshot`, `MountSnapshot`, ... |
| WebDAV proxy: `pkg/webdavproxy` | `dirCache`, `contentCache`, chunks of open contents, uploads under way | `Stat`, `OpenFile`, `Readdir`, `RemoveAll`, `Rename`, `readAt`, `fileWrite` |
| HTTP client: `pkg/client`, `pkg/config/client-config.go` | token in memory, `client-auth.json` | `Login`, `RefreshToken`, requests |
| Repositories and tokens: `pkg/server/resources/{repositories,tokens}` | four tables of a repository, the tokens | POST, PATCH, DELETE |
| S3 proxy: `pkg/server/resources/s3proxy` | the objects of the bucket; a cache of bucket locations | list, presign, delete, rename |
| Authentication and users: `pkg/server/resources/{auth,users}` | a row per user | check of bearer tokens, upsert in the request's transaction |
| Server start, configuration, migrations, command line | - | wiring |

How they interact:

    volume-serve --lock/refresh--> lock endpoint --statements--> database
         |  Start: Create/Open/Mount on the local image
         |  every interval: Backup: snapshot, mount, rustic --WebDAV--> proxy
         |                                                      proxy --list, presign, rename, delete--> S3 proxy
         |                                                      proxy --GET, PUT--> object store
         +--- every request: RefreshToken --> provider, client-auth.json (shared with other processes)

What is hard in it, and where:

* *Lock endpoint.* Requests for one volume interleave between their SELECT and their UPDATE. Only the
  compare-and-set of `UpdateLock` stands between two of them and a double grant. Correct means: a lost
  lock never comes back, a granted answer is worth its five minutes.
* *volume-serve.* The process has no clock that ends a lease. It stops because the refresh after a
  failed one dereferences the nil `vs.volume`. Answers get lost while the handler goes on, processes
  die between a grant and the writing of the lock id file. Correct means: one machine serves at a time,
  and a machine comes back under its own lock.
* *Backup.* A stack of deferred calls each of which may fail, left-overs of runs that crashed, a rustic
  that outlives its parent, directories with the repository's password. Correct means: rustic reads the
  snapshot of this run, a clean run leaves nothing, no run leaves a password but where a failure or crash
  made it, no left-over stops the following backups.
* *Local image.* A chain of commands with deferred undoing, restarted at any point of it; a loop device
  that `Open` detaches even when it succeeds, an `os.Stat` whose every error means "no image". Correct
  means: data is not formatted again, what is served is the image, loop devices are released.
* *Upload.* A handler, a pipe, a goroutine and a store that may answer at any time. Correct means: a
  client that is told of success has its whole body stored.
* *File content.* Index arithmetic at chunk boundaries and a counter that stands for the size of the
  cache. Correct means: reads return their data, and the cache is bounded.
* *WebDAV caches.* Listings enter the cache before they are filled; contents are cached after the
  version was looked up. Correct means: what was put and answered is what is found from then on.
* *Files behind the proxy.* A MOVE is a copy and a removal at the server, a DELETE of a directory goes by
  cached listings, names are locked but not what is below them, and the server goes on with a call
  whose connection broke. Correct means: what was uploaded is under some name until somebody asks to
  delete or replace it, and a MOVE or DELETE that is answered with success is done.
* *Client.* One file, several processes, each with several goroutines, refresh tokens that work once.
  Correct means: a token is exchanged once, and the file has a session that lives.
* *Repositories.* Four INSERTs or up to six UPDATEs with checks in between, in one transaction.
  Correct means: no half repositories, no half updates, no lost updates, one repository per name.
* *Users.* The row of a user is written in the transaction of the request that brings new claims, and
  goes when that request fails. Correct means: whatever refers to a user has one.

`PROJECT.json` lists these hazards one by one, at the line where each bites, with the properties that
would catch it.

## The modules

`VolumeServe` composes `VolumeLock` with the processes, and `WebdavTree` composes the proxy's requests
with the server's S3 proxy. The other modules are about one component each and stand alone. Four modules
are abstract specifications, which say what a component promises without its mechanism:

| Abstract | Implemented by | Property | Mapping |
|---|---|---|---|
| `LeaseLock`: a lease that is granted, renewed, and taken over when it is old | `VolumeLock`, `VolumeServe` | `LeaseSpec` | the row's columns; requests and processes are hidden |
| `BackupLog`: a backup is the volume at one moment since its run began | `Backup` | `LogSpec` | the versions `live`, `started`, `saved`; snapshot, mounts and commands are hidden |
| `AtomicPut`: a body becomes the object in one step, at most once | `Upload` | `PutSpec` | what clients know, the lock on the name, whose body is stored and whether it is whole; pieces, pipe and goroutine are hidden |
| `AtomicCatalog`: a request happens at once with its whole body, or not at all | `Catalog` | `CatalogSpec` | the committed tables and the user's row; transactions are hidden |

`MC*` modules only add symmetry sets for TLC. The theorems about a module and their proofs are in the
module of its name with `Proofs`; `VolumeServeProofs` is about `VolumeLock` and `VolumeServe`, and
`WebdavReadProofs` about `WebdavCache` and `FileContent`. Operators whose comment begins with "Mutant"
are used by no action: each is what a plausible mistake makes of the definition after it, and TLC finds
the property named in `PROJECT.json` violated when it takes the definition's place.

### LeaseLock, VolumeLock

`LeaseLock` says what the lock promises, without requests: at most one holder, stamps that only move
forward, nobody replaced before the stamp is more than `LockTimeout` old, no replaced id back again.

`VolumeLock` is `restLockVolume` as concurrent requests run it. Variables `lockId`, `lockTime` and
`deleted` are the columns; `handler[h]` is a request's local state (`prevLockId`, the row as it read
it, the id and the time it decided on). One action per database statement: `GetVolumeById`; then
`DecideRefresh`, `DecideNew` or `DecideConflict`, which are the branches of the handler; `UpdateLock`,
whose `RowUnchanged` is the WHERE clause. `Abort` is a failing statement or commit, `Finish` the
answer, `DeleteVolume` the soft delete, which looks at no lock. `uuid.NewString` returns an id that was
not issued before. Creating a volume is a single INSERT of which the initial state is the outcome.
The two reads of the clock in one handler are one step: a handler whose stamp is a second later than
its test does what a handler that ran the test a second later does.

### VolumeServe

Each machine has one process. `StartServe` asks for the lock with the id of `--prev-lock-id` (`flag`)
or, without it, the one in the lock id file. The flag is for machines in `FlagNode`, and the id is one
that this machine was granted at some time (`granted`), current or not: an operator who copies the id of
one machine to another starts what `OwnersDisjoint` is meant to exclude, and is left out. `Granted`
takes the answer over and stores an id that is not the one asked with (`NeedsStore`),
`GrantedStoreFails` is a failing `AtomicWriteFile`. After that the process sleeps and refreshes
(`Refresh`). `RequestFails` leaves `volumeNil`, and `RefreshPanics` is what comes of that at the next
wake-up. `Lost` breaks a connection: the handler goes on without its client. `Crash` can happen at any
step; only `file` survives.

`ServeSpec` lets the clock run freely. `TimelySpec` adds the timing assumption `Timely`: the clock does
not pass a deadline, which means a request is over within `MaxRTT` and a process that is due wakes
within the second. `EnoughTime == 2 * RefreshInterval + 2 * MaxRTT =< LockTimeout` is the condition the
properties need; with the code's 15 seconds and 5 minutes it holds for `MaxRTT` up to 135 seconds.
The code bounds no request (`http.DefaultClient` has no timeout), so the assumption is one on the
network and not something `pkg/client/request.go` sees to.

### Backup

`Backup` with one action per command, in the order of the code: `StartBackup`, `UnmountOld`,
`LookupOld`, `RemoveOld`, `CreateNew`, `Activate`, `UndoCreate`, `MountSnapshot`, `StartProxy`,
`MakeConfigDir`, `WriteConfig`, `DiscardConfig`, `RusticEnds`, and `Unwind`, which calls one deferred
call of the stack `defers` at a time. Every command may fail without effect; `Crash` loses the deferred
calls and makes a running rustic an `orphan`, `Reboot` loses the mounts. Rustic runs in its
configuration directory (`backup.go:81`) and reads the mounted snapshot, so umount is refused only while
an orphan happens to have something open below the mount: under an orphan it may fail, and it may
succeed. `OrphanEnds` saves nothing, for the next run's proxy listens at another address. That is so for
the default port 0, and is assumed: with a fixed `--webdav-proxy-listen` an orphan could go on through
the next run's proxy. `live` numbers the versions of the file system: `Write` makes the next one, a
snapshot holds the one of its making. The kernel's refusals (umount of a busy mount, lvremove of a
mounted volume) are modelled from how the code calls these commands.

### LocalVolume

`VolumeServe.Start` on the local image. `StatFails` is the error of `os.Stat`, which `Start` takes for an
image that is not there (`volume_serve.go:61`), and `Create` again (`create.go:27`); `blind` counts, for one
start, those that were wrong. `image` is how far `Create` has got (`Stage`); `CheckNoImage`
to `Mkfs` are its commands, `GetOrAttach` and `FindVolumes` are `Open`, `Mount` is `Volume.Mount`;
`defers` and `CallDeferred` are the deferred calls of `Create` and `Open`. `CommandFails` makes any
command fail; `Crash` and `Reboot` interrupt. `AutoActivate` is udev, at a time of its own, and
`losetup -d` of a device in use only marks it (autoclear), as the kernel has it. `RemoveHalfImage` is
a person: the code never completes a half-made image by itself.

### Upload

One PUT per client on the same name. `Start` to `Answer` are the steps of the webdav handler with
`fileWrite.Write` and `fileWrite.Close` (`CheckUploadErr`, `CloseWriter`, `AwaitUpload`);
`StoreAccepts`, `StoreRefuses` and `HandleUploadDone` are the upload goroutine and the store.
`TransportFails` is the nil response whose body the goroutine takes: the process panics and all its
requests end. The order of OpenFile, Write and Close, and the lock on the name, are those of
`golang.org/x/net/webdav`.

### FileContent

`fileContent.readAt` in one step, for it holds the content's mutex throughout. A chunk is the number of
bytes fetched of it. `Wanted` has the off-by-one of the code's loops (`(offset + count) / chunkSize`),
so `ReadPanics` is a step of the model; `FillSucceeds` takes an answer that broke off for the end of the
object, as `fillChunks` does, and `Copied` says what the copying loop makes of short chunks: data, a
panic, or going round for ever ("spin"). `FillFails` is a body that cannot be read to its end: `fillChunks`
returns (`file_content.go:113`) before it counts the chunks it has stored by then, and the history
`uncounted` counts them. `ReadAheadEnd` and `Forgotten` are the read-ahead and `forgetOldChunks`. Of
`lastReadTime` only the order matters: `older` has the pairs of chunks of which the first was read longer
ago.

### WebdavCache

One object `b` in a directory `d` of the repository. Every point where no mutex of `FileSystem` is held
lies between two actions: `Lookup`, `Insert`, `Readdir`/`ListObjects` (the listing is locked in
between), `Search`, `Stated` are `Stat`; `LookupContent` and `InsertContent` are `OpenFile`, with its
second `Stat`; `DeleteForgets` and `DeleteRemoves` are `delete`, after the `Stat` and `OpenFile` of
`RemoveAll`; `UploadDone` and `CloseUpload` are the end of an upload. A listing of the root only
shows whether `d` is there.

### WebdavTree

PUT, MOVE and DELETE of several files and of the directory they are in, where `WebdavCache` looks at one
object closely. A request takes the steps of `x/net/webdav` (`StatTarget`, then `RemoveAll` or `Rename`)
and the names in it are locked (`Locked`). `ListRecursive`, `Delete` and `RemoveAllEnds` are `RemoveAll`
(a directory that is listed empty is listed once more, and then its deletion succeeds with nothing
removed), `Rename` and `RenameAnswered` are `FileSystem.Rename`, `PutStores` and `PutCloses` the parts
of an upload that others see. `calls` is what the server was asked and has not answered: `CopyObject`
and `RemoveObject` are the two calls of `restRenameObject`, the second alone is `restDeleteObject`;
`CallFails` is any of the errors before these calls, and `Break` takes the caller away from a call that
the server goes on with. Listings are filled or not filled (`Browse`) and expire (`CleanupCache`).

The state has a history: `owed` are the versions that were stored and that nobody has asked to replace
or delete, `began` what a request found, `halfMoved` what a failed MOVE left under two names.
`Endangered` says of a file that a deletion of its directory or a call without a caller is about it.

### ClientAuth

Processes and their goroutines, the login command, `client-auth.json` and the provider. `CheckToken`
takes the mutex; `Exchange`, `ExchangeFails` (whose answer may be lost after the provider took the
token), `Truncate` and `Write` are the rest of `RefreshToken`; `BeginLogin`, `DropToken`, `DeviceFlow`
are `Login`. `os.WriteFile` truncates and then writes, so a kill in between leaves an empty file, and
two writers at once a garbled one. The provider rotates: each refresh token works once, and when it
sees one again it refuses, and may end any of the sessions (`EndSessions`, `ended`), as for a stolen
token. (The code works with any provider of `oauth2`; the rotating one is the one that makes mistakes
visible.)

### Catalog

The transactions of POST, PATCH and DELETE of repositories, one action per statement, and of tokens.
A transaction begins before its request is authenticated: `CheckDboxedToken` lets in the owner of a
token, `CheckOidcToken` the bearer of claims, which `CreateOrUpdate` writes into the user's row when the
row does not say the same (`UserSays`). There is one user, whose claims change.
A column is the client that wrote it last. `Fail` is every way a transaction ends in an error, before
any statement. The database is one with read-committed isolation that gives a row's lock to the first
writer; `unique(name)` counts deleted rows, as the schema does.

## What is checked

| Run | Instance | Question and result |
|---|---|---|
| `lock` | 3 requests, 3 uuids, `LockTimeout` 1, clock to 3 | `NoResurrection`, `Promise`, `LeaseSpec` (the endpoint implements the lease) hold |
| `serve_timely` | 2 machines, one with a lock id file and `--prev-lock-id`, 2 requests, 3 uuids, `LockTimeout` 4, `RefreshInterval` 1, `MaxRTT` 1, clock to 6 | `MutualExclusion`, `ServingHoldsLock`, `FileCurrent`, `RefreshKeepsId` hold under the timing assumption |
| `serve` | the same machines without `--prev-lock-id`, 2 uuids, `LockTimeout` 0, no timing assumption | `OwnersDisjoint`: no id belongs to two machines; `LostLockNoticed`: nobody serves for ever under a lost lock; `DeletedNoticed`: a deleted volume is in the end not served any more |
| `backup` | 2 writes, 2 faults, 2 crashes | `RusticReadsThisRun`, `CleanWhenDone`, `PasswordsRemoved`, `EveryWriteSaved` and `LogSpec` (the runs implement `BackupLog`) hold |
| `local_volume` | 3 faults, 3 crashes | `DataSurvives`, `ServedFromImage`, `LoopReleased`, `WholeImageServed` hold |
| `upload` | 3 clients, bodies of 2 pieces | `AckedIsWhole`, `ShortOnlyIfGone`, `PutEnds` and `PutSpec` (the uploads implement `AtomicPut`) hold |
| `content` | objects of 7 and 8 bytes, chunks of 2, 1 body cut short, 2 chunks uncounted | `DataUnlessCut`, `CacheBounded`, `JustReadStays` hold |
| `webdav_cache` | 2 readers, a writer, 2 versions, `Stat` of the file and of its directory | `StatFresh`, `OpenFresh` hold |
| `webdav_tree` | 2 requests, 2 files in a directory, 2 PUTs, 1 broken call at a time | `NothingLost`, `MoveDone`, `OneName`, `DeletedGone` hold |
| `client_auth` | 2 processes of 2 goroutines, 2 logins, 2 expiries | `FileLive`, `OneWriter`, `RefreshOnce` hold |
| `catalog` | 2 clients, 1 name, 2 ids, 1 token, a user with 2 claims | `RepositoriesWhole`, `UpdatesSerial`, `NameOfOne`, `OwnerThere` and `CatalogSpec` (the transactions implement `AtomicCatalog`) hold |
| `catalog_endpoint` | | a violation, see Findings |

The type invariants are proved, for every module, and no run checks them. Several properties name
exceptions. They are what the code does, found while modelling, and the
property says that nothing else goes wrong:

* `FileCurrent`: an id that `--prev-lock-id` gives and the server only confirms is not stored
  (`volume_serve.go:113`), and the lock id file has an older one, or none, while the process serves.
* `PasswordsRemoved`: a failing `RemoveAll` and a crash leave a directory with the password each, which no
  later run removes.
* `DataSurvives`, `WholeImageServed`: an image that is not attached is truncated when `os.Stat` fails twice
  in one start, in `Start` and in `Create`, for whatever reason; if a command fails after that, it stays
  a half-made image, which is never served.
* `ShortOnlyIfGone`: a client that goes away leaves a shortened object under the name, because `Close`
  ends the body in that case as well.
* `PutEnds`: a PUT that the store refuses before it has read the body never ends, for nobody reads the
  pipe any more.
* `DataUnlessCut`: a read that ends at the end of an object whose size is a multiple of `chunkSize`
  panics; an answer that breaks off is taken for the end of the object and a later read panics or
  goes round for ever.
* `CacheBounded`: chunks that a failing body leaves behind are not counted, and the cache can outgrow its
  limit by as many.
* `StatFresh`: a listing that could not be filled stays in the cache, and its entries do not exist until
  it is forgotten.
* `OpenFresh`: content that a request caches after the file was forgotten is the old content.
* `NothingLost`: a MOVE that must not overwrite looks at a listing, and when that is not filled it replaces
  a file that is there; a file that a call without a caller is still about may be replaced or removed
  after it was uploaded; a file that comes into a directory while it is deleted may go with it.
* `MoveDone`: says nothing of a MOVE whose files a deletion of the directory or a broken call is also about.
* `OneName`: a MOVE that came to an error may leave the version under both names.
* `FileLive`: a lost answer, a kill before the write, a failed write, or two writers at once lose the
  session in the file; so does a process that was not started again since another one refreshed, when the
  provider ends the session for the spent token it presents.

### Bounds, and why they are enough

* `lock`: two requests race for a row and a third takes over what they did; with `LockTimeout` 1 and
  the clock up to 3 a lock can be granted, expire, be taken over and expire again while an early
  request still has what it read.
* `serve_timely`: 4 is the smallest `LockTimeout` that `EnoughTime` allows for an interval and a round
  trip of 1, so a weaker assumption would not do; the clock runs to 6, more than a whole lease.
  The last second of the bounded clock stands for all later ones (`Due`). The proofs need no bound.
* `serve`: with `LockTimeout` 0 every lock is lost as soon as a second passes, which is the worst case.
  `--prev-lock-id` is left to `serve_timely` and, for `OwnersDisjoint`, to the proof: the graph on which
  liveness is decided would be several times as large, and what the process does after the first answer
  is the same.
* `backup`: two failures suffice to leave a mount and a snapshot behind together, two crashes to have an
  orphan meet a later run, two writes to tell a run's snapshot from an older one.
* `local_volume`: three failures reach a command, its deferred undoing, and the retry, or the two calls
  of `os.Stat` and a command of the `Create` that follows; three crashes
  interrupt `Create`, `Open` and a restart.
* `upload`: one client is cut off or refused, one succeeds, one comes late; two pieces are the smallest
  body that can be shortened and not empty.
* `content`: one size that is a multiple of the chunk size and one that is not; four chunks, a clean-up
  limit of four and read-ahead after one sequential fill, so forgetting, read-ahead and refetching
  all happen. The counter of filled chunks is stopped at `MaxFilled`. One body that ends early suffices for
  the short chunk that later reads meet, two uncounted chunks for two failing bodies or one that got
  further.
* `webdav_cache`: the second reader is the one that finds what the first put into a cache; two versions
  tell old content from new. Failing PUTs and deletions are not bounded.
* `webdav_tree`: two requests and a call without a caller are three parties at one file; two files are
  the smallest directory in which a MOVE and a deletion of one of the two, and of both, differ; a second
  PUT tells what was there from what came. Every file is in the directory: those outside of it have the
  same steps without `Endangered`, and the proofs have files of both kinds.
* `client_auth`: a second process is the one whose refresh token is spent, a second goroutine the one
  that waits for the mutex, a second login the one that overtakes a refresh.
* `catalog`: two transactions race for a row or a name. Of the columns, bodies of PATCH may have
  `prefix`, the two keys and the password: two tables, one of them with two checked steps. Two claims
  are enough for the row to be written, and written again by a transaction that fails.

`CHECK_DEADLOCK FALSE` is set where the system may stop: a volume that is served and has nothing left
to fail (`local_volume`), clients that have had their answer or are blocked (`upload`), and a
`client-auth.json` that no command can read (`client_auth`).

### Fairness

* `VolumeServe!Fairness`: the clock moves, the server's handlers run, a granted or refused answer is
  received, a panic happens when it is due. `Refresh` is strongly fair only because handler slots are
  the model's: the server always has room for one more request.
* `Backup`: weak fairness of the goroutine's next step (commands end) and of an orphan's end (its
  repository is gone with its proxy).
* `LocalVolume`: weak fairness of the process (a supervisor starts it again), and strong fairness of udev:
  it does not lose the race with the deferred `losetup -d` of `Open` on every restart.
* `Upload`: handlers and goroutines run, and the store answers once it has the whole body. Nothing is
  assumed of a store that has not, which is why `PutEnds` has its exception.

## What is proved

For any sets of ids, requests, machines, processes, files and names and any bounds, from the assumptions
in the modules (a "nothing" value is none of the values, bounds and times are natural numbers). Each
`*Proofs` module has an inductive invariant, because no property is inductive alone:

**`VolumeServeProofs`, the endpoint.** `NoResurrection` needs that a request's snapshot of the row is
older than the row (`ReadInv`), that stamps are not in the future and only move forward (`RowInv`,
`StampInv`), that an id a request decided on is new or the one it read (`DecisionInv`), and that a
granted id stays in the row as long as its promise (`GrantInv`): `LockInv`. From it follow
`LockTypeCorrect`, `NeverResurrected`, `PromiseKept`, and `ImplementsLease`: initial states map to
`LeaseInit`, each step to a step of the lease or a stutter.

**`VolumeServeProofs`, the processes.** `ServeInv` adds to `LockInv` that a handler slot belongs to one
machine and remembers what it was asked with (`SlotInv`), when a process serves (`ServingInv`), and that
every id was issued to one machine (`OwnInv`). It needs no assumption on time and gives
`ServeTypeCorrect` and `IdsHaveOneOwner`. Every step of machines and endpoint is one of the endpoint
(lemma `ServeIsLock`), hence `ServeImplementsLock`, and with the theorems about the endpoint
`ServeImplementsLease` and `ServeKeepsPromises`. A loss or a deletion leaves a process one answer at
most: `LostStopsGrants`, `DeletedStopsGrants`. `TimelyInv` adds `TimeInv` (a serving process's deadline
is at most so much after its last stamp that the lock cannot have expired), `ServingHoldsLock` and
`FileCurrent` (a granted id is the one the request asked with, from the file or the flag, or it is
stored before the process serves). Under `EnoughTime` it is inductive for `TimelySpec` and gives
`OneServer` (mutual exclusion: both hold the one row, and ids have one owner), `ServersHoldTheLock`,
`FilesAreCurrent`, `RefreshesKeepTheId` (an action property).

**`BackupProofs`.** At each point of a run, and of its unwinding, the deferred calls are one prefix of
the four (`StackInv`); as long as nothing failed, what is there has its deferred call (`OwnedInv`, which
is `CleanWhenDone` at the end of a run); a run goes on from its first step only with nothing mounted,
and what it mounts is its own snapshot (`MountInv`). Theorems: `BackupTypeCorrect`, `ReadsThisRun`,
`LeavesNothing`, `PasswordsAreRemoved` (each configuration directory is this run's, which is still to
remove it, or has a failure or a crash of its own). That no version in snapshot or mount is from the
future, and what was saved before a run from before it (`RecentInv`), gives `BackupsAreRecent`, the
refinement of `BackupLog`. `LeftOversStopNoRun` is about what a run may end for: when a step ends one
before it has saved, a command failed in that step, or an orphaned rustic is there and has something
open below the old mount.

**`LocalVolumeProofs`.** A mounted file system keeps its volumes active, and active volumes keep the
loop device; `Create` begins with nothing attached and nothing mounted, and on an image that is there
only if `os.Stat` failed twice (`VolumeInv`). Theorems: `LocalTypeCorrect`, `ServesTheImage`,
`LoopIsReleased`, `UserDataSurvives`. `Create` finds the image at the stage that its next command needs
(`CreateIsNotStuck`), and a process that finds a finished image ends only for a command that fails, or
for volumes that udev has not activated again (`LeftOversStopNoServing`).

**`UploadProofs`.** One handler at a time has the lock on the name (`LockInv`), where a handler is says how
much has passed the pipe (`StageInv`), and until a handler whose upload was accepted has answered, its
body is what is stored (`StoredInv`). Theorems: `UploadTypeCorrect`, `ShortenedByTheClient`,
`SuccessIsStored`. The client of a handler that runs has no answer yet (`RunsInv`), and a body that is
stored is not sent any more (`OnceInv`), which gives `PutsAreAtomic`, the refinement of `AtomicPut`. A
handler always has a step to take, or its goroutine has, but after an early refusal (`PutsAreNotStuck`),
and each step leaves fewer (`PutsRunOut`, by the measure `StepsLeft`).

**`WebdavReadProofs`, the caches.** A version is on its way in a listing that is being filled, a cached
listing, the listing a request holds, the result of its `Stat`, or the cached content. In each of these
places it is not older than what was answered when the request that will use it began; in those that later
requests use as well, than what is answered now (`ListingInv`, `ContentInv`, `RequestInv`: `CacheInv`). The
second `Stat` of `OpenFile` is the exception, which `late` marks. Theorems: `CacheTypeCorrect`,
`StatsAreFresh`, `OpensAreFresh`.

**`WebdavReadProofs`, the content.** As long as no body ended early, every chunk that is cached is
whole, and the counter lacks no more of the cached chunks than failed requests have left (`ReadsInv`).
What the last read came to follows from the step that made it (`LastReadOK`): a read whose chunks are
there and whole copies its data, unless it needs the chunk after the last; forgetting takes the chunks
of which enough others were read later, and never those of the piece just read. Theorems:
`ContentTypeCorrect`, `ReadsReturnData`, `CacheStaysBounded`, `JustReadIsKept`.

**`ClientAuthProofs`.** The mutex makes a goroutine's token the one in its process's memory until it is
exchanged (`UsedInv`), which no process has exchanged before (`SpentInv`); a token that is being written is
the last of its session, live or ended (`LastTokens`), and nobody else's (`WriterInv`), and with one login
there is one last token (`ChainInv`).
Theorems: `AuthTypeCorrect`, `TokensAreUsedOnce`, `FileStaysLive`, `OneWriterAtATime`.

**`CatalogProofs`.** An open transaction has written exactly the columns that its stage says (`StageInv`),
transactions that create have different ids and names, which are nobody's (`ApartInv`, `FreeInv`), and
what was promised has every column (`PromiseInv`). Theorems: `CatalogTypeCorrect`, `UpdatesAreSerial`,
`RepositoriesAreWhole`, `NamesAreUnique`, `OwnersAreThere`. With the keys of a credential together in every
body (`KeysInv`) comes `RequestsAreAtomic`, the refinement of `AtomicCatalog`: a commit is the step of the
whole request, every other step a stutter or a read.

**`WebdavTreeProofs`.** A version that is owed is in a file that no call is about to remove (`KeptInv`),
because what a call or a request is to replace or delete is not owed (`CallTargets`, `JobTargets`), and
others bring nothing there: names are locked (`LockInv`), calls belong to one request (`CallInv`), and
where neither helps the file is `Endangered` (lemmas `CallGuard`, `JobGuard`, `OthersEndanger`). Of two
files with one version, one is being copied or was in a MOVE that failed (`PairInv`): `TreeInv`.
`WholeInv` adds what a request may rely on at each of its steps: a MOVE that was not disturbed, that its
files are not `Endangered` and hold what it found (`MoveInv`); a DELETE, that what it has still to find is
shown by the listing it is to read, then in `todo`, then in its call, and that nobody renames it meanwhile
(`GoneInv`). The second of these needs that the listing shows whatever is owed, unless somebody has just
written it and is still to forget the listing (`ShownInv`). Theorems: `TreeTypeCorrect`, `UploadsAreKept`,
`OneNamePerVersion`, `MoveIsDone`, `DeletionIsDone`.

Only model-checked: liveness, which rests on fairness and ENABLED and is out of the prover's reach. What is
a matter of safety in it is proved:

| Property | Proved of it | Left to TLC |
|---|---|---|
| `EveryWriteSaved` | no left-over ends a run (`LeftOversStopNoRun`) | commands end, runs come again |
| `WholeImageServed` | no left-over ends a process, `Create` has a next command (`LeftOversStopNoServing`, `CreateIsNotStuck`) | commands end, udev wins in the end |
| `PutEnds` | a PUT that was not refused early has a next step and few of them (`PutsAreNotStuck`, `PutsRunOut`) | handlers, goroutines and the store take their steps |
| `LostLockNoticed` | a process keeps a lost lock for one more answer at most, the one that was on its way (`LostStopsGrants`) | refreshes come and are answered |
| `DeletedNoticed` | a process is given the lock of a deleted volume once more at most, by a request that had read the row before (`DeletedStopsGrants`) | the same |

## Findings

* The default of `--s3-endpoint` in `cmd/dboxed-volume/commands/repo_create.go:15` has no scheme, and
  `checkEndpoint` (`pkg/server/resources/repositories/repositories.go:357`) refuses it: run
  `catalog_endpoint`.

## Not modelled

* Of the S3 proxy: presigning, which signs a URL and changes nothing, and the cache of bucket locations,
  whose only outcome is that a call works or fails (`CallFails`).
* `Mkdir`, which does nothing, and COPY, which `x/net/webdav` makes of OpenFile, Read, Write and Close. It
  reads its source to the end, and so reaches the panic that `DataUnlessCut` names whenever the size is a
  multiple of `chunkSize`.
* A directory as the source of a MOVE, which `Rename` refuses, or as its destination, whose files a MOVE
  that overwrites deletes first, as a DELETE of the directory does.
* An object that is overwritten while its chunks are cached (`FileContent` has one object; which version is
  opened is in `WebdavCache`), and a store that completes an abandoned body later than the broken
  connection (`Upload` has it at that instant).
* An id that an operator passes with `--prev-lock-id` to a machine other than the one it was granted to,
  and a fixed `--webdav-proxy-listen`, as said under `VolumeServe` and `Backup`.
* The 15 second margins by which listings and URLs expire. That a listing or content expires at any time is
  in the models (`CleanupCache`, `LookupContent`), that its URLs fail earlier is the failing fetch of
  `FileContent`.
* That a deletion is seen at once: `delete` forgets before it removes, and a listing between the two keeps
  the file. The models have it; nothing in the repository promises otherwise, so no property does.
* Opening a directory in `WebdavCache`, whose entries are those of `Stat`'s listing.
* How a bearer token is verified, who is an administrator, and who may see what: functions of a request
  and a row. That a token's name is unique, as `cmd/dboxed-volume/commands/token_create.go:13` has it:
  neither `restCreateToken` nor the schema sees to it, and `Catalog` gives tokens any name.
* Creating a volume, one INSERT after checks of the body; the initial state of `VolumeLock` is its outcome.
* What users of a mounted volume do when the process that serves it is gone: the code never unmounts it.
* What is not in the repository is modelled as far as the code depends on it: the transaction middleware
  commits or rolls back, statements are atomic, LVM, losetup, mount and udev as described above,
  `net/http` and `x/net/webdav` as they call the proxy.
* Server start, configuration, migrations, output of the commands, helpers: no behaviour of their own.

## Plan

Written in this order: the lock and its processes with their proofs, backup, local image, upload, content,
caches, client, catalog with its users, the proxy's files down to the S3 proxy, the proofs about all of
these, the abstract specifications of backup, upload and catalog with the proofs of their refinement, and
what of the liveness properties is safety. What is left:

1. An abstract specification of the session that `ClientAuth` keeps (one token at a time, used once), and of
   the names behind the proxy that `WebdavTree` implements but for `Endangered` files.
2. An abstract specification of the object behind the caches, which `WebdavCache` implements but for
   its named windows.
