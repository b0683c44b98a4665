# Verification of gac-redux

TLA+ models of `gac`, the command line tool under `src/`, with the TLC runs that
check them and the TLAPS proofs of what matters most.

`gac` is a short-lived command.  What makes it hard is what its processes share:
files under `~/.aws` that other gac processes, the AWS CLI and SDKs, and the user's
editor also write, and an Identity Center service whose refresh tokens work once.
The models are therefore about those shared files: who reads what when, what a lock
or a re-read protects, and what is left behind when a step fails; and about the two
places where one process does several things at once, the loopback listener and the
portal's fan-out.

Contents: [1 Inventory](#1-inventory), [2 The models](#2-the-models),
[3 What the runs show](#3-what-the-runs-show), [4 Bounds](#4-bounds),
[5 Fairness](#5-fairness), [6 What is proved](#6-what-is-proved),
[7 Findings](#7-findings), [8 What is not modelled](#8-what-is-not-modelled),
[9 Plan](#9-plan).  Paths of the source are relative to `src/src/`.

## 1. Inventory

| Part | Source | State it keeps | Operations | Modelled in |
|---|---|---|---|---|
| SSO token cache | `auth/token.rs`, `auth/mod.rs` | `~/.aws/sso/cache/<sha1>.json` + `.lock` | `usable_token`, `login`, `logout` | `TokenCache` |
| File primitives | `fsx.rs` | any file; `.lock` sidecars | `write_atomic`, `FileLock::acquire`/drop, `remove_if_exists` | `FileUpdate` |
| Config file writes | `cli/context.rs` | `~/.aws/config`, `config.lock` | `write_config`; read-compute-write of the commands | `ConfigFile` |
| Managed blocks | `aws_files/managed_block.rs`, `default_block.rs` | text of the config file | `scan`, `upsert`, `append`, `without`, `find` | `ConfigText`, `ConfigWalk` |
| Commands that edit it | `cli/sync.rs`, `setup.rs`, `select.rs`, `doctor.rs`, `doctor/fix.rs` | none | new text from old | `ConfigEdits`, `ConfigWalk` |
| Sections, guards, readers | `aws_files/section.rs`, `guards.rs`, `read.rs` | text of both files | key edits, name conflicts, what a key's value is | `ConfigSection`, `ConfigText`, `RoleTargets`, `ConfigEdits` |
| Role credentials, sign-out | `auth/role.rs`, sweep in `auth/mod.rs`, `cli/logout.rs` | `~/.aws/cli/cache/*.json` | `credentials`, `sweep_role_credentials` | `RoleCredentials` |
| Portal | `portal.rs` | none (8 requests in flight) | `accounts_with_roles`, `role_credentials`, `logout` | `Listing`; the last two where they are called |
| Inventory | `inventory.rs`, `cli/context.rs` | `~/.aws/gac-redux/inventory/*.json` | `load`, `store`, `accounts` | `Listing` |
| Client registrations | `auth/registration.rs` | `~/.aws/sso/cache/<sha1>.json` | `obtain` | `SignIn` |
| Sign-in flows | `auth/pkce.rs`, `auth/device.rs`, `oauth/*` | a listener and its connections; a poll deadline | `wait_for_code`, `poll` | `SignIn` |
| Profile planning | `profiles.rs` | settings in a BEGIN line | `settings`, `plan`, `render_body` | `SyncPlan` |
| Targets, sessions | `cli/target.rs`, part of `cli/context.rs` | none | `rows`, `find`, `resolve`, `resolve_session` | `RoleTargets` |
| Reports | `cli/status.rs`, `doctor/aws.rs` | none | what they say of a block and of `[default]` | partly, in `RoleTargets` |
| State directory | `aws_files/paths.rs` | `~/.aws/gac-redux` | `migrate_legacy_state_dir` | no |
| The rest | `cli/*.rs`, `doctor/*`, `ui/*`, ... | none | see section 8 | no |

How they interact.  A command reads the two AWS files, resolves a session, asks
`usable_token` for a token and the portal for accounts or credentials, and (for
`sync`, `select`, `setup`, `doctor`) writes one new text of `~/.aws/config` through
`write_config`.  Nothing runs in the background: concurrency is between processes,
and between the tasks of one process in the loopback listener and in the portal's
fan-out.  `cli::run` races the command against Ctrl-C, which drops the command's
future at whatever `await` it is in; locks are released, requests already served are
not undone.

What makes each part correct, and the definition that says so:

* **Token cache.** One process at a time refreshes (`MutualExclusion`); what it read
  under the lock is what it replaces (`LockedReadIsCurrent`); a refresh token is presented
  once (`RefreshOnce`); a refresh never undoes a sign-out (`OnlySignInFillsEmptyCache`); a
  sign-in is asked for only when nothing cached works (`LoginRequiredIsTrue`); a call whose own requests
  are answered ends, also when the holder of the lock hangs in one (`CallsEnd`).  In one sentence: each refresh, sign-in and sign-out is one
  atomic step of `TokenLedger`.
* **File primitives.** A reader, and a restart after a power loss, finds one whole content
  somebody wrote (`FileLedger`); the lock excludes although sign-outs remove the file it
  guards (`Exclusive`); a secret is never readable by others (`SecretStaysPrivate`).
* **Config writes.** Each write is one command's edit of the text that was there
  (`ConfigLedger`); a command that waits for `config.lock` ends (`CommandsEnd`).
* **Managed blocks and edits.** A user's line stays as and where it is (`UserLinesKept`); a
  block that cannot be delimited is an error and not a guess (`ScanFindsBlocks`,
  `FindKnowsOwner`, `MarkersStayWhole`); no session is lost or doubled (`SessionsKept`), no
  name taken twice (`NoProfileShadowed`), no live block deleted (`OnlyDeadBlocksGo`), and
  writing twice is writing once (`SecondRunIsIdle`).
* **Profiles and targets.** Each account and role that the portal lists and the settings
  select gets a profile that resolves to it, and nothing else stays in the block
  (`SyncedProfilesResolve`); no command changes the role of a profile it was not asked about
  (`OthersKeepTheirRole`); what `gac select` picked is what the commands use and the reports
  say (`SelectedRoleIsUsed`).
* **Role credentials.** What a sign-out has ended stays ended (`SignedOutMeansOut`), and its
  sweep overlooks nothing older than itself (`SweepMissesNothing`); in both, what a sweep
  cannot read is left behind, and the sign-out succeeds all the same.
* **Listings.** One failure fails the listing, never a partial list (`ListingIsWhole`); at
  most eight calls at a time and none left behind (`CallsAreContained`); the cache serves no
  other sign-in and no step back (`CacheIsCurrent`).
* **Sign-in.** Only the redirect with this attempt's state ends the wait
  (`WaitEndsWithItsOwn`), and never while the browser's page is being written
  (`AnswerComesFirst`); polling keeps the
  pace it was told and stops at the deadline (`PollsArePaced`); a token is saved with the
  client it was issued to (`TokenKeepsItsClient`); every login whose requests are answered
  ends (`LoginsEnd`).

## 2. The models

Three layers.  `FileUpdate` opens up one locked or lock-free replacement of a file into
system calls and proves it atomic.  `TokenCache`, `ConfigFile`, `RoleCredentials`,
`Listing` and `SignIn` take that for granted (a save is one step, a lock is a variable)
and have the protocols of whole commands.  `TokenLedger`, `ConfigLedger` and `FileLedger`
are what the protocols promise, in a few lines each.  An action is the code between two
points where another process, the service or the clock can be observed.

* **`TokenCache`** (refines `TokenLedger`; proofs in `TokenCacheProofs`).  `file` is the
  cache file, `lock` the sidecar, `held`/`asof` what a call read last and the `now` it
  captured with it, `grant` a token that is granted and not saved.  `UseToken`, `Recheck`,
  `ServeRefresh`, `RefreshFails`, `SaveRefreshed` are `usable_token` and `refresh`;
  `SignIn`, `SaveLogin` are `login`; `Logout`, `LogoutRead`, `Revoke`, `DeleteToken` are
  `logout`.  `Examine` is the decision `usable_token` makes before the lock and again under
  it.  The service is `issued`, `spent` (refresh tokens rotated away), `revoked`.  `Faults`
  switches on lost answers, failed writes, Ctrl-C and the AWS CLI, which writes the same
  file without the lock.  `Local` and `Answer` tell the steps a process takes by itself from
  those in which the service answers it.
* **`FileUpdate`** (refines `FileLedger`; proofs in `FileUpdateProofs`).  The sidecar lock
  down to the file behind its name (`lockfile`, `handle`), the temp file with its mode and
  whether it is synced, the target, and `fallback`: the targets that the directory on disk
  may name when the power goes.  Both kinds of writers (with and without the lock) and both
  mode policies are initial states.
* The text of the config file, each module on top of the one before:
  * **`ConfigSection`** (proofs in `ConfigSectionProofs`): the lines of one section below its
    header, each a key and the words of its value, or a continuation.  `Get`, `SetKey` and
    `RemoveKey` are `Section::get`, `set`, `remove`; `Value` is what the SDKs' parser reads,
    which takes the last of several lines with one key where `Section::get` takes the first.
  * **`ConfigText`**: a text is a sequence of lines, where a section with its keys counts as
    one, and whether the last line is ended.  `Scan` and `FindDefault` are the two scanners,
    line by line as in the code, and recursive functions rather than `RECURSIVE` operators.
  * **`SyncPlan`**: `profiles.rs`.  The settings in a BEGIN line and the flags that override
    them, names from the template, selection by globs (excludes win), `Collides`, and profiles
    in both modes.
  * **`RoleTargets`**: what is read back.  `SessionFor` is `resolve_session`; `Rows` and
    `RowsNamed` find an `ACCOUNT/ROLE` among the sessions that are signed in; `RoleOf` is the
    portal, account and role a profile resolves to, by its SSO keys, gac's own
    `credential_process`, or an inline start URL; `StatusBlock`, `StatusDefault` and
    `DoctorDefault` are what the reports say of the same lines.
  * **`ConfigEdits`**: `Sync`, `Setup`, `Select`, `Clear` and `Doctor`, a new text from the old
    one and what the command was given: flags, the portal's accounts, who is signed in, the
    names in the credentials file, answers to prompts.  A `doctor --fix` is the fixes it
    planned on the text it read, applied one after another to what the last one left.
  * **`ConfigWalk`** (proofs in `ConfigWalkProofs`): one command after another on one text, with user edits in between, and
    declarative counterparts of both scanners (`WellNested`, `OneDefault`).
* **`ConfigFile`** (refines `ConfigLedger`; proofs in `ConfigFileProofs`): the same commands
  by several processes: `Load`, `Decide` (the portal and the user answer), `Acquire`,
  `Compare`, `Replace`, with an editor that may save at any time.
* **`RoleCredentials`** (proofs in `RoleCredentialsProofs`): `role::credentials` of one role
  per session (`UseToken`, `GetRoleCredentials`, `Store`) against `gac logout` of any
  sessions (`Revoke`, `Delete` one by one, then `StartSweep`, `SweepOne`, `EndSweep`).  A file the sweep reads and
  knows is deleted (`Swept`); one it cannot read is passed over (`Skipped`,
  `auth/mod.rs:320-322`), and the command reports success.  An
  AWS CLI does what a process of this module does; it may also die half way through a write
  that it makes in place (`StoreBreaks`).
* **`Listing`** (proofs in `ListingProofs`): `Context::accounts` with the inventory file that
  nothing locks, and `accounts_with_roles` with its tasks, its semaphore and its first error.
* **`SignIn`** (proofs in `SignInProofs`): `obtain` with the shared cache of registrations
  (`UseCached`, `Register`, `Cache`), the loopback wait with its connections, channel, failed
  accepts and deadline (`Listen` to `Exchange`; `Served` is a page that is written or cannot
  be, which the code does not tell apart), the polling for a device code (`Start` to
  `Ready`) with time in steps, and `Save`.

History variables (`orphaned`; `since`, `quiet`, `missed`, `out`; `floor`, `base`; `since`,
`need`; and the field `served` of an outcome) are marked as such where they are declared: no guard reads them.

`TokenCacheMC`, `ConfigFileMC`, `ConfigWalkMC`, `FileUpdateMC`, `RoleCredentialsMC` and
`ListingMC` hold the symmetry sets and the larger constants of the runs.  Definitions with
the comment "Mutant" (or "Mutated") are plausible bugs; each breaks the property named with
it in `PROJECT.json`, under the constants of the run.

## 3. What the runs show

| Run | States | Question | Properties |
|---|---|---|---|
| `TokenCacheSafety` | 1.1 M | Do parallel gac processes share one token safely while answers are lost, writes fail and processes are killed? | `TypeOK`, `LockedReadIsCurrent`, `RefreshOnce`, `LoginRequiredIsTrue`, `OnlySignInFillsEmptyCache`, `ImplementsLedger` |
| `TokenCacheLive` | 244 k | What is left of that with an AWS CLI that takes no lock? | `MutualExclusion`, `CallsEnd` |
| `TokenCacheRace` | – | Is a token the AWS CLI rotated always used as it is? (No: section 7.) | `RotatedTokenIsUsed` |
| `FileUpdates` | 50 k | Is a locked replacement atomic and durable, and does the lock exclude? | `TypeOK`, `Exclusive`, `SecretStaysPrivate`, `ImplementsLedger` |
| `ConfigEdits` | 40 k | Do the scanners find what their declarative definitions find?  What may each command do to a text a user edited, and to what other commands left? | `ScanFindsBlocks`, `FindKnowsOwner`, `UserLinesKept`, `MarkersStayWhole`, `SecondRunIsIdle`, `SessionsKept`, `NoProfileShadowed`, `OnlyDeadBlocksGo`, `SyncedProfilesResolve`, `OthersKeepTheirRole`, `SelectedRoleIsUsed` |
| `ConfigDefault` | – | Does only `gac select` write a default profile? (No.) | `DefaultHandedOver` |
| `SelectedRole` | – | Is the picked role used, whatever `[default]` says besides? (No.) | `SelectedRole` |
| `ConfigWrites` | 49 k | Is any write of two commands and an editor lost? | `TypeOK`, `MutualExclusion`, `ImplementsLedger`, `CommandsEnd` |
| `ConfigRace` | – | Not even one that falls between the check and the rename? (It is.) | `NoEditOverwritten` |
| `SignOut` | 1.3 M | What can outlive a sign-out? | `TypeOK`, `SignedOutMeansOut`, `SweepMissesNothing` |
| `Listings` | 1.1 M | Can a listing be partial, another's, or a step back? | `TypeOK`, `ListingIsWhole`, `CacheIsCurrent`, `CallsAreContained` |
| `SignIns` | 401 k | Can a login end with another's answer, or while the browser is being answered, poll too often, save a token that cannot be refreshed, or hang? | `TypeOK`, `WaitEndsWithItsOwn`, `AnswerComesFirst`, `TokenKeepsItsClient`, `PollsArePaced`, `LoginsEnd` |

Deadlock is not checked in `TokenCache*`, `ConfigEdits`, `ConfigDefault`, `SelectedRole`,
`FileUpdates` and `SignOut`: there the bounds on grants, runs, edits, writes and lock files stop a behaviour where the program goes on.

How far the sharper properties go:

* `RefreshOnce` excepts refresh tokens whose successor was lost between the service's answer
  and the save (`orphaned`): no client can do better.
* `SignedOutMeansOut` excepts sessions with a call under way when the sweep begins.  Such a
  call may store its credentials after the sweep; nothing can stop one of the AWS CLI.  It and
  `SweepMissesNothing` except what a sweep could not read (`missed`), until the file is
  removed or written anew: `gac logout` says that the sweep is done although usable credentials may be left.
* `AnswerComesFirst` is about the order.  That the browser sees its page is not promised:
  `oauth/loopback.rs:96-103` drops what `serve_connection` returns and reports the outcome
  also when the connection was lost.
* `CallsEnd` and `LoginsEnd` speak of calls whose own requests are answered (section 5).
* `CacheIsCurrent` says nothing newer than `base`, the newest listing stored before the call
  began with no other under way.  Two listings side by side may be stored in either order.
* `UserLinesKept` and `MarkersStayWhole` speak of texts in which no session's block overlaps
  the default block (`Apart`, a conjunct of each one's premise).  A text where a user moved one into the other is either
  refused or edited by line ranges that the property cannot tell apart; `MarkersStayWhole`
  also leaves out a sync that plans a profile called `default`, which is the third finding.
* `SecondRunIsIdle` and `SelectedRoleIsUsed` leave out a default block into which a user put
  other sections (`Plain`).  Those sections are part of what `default_block::find` returns as
  `[default]`: a second `--clear` finds the account and role of the next profile and takes
  them too.  `OthersKeepTheirRole` counts such a profile as given to `select` and `clear`.
* `OthersKeepTheirRole` says nothing where a session is defined in the block of another
  (`Strays`): a sync of that other session replaces its block, definition included.
* `SyncedProfilesResolve` and `OthersKeepTheirRole` compare roles by the portal, account and
  role that `RoleOf` finds, in both modes, rather than by the keys that are written.
* `SelectedRoleIsUsed` looks at every pair of values of `AWS_PROFILE` and
  `AWS_DEFAULT_PROFILE` and excepts those that `select` warns of; it also leaves out a
  `[default]` that runs gac itself, the fourth finding.
* `NoProfileShadowed` is about the two texts that the command read; a section added to the
  credentials file after that is a listed hazard without a property.

## 4. Bounds

| Bound | Value | Why it is enough |
|---|---|---|
| `Procs` | 2 (3 in `FileUpdates`) | the protocols are pairwise (a holder and a waiter, a reader and a writer); a third waits behind the removal of a lock file |
| `MaxGrants` | 3, 2 with foreign faults, 2 in `SignOut` | a sign-in, a rotation, and a rotation of what was rotated; signing in again after a sign-out |
| `Horizon`, `Lifetime`, `RefreshWindow` | 3, 2, 2 (2, 2, 2) | a token is valid, due, expired within the run; with window = lifetime each is due at once, which makes refreshes race most; `Registrations` 1 and 9 expire during and after it |
| `MaxRuns`, `MaxEdits` | 2, 1 | a command on a text that a user broke, or that another command left, or again on its own |
| `Texts`, `AnyLine` | 3 texts, 9 lines | an unended hand-written file with legacy profiles and a `[default]`, one gac wrote, and one where the session moved out of its block; an edit removes a line, or inserts one anywhere: a stray marker, a second definition, a name that is taken, keys with a continuation |
| `Everyday` | 12 commands | both modes, each kind of setting, `--reset`; an account renamed and a role no longer assigned between `Portal1` and `Portal2`, two accounts that fold to one name; a session signed out |
| `OnlyRead` | `MarkerTexts` | the scanners on every text of one to four marker and header lines: two whole blocks in a row, nested, crossed, doubled, unclosed |
| `MCInitial`, `MCCommands` | 1 text, 3 commands | each of `sync`, `select` and `doctor` edits another part of it |
| `MaxWrites`, `MaxOpens` | 2, 2 | a content and its successor; a lock file and the one made after a power loss |
| `Accounts`, `FanOut`, `MaxVersion` | 2, 1, 2 | a task that must wait; an assignment that changes under the listing |
| `Ports`, `Conns`, `MaxAttempts`, `MaxClients` | 1, 1, 2, 2 | the second login gets the port of the first; one connection is enough for a request of another login's, or none at all, to reach a wait, and the safety theorems hold for any number of them |
| `Intervals`, `Lifetimes`, `SlowDownStep`, `PkceTimeout` | {0,1}, {4}, 1, 1 | 0 stands for an interval the service did not send; a poll comes after a slow_down, at the longer pace, and the next one does not fit before the deadline |

`Legacy` is empty in `SignIns`: a session from a profile with an inline start URL has the
device-code half of the behaviours of a named one.  The proofs hold for all values.

## 5. Fairness

* `TokenCache`: weak fairness of `Local(p)`, the steps a process takes by itself once its
  call has begun.  The lock is polled until a deadline (`LockTimeout`), so nobody waits for its
  holder for ever.  The service's answers (`Answer`) get no fairness: `sdk.rs:11-19` sets
  retries and no timeout of an operation or of a read, so a service that accepts a request and
  never answers it keeps the caller, and the lock if it is a refresh.  `CallsEnd` therefore has
  the answers to the process's own requests as its premise (`WF_vars(Answer(p))`), and no other
  process's: a call ends by a login, a token, an error or the lock's timeout while another one
  holds the lock in a request that hangs.  Crashes, disk errors, new calls, the clock and the
  AWS CLI get none.
* `ConfigFile`: weak fairness of the steps after the prompts: the lock attempt or its
  timeout, the comparison, the rename or its failure.  `Decide` gets none: the portal and the user owe no
  answer, and `CommandsEnd` does not speak of a command that is `working`.
* `SignIn`: weak fairness of `Local(p)` and of `Tick(p)` (time passes), and strong fairness
  of `Deadline(p)`: the loop's `select!` draws among the branches that are ready, so a
  deadline that is ready again and again is taken at some time, although every accept in
  between makes it compete anew.  Browsers, connections and accepts get none: `LoginsEnd`
  holds for connections that never send a request.  The service's answers get none here
  either, and `LoginsEnd` has those to the login's own requests as its premise: registration,
  start, exchange and each poll have no timeout, and the deadline of `poll`
  (`oauth/device_poll.rs`) is looked at between two attempts and not around one.
* The other specifications have no liveness property and no fairness.

## 6. What is proved

`tlapm` checks every theorem to the last leaf, for any set of processes and sessions and any
value of the bounds.  The only assumptions are those named in the modules: `None`, `Nobody` and
`Garbled` are outside the sets they are added to, `Sessions` is finite, bounds are naturals,
commands and texts are what the modules say they are (`CommandAssumption`,
`TextAssumption`), and `Continued`, which stands for the indentation of a continuation line,
is none of the keys gac writes (`KeyAssumption`).

| Module | Theorems | Invariant it rests on |
|---|---|---|
| `TokenCacheProofs` | `TypeCorrect`, `Exclusive`; without the AWS CLI (`NoForeign`): `ReadsStayCurrent`, `RefreshesOnce`, `OnlySignInFills`, `AsksTruthfully`, `RefinesLedger` | `TypeInv /\ MutualExclusion /\ SoleInv` |
| `ConfigSectionProofs` | of `Section::get`: `SetIsRead`, `SetKeepsOthers`, `RemoveKeepsOthers`, `RemoveDropsKey`; of what the SDKs read: `SetIsValue`, `SetKeepsValues`, `RemoveKeepsValues`; of the lines themselves: `SetKeepsLines`, `RemoveKeepsLines` | none: lemmas about the operators, for any lines |
| `ConfigWalkProofs` | `TypeCorrect`, `BlocksFound`, `DefaultFound`, `MarkersKept`, `BlocksKept`, `SessionsStay`, `UserLinesStay`, `NamesTakenOnce` | `TypeInvariant`: the file is a sequence of lines |
| `ConfigFileProofs` | `Invariant`, `Exclusive`; without a save between check and rename (`~EditorRaces`): `WritersAreCurrent`, `RefinesLedger` | `ProtocolTyped /\ MutualExclusion /\ UpdateIsOwn` |
| `FileUpdateProofs` | `Typed`, `LockExcludes`, `SecretsArePrivate`, `RefinesLedger` | `LockInv`, `DiskInv`, `PrivacyInv`, each with `TypeOK` |
| `RoleCredentialsProofs` | `Typed`, `SignOutHolds`, `SweepIsWhole` | `TypeOK /\ QuietInv /\ SignedOutMeansOut` |
| `ListingProofs` | `Typed`, `ListingsWhole`, `CacheCurrent`, `CallsContained` | `TypeOK /\ WholeInv /\ PermitInv /\ OrderInv` |
| `SignInProofs` | `Typed`, `OwnAnswer`, `AnswersFirst`, `ClientKept`, `Paces` | `TypeOK`, `Bound`, `Heard` and `Paced` of each process, `Registered`, `TokenKeepsItsClient` |

Why the properties alone are not inductive, and what was added:

* **Token cache.** `RefreshOnce` speaks of a process about to refresh; that the token it holds
  is not spent follows from the cached one not being spent (`CachedLive`), which in turn needs
  that a grant still to be saved is not (`UnsavedLive`), that a sign-in's is new (`LoginFresh`)
  and that a refresh's grant follows from what was read (`GrantFollows`).  With the AWS CLI
  none of this holds, which is the first finding; mutual exclusion and types still do.
* **Config file.** `UpdateIsOwn`: what a process is about to write is the outcome of one of
  the commands on what it read.  `Outcome` stays opaque: the proof is about the protocol and
  holds for any edits.
* **Sections.** Both edits are described by where each line comes from (`SetInPlace`,
  `SetInserted`, `RemovedLines`); `SameAnswer` says that two sections answer alike for a key if
  one embeds in the other in order and covers all lines that have it.  `LastValue` says
  which lines are the last value of a key: the SDKs read the same of two sections that have
  the same lines there.  `SetIsValue` has the premises under which it is true: `set` changes
  the first line of a key, and the SDKs read the last and what continues it.  `KeysBut` is
  the lines of the values of all keys but some, in order; both edits leave it alone if the
  key is one of those.  Either edit replaces `m` lines by `n` at one place and, undone,
  it is such an edit again (`EditUndone`), so it is enough that the lines of the other values
  are still such lines after one (`OwnStay`).
* **File update.** `LockInv`: while anyone uses the lock its name leads to the file they
  opened, since a sign-out removes the token and not the lock file.  `DiskInv`: what the
  directory on disk may name is whole and synced.  `PrivacyInv`: what it may name, and every temp
  file, is private if gac wrote it.
* **Role credentials.** `QuietInv`: the sessions a sign-out has deleted so far have no
  token, and once it sweeps, no call under way, and no entry it will not come to but one that
  was passed over (`Stray` leaves those out).
* **Listing.** `WholeInv` follows an answer from its task to its account; `PermitInv` counts
  permits against running tasks (with cardinalities of finite index sets); `OrderInv` orders
  `floor`, `base`, what is stored and what is about to be.
* **Sign-in.** `Bound`: from registration to save a login has one client, registered for its
  key, and its request was made with it.  `Heard`: what is on any connection or in the channel
  is of the process's own request, and one that is reported was served (`Reportable`).  `Paced`:
  `wait + since >= need` while asleep.

* **The text of the config file.**  `scan` and `find` fold over the lines, which no prover can
  unfold; `ScanReads` and `FindReads` name what they have after each line, and an induction
  over the number of lines (`UpTo`) shows that `scan` then `Knows` the blocks up to there and
  `find` the default block, or that no text that begins like this is in order.  That is
  `BlocksFound` and `DefaultFound`: both scanners are right about every text whatever, so the
  type is the only invariant they need.  An edit is told by `Swaps`: lines `p` to `q` of the
  old text give way to `n` new ones, and the others keep their kind and name.  If the old
  lines and the new ones have their marks in pairs (`Fits`, `Balanced`), blocks stay well
  nested and unique; if neither has a mark of the default block, `[default]` stays written
  once and apart (`StaysOneDefault`, `StaysApart`).  Each command is shown to be such an edit,
  `select` and `doctor` several of them; for `doctor` an induction over its fixes carries that
  the blocks it is still to remove are of sessions that are gone, and the sessions it is still
  to add have names that are free.  `MarkersKept` needs all three of `WellNested`, `OneDefault`
  and `AreApart` (`InOrder`) before a command to have the second after it: a synced block that
  overlaps the default one would take a mark of it along.
* **The sessions of the config file.**  Here `Swaps` also carries, of each line that stays and
  defines a session, the portal the line gives (`SamePortal`).  So the definitions of a session
  in the new text map into those in the old one, one to one and with their portals
  (`KeepsSession`), when none of the new lines defines it; counting them (`KeptMeans`) is then
  one injection.  Where gac writes a definition, in the synced block or in a new one, there was
  none outside the replaced lines, so it is the only one (`OneNew`), with the portal it was
  given (`WrittenPortal`).  That a session at home stays so (`HomeStays`) matters for `doctor`
  only, whose fixes follow one another: a block that is removed may hold a definition of
  another session, never one that is at home.  `FixedSession` is what holds between two fixes;
  that no two new sessions have one name comes from `NewSessions`.
* **The user's lines.**  `UserLinesStay` compares sequences: the lines outside gac's blocks,
  in order, before and after.  `UserSwap` and `UserAppend` turn a `Swaps` into that: the places
  that are the user's are those before `p` and after `q`, moved by the same distance, and each
  shows what it did (`Spares`).  For that a line must stay the user's, or gac's, when blocks
  and the default block are found again in the new text (`InGacStays`), which is where the
  premise `Apart` is needed.  At most one blank line comes with a block whose session had none
  before, so counting blank lines is counting new blocks (`FewWhen`, `NewName`).  `Owners` goes
  along with `doctor`: no session becomes the user's, so one whose scopes are added without
  asking was gac's when the fixes were planned and is when they are applied (`ScopesUser`).
  `FixedUser` is what holds between two fixes: no more blank lines than `FirstBlocks`.  For
  `select` and `clear` the same proof runs over the edits of `[default]`, each of which leaves
  `KeysBut` the picking keys alone (`PickedSame`, `UnpickedSame`, `RewritesOwn`).
* **The names a sync takes.**  `NamesTakenOnce` proves the first half of `NoProfileShadowed`,
  `TakesNoName`: a profile in the block that a sync wrote has a name that no profile section
  outside it has.  `SyncWrites` says what is written: profiles whose names are not in the text without the
  session's block.  Every line that stays is a line of that text (`OutsideNames`), and
  the block that is found again in the new text is the one that was put there (`PutIsBlock`),
  so the names inside and those outside have none in common (`BlockNamesAlone`).

Each proof has a lemma per action or group of alike actions that the invariant survives it,
one lemma for what no step of another process touches (`Frame`, `Others`), and a temporal step
at the end.

Only model-checked, and why:

* Liveness (`CallsEnd`, `CommandsEnd`, `LoginsEnd`): fairness is beyond the provers.
* The second half of `NoProfileShadowed` (no keys of the credentials file are hidden),
  `SecondRunIsIdle`, `SyncedProfilesResolve`, `OthersKeepTheirRole` and `SelectedRoleIsUsed`:
  they compare what two commands, or a command and the readers, make of a text, and so need
  the exact outcome of a command, where `Swaps`, `Spares` and `KeysBut` say what it leaves
  alone.  Two of them hold of the texts of the run and not of every text:
  `SelectedRoleIsUsed` needs a `[default]` in which no role name is continued on a second line
  (`Section::set` replaces the first line only), and `NoProfileShadowed` a synced block in
  which nobody emptied a `[profile default]`, whose removal lets the SDKs see `[default]` again.
* `ConfigFile.TypeOK`: that names made by the template are strings again, since the provers
  know nothing of strings put together.  `TypeCorrect` is about the shape of a text alone.
* What holds under `EditorRaces`, or with foreign writes beyond exclusion.

## 7. Findings

1. **`RotatedTokenIsUsed`** (`TokenCacheRace`).  `auth/mod.rs:193-194` promises that a token
   the AWS CLI already rotated is used as it is.  When it rotates and saves after gac's re-read
   under the lock, and the old access token has expired, gac reports that a login is required
   although the live token is in the cache; a third look at the file would find it.
2. **`NoEditOverwritten`** (`ConfigRace`).  `cli/context.rs:87-88` says that a concurrent
   edit is never overwritten; one that is saved between the comparison and the rename is.
   The window is short, and no lock that editors would take exists.
3. **`DefaultHandedOver`** (`ConfigDefault`).  `aws_files/default_block.rs:1-2` says that gac
   writes the default profile only once the user has handed it over; a sync whose template
   yields `default` writes `[profile default]`, which `gac select` then refuses to read.
4. **`SelectedRole`** (`SelectedRole`).  `gac select --adopt` on a `[default]` whose
   `credential_process` is gac's own leaves that line there and adds the SSO keys.
   `target::resolve` (`cli/target.rs:102`) looks at `credential_process` first, so `gac exec`
   and `gac env` keep the old role, after `gac select --clear` too.  The repository's README
   says that `select` picks the account and role of `[default]` (line 83) and that after
   `--clear` a command cannot land in the wrong account (lines 117-118).

## 8. What is not modelled

* Characters: how a name is folded for a profile name, what a glob matches and how a value is
  escaped in a BEGIN line are given by the constants `Folded` and `Matched`, or left out; so is
  the padding that `Section::align` makes.  The SDK's parser (`read.rs` calls it) is external
  and modelled by the lines it reads.
* The dry run of `sync`, what `list`, `env` and `exec` print or pass on, `--profile` in
  `resolve_session`, and the reports of `status` and `doctor` beyond a session's block and
  `[default]`.
* The wording of name conflicts, and the modes of files that `doctor` reports and repairs;
  the credentials file is the set of the names in it that have keys.
* Symlinked targets and directory modes in `fsx.rs`, and the Windows retries of `persist`.
* The migration of `~/.aws/gac`, generated man pages and completions, prompts, the browser,
  logging, redaction, botocore's JSON layout, random verifiers and their hashes: no shared
  state beyond one rename, or no state at all.
* Clocks: each module has the little time it needs (ticks, one Boolean, a counter per
  process); a clock that is set back is only in `Listing`.

## 9. Plan

Done: the core in the order of risk: token cache, config writes, the text edits, file
primitives, role credentials and sign-out, listings, sign-in; then profiles and their settings,
targets, and the keys of a section.  Each has its proofs; of the text edits, those of both
scanners, of the markers, of the blocks, of the sessions, of the user's lines and of the names
a sync takes.

Next, in this order:

1. Proofs about what a command writes: a second sync writes the same (`SecondRunIsIdle`);
   mutual exclusion of the locked saves of `SignIn` by instance of `TokenCache`'s lock.
2. The rest of `doctor`: modes, mixed credentials, and that a fix removes its finding.
3. Composition: `TokenCache` as the token of `RoleCredentials` and `Listing`, by refinement of
   what they assume of it.

The run list is kept to twelve questions; new models are to join an existing run where they
extend its module, or take the place of one.
