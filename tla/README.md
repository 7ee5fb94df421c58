# A verification of bb

`bb` is a command line client, and an MCP server, for Bitbucket Data Center
(`src/`, a Go program of about 1,200 files). This directory holds TLA+ models of
the parts of it whose correctness depends on order, failure or overlap, the TLC
configurations that check them on small instances, and proofs, checked by
TLAPS, that their most important properties hold for every value of the
constants.

```
tlc -workers 2 -config Download_whole.cfg MCDownload     # one run
tlapm DownloadProofs.tla                                 # one module's proofs
```

Contents: [components](#components) · [modules](#modules) ·
[confirmation](#1-mcpconfirmation) · [credential store](#2-credentialstore) ·
[HTTP exchange](#3-httpexchange-and-requestpromise) ·
[download](#4-download-and-delivery) · [update](#5-update-and-semver) ·
[pull request writes](#6-pullrequestwrite) · [startup file](#7-startupfile) ·
[runs](#the-runs) ·
[disagreements](#where-code-and-documentation-disagree) ·
[proofs](#what-is-proved) · [limits](#what-is-not-modelled) · [what is left](#what-is-left)

## Components

`PROJECT.json` lists every component with its files and whether it is modelled.
The ones that keep state or coordinate anything:

| component | state | operations | talks to | what is hard | what makes it correct |
|---|---|---|---|---|---|
| MCP confirmation and audit (`internal/mcp/confirm.go`, `asks.go`, `middleware.go`, `audit.go`) | a signing key per process, the nonces of answered questions under a mutex, the audit sink | receive a tool call, ask, seal, open, consume, run, record | the MCP client (several calls at once), Bitbucket, the audit file | two answers to one question, its expiry between two lock regions, a push between question and merge, a restart, a sink that fails after the deed | one question is answered once; only what was asked runs, at the version shown; the record says what was done |
| Credential store (`internal/config/config.go`) | configuration files, the OS keyring all of them share | login, logout, aliases, default host, credential lookup | other `bb` processes through files and keyring; no lock | lost updates, partial failures, entries of three generations in one keyring, kills between keyring and file | a command acts on a secret of its own file and host; the last login answers; a logout forgets; nothing goes out in the clear |
| API transports (`internal/transport/{httpclient,outcome,retrypolicy}`, `internal/openapi`) | attempt number, whether anything was written, the answer | send, retry, classify, decode, wait, interrupt | Bitbucket and gateways, over connections that fail | lost answers, late copies, retries of what was done, a body cut after its status | a mutation lands at most once, and the kind reported says whether it may have |
| Downloads (`internal/transport/download`) | bytes held, length, validator, attempts, temporary file | attempt, resume, start over, stall, commit, discard | a server whose body changes, a pipe, a file system | resuming into another body, starting over what was already written out, a short body | what arrives is one body; a file is replaced only by a whole one |
| Self-update (`internal/workflows/update`) | the installed binary, the one set aside, leftovers | verify, install over, install aside, clean up | other `bb` processes, the release mirror | a crash or a loss of power between two renames, a cleaner deleting what may be moved back | there is always a binary; only what was verified, and is newer, is installed |
| Pull request writes (`internal/services/pullrequest`) | the pull request read, the attempt, copies on their way | read, write at the version, retry once when stale, read back | Bitbucket, other people, late copies of its own | a version moving twice, a retry of its own success | a change lands on what was read, drops nobody's review, and lands once |
| Git runs (`internal/git/execgit`) | the child process, its progress | start, watch, stop | git and its helpers | a helper that outlives git, a timeout as git ends | the outcome reported is the one that happened |
| Completion setup (`internal/completionsetup`) | a shell's startup file, shared or bb's own | install and remove a block, create, rewrite in place, put back, delete | the person, other programs and other `bb` processes that write the file | a write that fails part way and may not be undone, a text torn by a kill, two installs at once | a run leaves what it set out to or what was there; the lines that are not bb's are kept |
| Completion deadlines (`internal/cli/completion`, `internal/services/listing`) | goroutines under a deadline | list, abandon, join | Bitbucket | little: each goroutine sends once, to a channel with room for it | nothing blocks |
| Scope, views, dry run, redaction, configuration layers, commands | none, or caches | pure decisions, rendering | - | little: table tests reach them | - |

A call goes down this list: a command or an MCP tool finds its credentials in
the store, sends its requests over one of the two transports, which classify
what happened, and downloads through the transport of its own. The MCP server
puts its confirmation and audit around the tool. Files, the keyring and the pull requests themselves are the
only things two processes share; the nonces, the sink and view caches the only
things two goroutines do.

## Modules

| module | what it is |
|---|---|
| `McpConfirmation` | tool calls through gate, question, answer, handler and record |
| `CredentialStore` | processes that log in and out through files and one keyring |
| `RequestPromise` | what one mutating request promises, apart from how it is sent |
| `HttpExchange` | one request through either transport; implements `RequestPromise` |
| `Delivery` | what one download promises |
| `Download` | one download with its retries and its file; implements `Delivery` |
| `SemVer` | how `bb update` orders two versions, as operators |
| `Update` | runs of `bb` that share, update and sweep one installed binary |
| `PullRequestWrite` | commands that change one pull request; implements `RequestPromise` for its POSTs |
| `StartupFile` | runs that set completion up in, or take it out of, one file |
| `MC*` | values of the constants for TLC |
| `*Proofs` | theorems about the module of that name |

Every action is named for the function, or the step of one, that it models and
covers all the state that function changes up to the next point at which
another goroutine, process or machine can act: taking a lock, a keyring call, a
rename, a request, a wait. `PROJECT.json` gives the lines of each definition.
A definition that precedes another and is named for a mistake
(`SameTool`, `RetriableAnyway`, `StartsAnywhere`, ...) is that one with a
plausible bug in it; it is used by no specification, and exists so that one can
see which property notices.

### 1. McpConfirmation

A client sends calls, each a request with or without a sealed state and an
answer. `Receive` is the governance middleware up to `confirmed`; `TurnDown`,
`RunUnasked`, `CannotAsk`, `AnswerWithoutQuestion`, `StartAsking` are the exits of
`confirmed`; `ReadPullRequest`, `DescribeFromArguments`, `AskFails` and `Seal` ask;
`Open*` is `confirmationSeal.open`, and `Consume*` its `consume`, each
atomic under the mutex and separate from the other as in the code; `RunHandler`
is the tool, with the version check Bitbucket makes for a merge; `AuditRecord`,
`WriteAudit` and `AuditFails` the record and what `--audit-failure` makes of one that
cannot be written. `Tick`, `Push` and `Restart` are the clock, somebody's push, and
the server's own end and new key. A nonce is random, so it is named by the call
that sealed it; a forged or foreign state opens nothing, which is what the
MAC and the per-process key are for. Times are the two the code compares: the
expiry in seconds, and the clock.

Why it is hard: `open` reads the expiry and releases the mutex; `consume` takes
it again, forgets nonces that have expired, and marks this one. Between the two
anything may happen. `AnsweredOnceOnTime` and `RerunWasInFlight` say together
exactly how far the code's protection goes: while a question lives it is
answered once, and the only second run is of a call that was already open when
the first was answered and consumed its state after the expiry. `confirm_race`
shows that second run.

### 2. CredentialStore

Every command is a process with a program counter. It loads the file
(`upgraded` when it is older than per-file keys), computes the copy it wants,
sets or deletes keyring entries one at a time, writes the copy beside the file
and renames it. A secret is named by the login that stored it, so that a
property can say whose secret a command acts on. `holds` is history: whose login
the file last completed.

In `store_alone` the commands of one file follow one another, while those of two
files overlap in the keyring, and any can fail to save or be killed: what a user
would expect of logins and logouts. `store_shared` lets everything overlap and
fail, and asks only for what must hold even so. `store_relogin` takes one
sentence of a test that a sequence of two logins breaks.

### 3. HttpExchange and RequestPromise

`RequestPromise` is what a caller may rely on for a request that is never
replayed (POST, PATCH): copies are sent while nothing was told, at most one
lands, *ok* means one landed, and a kind that says it was not done (*refused*,
*transient*, *permanent*, *cancelled*) means none did or ever will. Only
*unknown_outcome* leaves it open. The code makes two exceptions, and the promise
names both. An answer whose body could not be used (`garbled`) is judged by a status
whose meaning the body would have settled, so a request that was carried out may end as
one that was not. And a 2xx whose body is no use and that nobody reads (`unread`) is success
whoever sent it, so a request that nobody carried out may end as *ok*.

`HttpExchange` is the request: `Send`, `NotSent`, `AnswerLost`, `AnswerArrives`,
then `DoRequest` (httpclient) or `Unreadable400`, `RoundTripFails`,
`RoundTripAgain` and `Do` (the generated client's transport and the doer above it),
`SendAgain`, `WaitStopped`, and the environment's `Interrupt`, `Timeout` and
`Settle`: a copy that was sent takes effect, or never will, at any time, also after
bb gave up on it. What the answers can be is read off the copy: a 429, a 503 or
a refusal says that it was not processed, a 500 or a gateway's timeout says nothing.
A 2xx may answer a copy that nobody carries out: a login page behind SSO (`odd`) or an
empty body. What follows depends on the caller, which `expects` a payload or does not, from the
start of the behaviour. `doJSON` decodes nothing where its caller asked for nothing or the body is
empty (`client.go:199`), `DoRequest` hands on any 2xx (`client.go:302`), and a service over the generated client
that returns no payload looks at the status alone (`Watch`, `service.go:1736`); everywhere else such a
body is an error (`Undecodable`). Assumed: what answers in Bitbucket's place is no JSON of
the documented type. One that is could not be told from Bitbucket's own.
The two transports differ where the code does: httpclient tracks one Exchange per
attempt, the generated client one for all of them.

### 4. Download and Delivery

`Delivery` is what ADR-093 promises: what is held is always the beginning of one
body and never over the limit; it starts over only where the destination can
take it back; a file is replaced, and success told, only for a body that is
complete -- as far as anybody told how long it is.

`Download` is `transfer.run`: `Whole`, `Part`, `PartUnasked`, `RangeNotSatisfiable` and
`Unanswered` are the answers an attempt can get (`accept`, `refused`, the client's
failures), `Copy` moves one byte, `BreakOff` is everything that cuts a body, in one step and
whatever the reason, `End` the length check, `Retry` and `GiveUp` the
loop, and `CreateFile`, `Sync`, `Rename` and `Discard` the file. `Change` replaces the
server's body at any time. The bytes are named by body and place, so that a
splice of two bodies is visible. A destination is memory, a stream, a device,
or a file with its temporary one.

Assumptions, all external: a strong validator names one body and the server
honours `If-Range`. One that does not is included as far as the code can tell,
by another length in the `Content-Range`. A `Last-Modified` date shared by two
bodies of one length, written within one second, would be resumed across; nothing
in the code could see it. A body that ends with its connection, or whose ranges
carry `*` for a length, is whole as far as anybody can tell: `Unmeasured`.

### 5. Update and SemVer

The state is a directory: each file is known by who wrote it, the binary that was
installed first or the run that wrote it, and has a place (the target's name, a
temporary name, a name it was set aside under, or gone) and a content, which is a version,
nothing, or an archive that is no release. `synced` and `durable` say what of that is on the disk.
A run of `bb` starts from the file that has the target's name; `ListLeftovers` and
`RemoveLeftover` are the sweep every start does in a goroutine of its own
(`RemoveUpdateLeftovers`); `Latest`, `VerifyRelease` and `RunFails` are `Runner.Run` up to the
install, with `isUpdateAvailable` and SemVer's order as in `runner.go`; `CreateTemp` and
`WriteBeside` write the new binary; `RenameOver` and `SyncDir` put it in place where a rename
replaces, and `SetAside`, `MoveIn`, `MoveBack` where it does not (Windows, which also neither
deletes nor replaces a file a process runs from: `RunFrom`); `Discard` takes the new file away.
`Kill` and, off Windows, `PowerLoss` strike at any step: an unsynced file is empty afterwards, and an
unsynced rename may not have happened.

Why it is hard: on Windows the target has no file between two renames, and the file that may have
to be moved back has a name that any other starting `bb` sweeps away -- which only the
system's refusal to delete a running file prevents, and only while a process runs from it.
`AlwaysABinary` says that a whole binary is left even so.

`SemVer` is operators without state. They are proved about rather than compared with a
reference: `UpdateProofs` derives SemVer's sections 11.1 to 11.4 from them, as far as
`AppliesANewerRelease` needs.

### 6. PullRequestWrite

A command (`update`, `ready`/`draft`, `decline`, `reopen`, `merge`, `rebase`, adding and
removing a reviewer) reads the pull request, unless its caller asserts a version, writes at what
it read, and when that is refused as out of date reads and writes once more. `Send` puts a copy on its
way; `Land` and `Refuse` are Bitbucket, at any time after, also after bb gave up on the copy;
`AnswerLost`, `Throttled`, `BreakOff`, `Unusable`, `Succeed`, `Retry` and `Conflict` are what the answer, or its
absence, comes to. What is sent again when its answer is lost is what `retrypolicy` says (PUT and DELETE).
`RefuseClosed` and `Unchanged` are the ways `SetDraft` ends without a write, and `ReadBack` how a
reviewer's change finds out what it left. An answer is also `unread`: a 2xx that stands for no change, which is what
Bitbucket answers to a rebase with nothing to do (204), a gateway with an empty body, or a login page to the
removal of a reviewer, whose answer is not decoded; the command takes it for success and returns nothing,
or, for a reviewer, what it reads back or works out (`Confirmed`). `SomebodyElse` changes the pull request in any way, any time.
External: that every change bumps the version, that a change at another version is refused, and which
states allow which change.

Why it is hard: the version is checked at the write and read long before, so a change decided on one
state of the pull request must not land on another, and its list of reviewers, which a PUT replaces, is a copy
that ages. `LandsOnWhatWasRead` and `ReviewersKept` are about the state at the moment of landing.
`KeepThePromise` carries `RequestPromise`, its exceptions included, across both writes of a POST; `RepeatsOnlyTheUnheard` says how far
the promise fails for what is sent again, and `pr_replay` shows that it does.

### 7. StartupFile

A text is a sequence of words: ends of line, the lines of bb's block, and lines of others, one
word each. `Start` is `Install` or `Remove`; `FindNone`, `FindOther`, `FindSo` and `FindWork` are what reading
the file comes to, in `installBlock`, `removeBlock`, `installFile` or `removeFile`; `Create`, `Fill` and `Uncreate`
are `createFile`; `Open`, `WriteAt`, `Truncate`, `PutBack` and `CutBack` are the calls of `rewriteFile`, each of which can
fail, a write after any part of it. So can `Uncreate`, which takes a file out again that could not be filled: the code does not
look at that error (`files.go:485`), and the run ends, in `left`, with the start of the file in place. `Delete` removes the file. `SaySomething` is anybody else who adds a line,
and `Kill` strikes at any step. `findBlock`, `markerLine`, `appendBlock` and the rest are the operators before them, on
offsets as in the code. A file is known by who made it, so that a handle that outlives its file writes to a
file nobody sees.

Why it is hard: the file is rewritten in place, so that a failure leaves a mixture of two texts
that has to be turned back into one of them, and every later run reads whatever mixture a kill left.
`WholeOrAsItWas` therefore tells three ends apart: what was wanted, what was there, and, only in `left`, a beginning
of what was wanted where there had been no file.
`KeepsTheRest` is about any text such a history can produce; the exception is a block that somebody's
line has got into, which goes with the block.

## The runs

| run | instance | shows |
|---|---|---|
| `confirm_once` | 3 calls about one tag; expiry after 1 of 2 ticks, one restart; fairly scheduled | `AnsweredOnceOnTime`, `RerunWasInFlight`, `CallsEnd` |
| `confirm_gates` | 2 calls, every request, gate, client, era and answer; pushes; a failing sink | `RunsOnlyWhatWasAsked`, `MergedAsShown`, `RecordMatchesDeed`, `ServedIsRecorded` |
| `confirm_race` | 3 calls about one tag | `NonceUsedOnce` is violated |
| `store_alone` | 4 commands, one at a time on each of two files, with kills and failing saves | `LastLoginAnswers`, `LogoutForgets`, `AddingKeeps` |
| `store_shared` | 3 commands of any kind that overlap, with kills, failing saves and every keyring fault | `FilesAreSound`, `ActsOnItsOwn`, `NeverInTheClear`, `KeyringRequired` |
| `store_relogin` | 3 logins to one host, a keyring that may refuse any of them | `LastLoginAnswers` is violated |
| `http_answers` | PUT and POST, both transports, 3 attempts, every answer and body | `KeepsThePromise`, `IdempotentIsSentAgain`, `RequestEnds` |
| `download_whole` | 3 bodies of 3, 3 and 2 bytes, 3 attempts, 4 destinations, limit 2 or none | `DeliversOneBody`, `ResumesWhatItHolds`, `LeavesNothingBehind`, `DownloadEnds` |
| `update_install` | 2 updates and a dry run over one binary, 2 installed versions, 2 releases, both systems | `AlwaysABinary`, `FailureUndoesItself`, `AppliesANewerRelease` |
| `pr_write` | 1 command of each kind, 2 reviewers, 2 writes of 2 attempts, everybody else up to version 3 | `LandsOnWhatWasRead`, `ReviewersKept`, `DraftToldOfOpen`, `RepeatsOnlyTheUnheard`, `KeepThePromise` |
| `pr_replay` | 1 update, 2 attempts | `RetryIsSafe` is violated |
| `startup_file` | 2 runs over each kind of file, 12 first texts or none, one line of somebody else's | `WholeOrAsItWas`, `KeepsTheRest`, `ComesBack`, `SetUpOnce` |

Each passing run also checks its module's type invariant where the module's
first run does (`confirm_once`, `store_shared`, `http_answers`, `download_whole`, `update_install`, `pr_write`,
`startup_file`).

**Bounds.** A question takes one call and a race two answers, so three calls are
enough for every conflict about one question, and the fourth would repeat one; the
gates do not depend on a third call, so two are enough there. `TTL`, `MaxClock`,
`MaxKey` and `MaxVersion` leave one instant before, at and after the expiry, one restart and
one push. Two files and one host with its plain-http self are the smallest store in which
an entry can belong to the wrong file or the wrong scheme; four commands are
login, login over it, another file's command, and a logout or a reader. Two retries give a
first, a middle and a last attempt; PUT stands for the methods the policy replays
and POST for those it does not; of each there is a caller that reads the answer and one that does not. Two bodies of one length and one shorter
are what a length can and cannot tell apart; three bytes give a first, a middle
and a last one, and a limit of 2 falls inside one body and at the end of the
other. Two updates and a third starting `bb` are what it takes for a sweep to
come between two renames of one update while the other holds the file open; the
prereleases are those whose order is not the alphabet's. `update_install` never gives the
signature up (`Policies = {FALSE}`); unverified updates are in the proofs. In
`pr_write` one command is enough because `SomebodyElse` may do whatever another command
could; `MaxVersion = 3` lets the version move before each of the two reads and writes, and the proofs
are for any number of commands. The first texts of `startup_file` are the ones `findBlock` and
`appendBlock` tell apart: empty, blank, with and without a last end of line, with a current, old, short, torn or
mistaken block, and bb's own file, current, old and of an earlier kind. The proofs carry the invariants they cover past all of these bounds.

**Deadlock.** Deadlock checking is off where the processes are commands, requests or
downloads that simply end; it is on for the confirmation runs, where only a state in
which every call has ended may stop (`Terminated`).

**Fairness.** `confirm_once` assumes weak fairness of each call's goroutine in the
server, which the Go scheduler gives it, and of nothing outside: a person need not
answer, a client need not send. `http_answers` assumes it of the client's own
steps as a whole: each wait is under the configured request timeout, so some step of it is
always taken, an answer or not. `download_whole` assumes the same of the
downloader, for a positive `Options.Timeout` (zero waits for ever, as
documented); it bounds each wait, not the download, so that a body without end
would be downloaded without end. Nothing is assumed of Bitbucket, the network, the
clock or other processes.

## Where code and documentation disagree

Each of these is a run whose counterexample TLC prints.

* `confirm_race` (`confirm.go:395`): the second run described above; the comment at
  `confirm.go:375` says a nonce is never forgotten while its state can still be
  accepted.
* `store_relogin` (`config.go:2154`): a token left in the keyring outranks the plaintext secret
  of a later login the keyring refused.
* `pr_replay` (`version.go:27`): a PUT whose answer is lost is sent again at the version its first attempt
  already moved; `retryOnceWhenStale` takes the 409 for somebody else's change, reads again and writes the
  change a second time, over what happened in between. The comment says a stale 409 applied nothing, which is true of the request
  that was refused and not of the one before it.

Found with the same models, and not kept as runs of their own:

* Logging out of a host a file never stored, or logging out twice, deletes the host-only keyring entry that
  another configuration file still reads (`config.go:1167`); ADR-047 says that "logout removes it only for the
  file that was using it".
* A command that reads its file's two keyring entries while a login replaces one kind by the other finds
  neither and falls through to the host-only entry, which may be another file's (`config.go:3085`).
* A mutation that was applied, with a 2xx whose body does not decode, is reported transient
  (`domain/errors/errors.go:87`); ADR-011 forbids that.
* A mutation whose caller reads no payload is reported done for any 2xx whose body arrives, a login page's included, though nothing
  may have landed (`client.go:199`, `client.go:302`, `service.go:1736`); ADR-011 says that a "2xx settles nothing, because
  behind SSO or a proxy a login page can answer 200 to a write nobody authenticated" (line 14), and draws the
  conclusion for a body that was lost only. `KeepsThePromise` holds because `RequestPromise` names the case (`unread`).
* When a new startup file cannot be filled and cannot be removed either, its beginning stays under the same error as if it had
  gone (`files.go:485`); the comment at `files.go:466` says that "a failure part way through takes the partial file out
  again". Left empty, bb's own file is taken for somebody else's by the next install.
* Of two updates that overlap while a release comes out, the later rename can put the older release in place
  (`runner.go:351`: "bb never downgrades").
* `appendBlock` ends a last line that had no end, and a blank PowerShell profile goes with the block, so
  that a file does not always "come back as it was" (`files.go:297`); `ComesBack` says exactly how far it does.
* When a set-aside binary cannot be moved back, the error says where it is; another run that starts once no
  process runs from it may sweep it away (`install.go:240`).

Smaller ones, not checked by a run: two overlapping `bb auth` commands can lose one
another's hosts and aliases (`docs/site/advanced/repository-discovery-and-server-switching.md:92`);
with `--audit-failure=deny` the record follows the deed (`mcp-governance.md:130`); an acceptance
that comes too late is recorded as an error rather than denied (`mcp-governance.md:80`).
httpclient calls a POST answered 500, 502 or 504 with a cut body transient, and either
transport calls a 400 with a cut body permanent, though both may follow an applied write
(the exception in `RequestPromise`). A replayed DELETE may be refused
because its own first attempt succeeded.

## What is proved

The theorems hold for every number of calls, commands, retries, files, hosts,
bytes and so on, from the modules' named `ASSUME`s, which say what kind
of thing each constant is, and, where a theorem states one, from its own hypothesis. TLC evaluates the `ASSUME`s in
every run.

* **McpConfirmation** -- `TypeCorrect`, `AnsweredOnce`, `RerunOnlyInFlight`. None of the
  three properties but the first is inductive: that a state is not consumed twice rests on
  its nonce being remembered exactly as long as its state can be opened. `IInv` adds that:
  `RememberedWhileAlive` (a state consumed before its expiry is in `answered`, or its key is gone),
  `ConsumedAfterOpening` and `OpenedBefore` (the times are in order), `SealsOnce`,
  `AsksWithoutAnswer`, `OpenedBeforeConsumed`. `RunsWhatWasAsked`, `MergesAsShown`, `RecordIsTrue` and
  `ToldIsRecorded` rest on it and on `Governed`, which goes with a call from gate to gate: before the last gate it
  has changed, said and recorded nothing (`Undecided`), past each gate what was asked for and answered is
  on hand (`Decided`, `AskedFor`, `PinsShown`), and the record says which way it went (`Recorded`). They assume of a
  request what `DigestAssumption` says: its digest covers the version it names, and a merge is always asked about.
* **CredentialStore** -- `TypeCorrect`, `SoundFiles`, `OwnSecrets`. A file is sound because every copy
  about to be renamed over it is (`CopiesAreSound`), whatever was renamed in between. A
  command acts on its own secret because every secret, wherever it lies -- keyring
  entry, file, copy, memory -- came from a login of the file and host it lies under
  (`KeyringOrigin`, `FileOrigin`, `CopyOrigin`, `GotOrigin`), and a command reads under its own
  (`ReadsItsOwn`). `NotInTheClear` and `KeyringIsRequired` follow from where each secret was put (`Placed`): the
  entries, the files, the copies about to be saved and the memory of a command hold a secret only where the login it
  came from put it, in the keyring or, if that login allowed it, in plain text.
  In `CredentialStoreInTurnProofs`, `AddingKeepsInTurn`, `LogoutForgetsInTurn` and `LastLoginAnswersInTurn` are of
  stores in which no two commands change one file at a time (`~Overlap`), while other files' commands and the reads of this
  one's run in between, and any command fails or dies anywhere. `Alone` carries a command from its
  read to its rename: it is the only writer of its file (`OneWriter`), so what it read is still there (`CopyIsCurrent`), it
  changes its own host only (`ChangesItsHost`), and it deletes only that host's entries (`DeletesItsOwn`).
  The other hypotheses are the code's own limits: a logout warns of an entry it cannot delete and goes on, so the second and third
  theorem assume that deletes do not fail; and a login kept in plain text leaves an entry the keyring already had, which
  wins, so the third assumes that no login may do that (`NoPlaintextLogins`). Without it the property is false, as
  `store_relogin` shows.
* **HttpExchange** -- `TypeCorrect`, `IdempotentIsReplayed`, and `PromiseKept`: `Spec`
  implements `RequestPromise`. Of a request that is never replayed, all copies but the last
  are known to be harmless (`OnlyTheLast`), so a report is right when it says what can be known
  of the last one (`ToldRightly`); each action then maps to one of the promise's or to nothing. An
  *ok* means that the last copy landed because a whole answer to a copy that never will is `Unread` (`LegibleRightly`). The theorem
  says no more than the promise does: of a body that could not be used, and of a 2xx nobody reads, it makes the exceptions named there.
* **Download** -- `TypeCorrect`, `ResumedWithItsValidator`, `NothingLeftBehind`, and
  `OneBodyDelivered`: `Spec` implements `Delivery`. What is held begins the body of the
  answer being read (`ReadsOn`) and, while the download can be resumed, the body its validator
  names and its total measures (`Resumes`); an attempt asks for a range only then
  (`AsksForTheRest`), so a range that passes `checkRange` goes on in the same body, and one that
  ends with the count the total says, or by its own framing, is whole (`GotWhole`).
* **Update** -- `TypeCorrect`, `BinaryIsThere`, `FailureIsUndone`, `NewerIsApplied`. The invariant follows
  one file through its places: what a run holds at each of its steps (`Phases`, `Held`), which file it set aside
  and that nobody else can have (`Asides`), that a process that updates runs from a file no sweep may delete
  (`Images`), and that what is being installed was offered, verified and newer (`Offers`). That
  `compareSemver` orders as SemVer does is proved apart, by cases on the first place two versions differ.
* **PullRequestWrite** -- `TypeCorrect`, `ReadBeforeItLands`, `ReviewersAreKept`, `DraftIsOpen`, `RepeatsTheUnheard`, and
  `PromiseKept`: for a POST `Spec` implements `RequestPromise`. A version names one state of the pull request
  (`SeenIsOld`), so that a copy at the present version carries what was read of the present state (`Carried`), and a
  command writes a second time only when every copy of its first write is out of date (`OutOfDate`, `PostOnce`). A success
  that stands for no change is in it as in the promise (`unread`).
* **StartupFile** -- `Types`, `LeavesItWhole`, `ItComesBack`, `ItKeepsTheRest`, `ItIsSetUpOnce`. Where the rewriting starts the file holds what the run
  read (`KeepsAt`), and what it writes, then or to put things back, is all the rest of one text; cut to that
  text's length it is that text (`RestWritten`, `CutToSize`). A new file holds a beginning of what is wanted from its first write on
  (`FilledText`), which is what is left when removing it fails as well. That a run which changes a file leaves another text
  than it read is proved of the operators (`OutcomeIsOther`), and so is that `removeBlock` cuts exactly what
  `appendBlock` added out of any text (`AppendedComesOut`); `Planned` says that a run does what they say.
  What somebody else said in a text is counted word by word (`Theirs`, a recursive function), and what it is for two texts put
  together is proved from the least place where it would fail (`UpTo`, `TheirsJoin`); so nobody's line is lost when
  a block is put in, replaced or cut out (`OutcomeKeepsTheRest`).
  Installs that overlap all set out to leave one text, that of the first (`InstallsInto`): the file moves from the text they found
  to one that starts with that text and has no block behind it (`HasSetup`), and no step takes it back. A run that reads it
  half-way finds its setup current (`SetupFound`). `ItIsSetUpOnce` assumes of the first texts that no block begins
  in one twice (`OneBeginEach`): `findBlock` looks at the first only, so of two blocks it would leave the second.

Only model-checked: the three liveness properties. Liveness under fairness, ENABLED, the library's induction theorems and
RECURSIVE operators are outside what TLAPS proves here; the modules declare no RECURSIVE operator, and the one
induction over data, that of `Theirs`, goes by least numbers. Proved under more than the modules' `ASSUME`s are the theorems with
a hypothesis of their own, which are the three `InTurn` ones and `ItIsSetUpOnce`; each run that checks
the property meets the hypothesis, but `store_relogin`, which breaks one on purpose.

## What is not modelled

* Confirmation: resource reads, prompts and completions, which pass the same middleware;
  a clock that is set back; the text of the question.
* Store: the environment, `.env`, workspace and system files layered over the user's; user
  names and client certificates; the administrator's host policy; damaged files.
* Transports: redirects, authentication, building requests, pagination, the health probe.
* Downloads: a caller's own `Range`, symbolic links, permissions, what an `Opener` looks at,
  the failure of removing a temporary file, a power loss after the rename; the watchdog's timer (`watchdog.go`), which
  `BreakOff` and `Unanswered` stand for: that it could fire as the headers or the bytes arrive is Go's timers and contexts, and neither
  a hang nor a wrong verdict of it would be found.
* Update: which archive belongs to which system, unpacking, links, modes; a source that lies about
  what it signed is no release of this repository's.
* Pull request writes: reviews, auto-merge, comments, tasks, and creating a pull request, which are
  single requests without a version and so `HttpExchange`'s.
* Startup file: where it is, links, encodings, Windows' line endings, permissions; that somebody else's line written between
  a run's read and its write is lost, which the code does not try to prevent.
* Git runs (`internal/git/execgit`): one child process, whose pipe a helper may hold open after git is done. Go's
  `WaitDelay` ends that wait; what can go wrong is in what the operating system and git's helpers do, of which a model would be
  made up rather than translated.
* Completion deadlines and parallel listings: every goroutine sends one result into a channel with room for it, or
  writes a place of its own before a wait group's `Wait`, so no order of their steps changes the outcome. MCP scope is a pure
  function of a call's arguments, which a table test enumerates.
* The other components that `PROJECT.json` calls not modelled, each with its reason: pure
  functions and rendering, generated code, libraries' cryptography. More than half of the implementation's lines are
  generated code, and most of the rest flags, requests and output, which keep no state and meet no other process.

## What is left

To model: a clock that is set back
(`confirm.go:377`), and the policy and workspace layers of the configuration. Those are what an extension would take
up first.
