# ReCodex client: a TLA+ development

This directory models the concurrent and stateful core of the ReCodex client
(`crates/codex-plus-core`, `crates/codex-plus-data`, `crates/recodex-integration`,
`apps/`) in TLA+.  TLC
checks the models on small instances, and TLAPS proves the main results for every
value of the constants.  `PROJECT.json` lists the runs, the lines of the source
behind every definition, the hazards, the findings and the theorems.

## 1. The system

The **launcher** (`apps/codex-plus-launcher`) starts the Codex desktop app with a
debug port, connects to it over the Chrome DevTools Protocol (CDP), injects the
enhancement script and then serves the requests of that script.  Everything a
panel in the page does becomes a *bridge request* handled in the launcher's
process: signing in to ReCodex, choosing a gateway, deleting a session, pairing a
phone.  A local **protocol proxy** in the same process takes the model requests
of Codex and sends them to one or more relays.

| component | state it keeps | operations | how it is hard | what makes it correct |
|---|---|---|---|---|
| ReCodex session (`desktop.rs`, `lib.rs`, `credential.rs`) | adapter (token, cached usage), credential store, `auth_epoch`, device code, `~/.codex` files, three locks | refresh, login start/poll, logout, snapshot, gateway, organisation switch, doctor | each command on a thread of its own, locks released around network calls, a store and files that may fail | a sign-out holds against every command already under way; usage shown belongs to the account; a login survives a restart |
| Relay rotation (`relay_rotation.rs`, `protocol_proxy.rs`) | one process-wide selector: failover index, round and weighted index, conversation assignments | select, record an answer, fall back, probe | requests interleave, each with settings read earlier; the user saves others meanwhile | every member tried once; turns fair; a conversation keeps its member; failover leaves a failed member |
| CDP bridge (`bridge.rs`) | generations, CDP sessions with their pending calls, callbacks in the page | install, serve, finish, supersede, break | installations overlap; sessions break; the page reloads while handlers run | no request lost, none settled with another's result, each settled in the end, each run once |
| Launcher processes (`main.rs`, `launcher.rs`, `ports.rs`, `existing_instance.rs`) | lock file, guard port, helper port, status file, the watchdog's counters | launch, activate, take over, watch, recover, restart, exit | two launchers at once, a launch that fails at any step, a Codex that relaunches itself, a slow page that looks like a dead one | one backend, and the page is answered by a live one; Codex is killed at most once; every start ends |
| Stream conversion (`protocol_proxy.rs`) | items, tool calls, the think buffer, how the stream ended | chunk, done, error, end | tags and calls cut anywhere, in any order | nothing lost or shown twice; one verdict, and a complete answer is whole |
| Phone remote (`phone_remote/`) | generation of the current flow, phase, follow-account switch, daemon, autostart, backend record | start, cancel, disable, unpair | cancelled flows go on until their next check; answers may be lost | off means off; the panel never stays busy; no orphan record |
| Organisation switch, lease (`desktop.rs`, `lease_sidecar.rs`) | environment, lease file | switch, hand over | detached threads | the last choice wins at both ends |
| Official mode (`officialmode.rs`, `codexcfg.rs`) | snapshot, `config.toml`, `auth.json`, its backup, the mark, the key | sign in and out, switch either way, synchronise, choose a gateway | crash or failure between writes | the user's own is kept; always a way back |
| Diagnostics upload (`diagnostics_flush.rs`, `diagnostic_log.rs`) | log, watermark | append, compact, clear, flush | several writers, compaction, lost answers | an entry is sent, and not twice |
| Session storage (`storage.rs`, `backup.rs`, `deleted_leftovers.rs`) | databases, rollouts, two sidebar files, backups, markers | delete, undo, sweep | partial failure, crashes, three programs on the same files | what was deleted can be restored, what came back stays |
| Provider sync (`provider_sync.rs`, `remote_control_recovery.rs`) | lock directory, rollouts, two databases, a queue | synchronise, recover, finalize | stale lock of a dead process, Codex writing to what is rewritten | no line lost; success means moved in all parts |
| Mobile relay (`apps/codex-plus-mobile-relay`) | rooms, peers, counters | register, forward, evict, unregister | refused and broken connections | counters and slots are given back |

The rest is listed in `PROJECT.json` with the reason it is left out: text
transformation (`relay_config.rs`, `codexcfg.rs`, `model_catalog.rs`), calls of
the operating system (`windows_integration.rs`, `install/`), user interface (the
injected scripts, and the manager, which is no longer in the cargo workspace) and
wiring (`routes.rs`).

Interaction: the page calls the launcher through the bridge; `routes.rs`
dispatches to `ReCodexState::handle_bridge` on the blocking pool; session
commands write the Codex files the protocol proxy and Codex read; the settings
file is shared by the panel, the proxy and the manager with no lock; the watchdog
installs bridges and, as the last resort, restarts Codex.

## 2. Plan

| order | module | abstract question | state |
|---|---|---|---|
| 1 | `ReCodexSession`, `ReCodexSessionProofs` | does a sign-out hold against the commands already under way? | modelled, checked, proved |
| 2 | `RelayRotation`, `RelayRotationProofs` | is every member tried, every turn fair, every conversation kept? | modelled, checked, all properties proved |
| 3 | `Bridge`, `BridgeProofs` | is any request of the page lost, run twice, or settled with another's result? | modelled, checked, safety proved |
| 4 | `PhoneRemote`, `PhoneRemoteProofs` | does the panel follow the flow, is any prompt forgotten, is off off? | modelled, checked, safety proved |
| 5 | `RequestPort`, `BridgeProofs` | what does the page see of the bridge, without sessions and scripts? | `Bridge` implements it: checked, proved |
| 6 | `Launcher`, `LauncherProofs` | one backend, a page that is answered, a status file to trust, an end of every start? | modelled, checked, safety proved |
| 7 | `StreamConversion`, `RelayRotationProofs` | does it matter how an answer is cut, is a complete one whole? | modelled, checked, all properties proved |
| 8 | `SessionStorage`, `SessionStorageProofs` | can what was deleted be restored, does what came back stay? | modelled, checked, proved |
| 9 | `DiagnosticsFlush`, `LauncherProofs` | is each entry sent, and only once? | modelled, checked, safety proved |
| 10 | `OfficialMode`, `OfficialModeProofs` | is the user's own kept, is there always a way back? | modelled, checked, proved |
| 11 | `ProviderSync`, `ProviderSyncProofs` | is any line lost, is success the truth? | modelled, checked, proved (the lines where files are exclusive) |
| 12 | `MobileRelay` | are slots and counters given back? | planned |
| 13 | conversion of requests and of answers that are not streamed | as functions against a reference | planned |

Composition: `RequestPort` is the abstract specification that `Bridge` implements,
with or without reloads; `Launcher` contains the watchdog whose effect on
one bridge is `Bridge`'s `Revive` and `Reinstall`; `OfficialMode` has the files that
`ReCodexSession` reduces to `routed`.  The other components share only files, and a module of one takes
the files of another as a choice of the environment.

Every safety property of the passing runs is a theorem (section 5).  Where a definition is a
function defined by recursion, induction over numbers is a fact about sets of numbers
(`NaturalInduction` in `RelayRotationProofs`, from the least element of a set), which
needs no operator as a parameter.

The modules declare no `RECURSIVE` operator, so all of them can be proved about:
`RelayRotation` and `StreamConversion` go through lists and sets with functions defined
by recursion.

## 3. The modules and the code

### `ReCodexSession` (`recodex-integration/src/desktop.rs`, `lib.rs`, `credential.rs`)

`ReCodexState::handle_bridge` runs every panel command on a thread of the blocking
pool; `Handlers` are those threads.

| variable | code |
|---|---|
| `token`, `cache` | the adapter's `access_token`, and the token whose usage `cached_usage` holds |
| `store` | the entry in the credential store |
| `epoch`, `pending` | `auth_epoch`, `pending_device_code` |
| `adapterLock`, `refreshLock`, `snapshotLock` | the mutexes, where one is held across several steps |
| `routed` | the managed block of `config.toml`, the key and `auth.json` are installed |
| `valid`, `minted` | the server: tokens it accepts, tokens it has issued |
| `pc`, `ep`, `tok`, `fresh`, `code` | where each command is, and its locals |
| `from`, `out`, `clearFailed` | history: which epoch wrote a place, which signed it out |

One action per stretch of code between two points where another thread can come
in: the network call, the credential store (called without the adapter lock in a
refresh, with it in a login), and each read of the epoch.  `RefreshBegin` to
`RefreshCommit` are `recodex_refresh_token`, `StartBegin` to `StartPut`
`recodex_login_start`, `PollBegin` to `PollInstall` `recodex_login_poll`,
`LogoutBegin` to `LogoutStore` `recodex_logout`, `SnapshotBegin` to `SnapshotMerge`
the snapshot behind `recodex_status`, `GatewayBegin` to `GatewayRoute` gateway
selection and doctor fix.  The server rotates a token at refresh and may lose the
answer; the store may fail to save or clear; the file writes may fail.

### `RelayRotation` (`codex-plus-core/src/relay_rotation.rs`, `protocol_proxy.rs`)

`selector` is `GLOBAL_SELECTOR` with its failover, round and weighted indices and
its conversation assignments, from 0 as in the code.  A request reads `settings`
once (`Receive`), selects under the mutex (`SelectSingle`, `SelectRouted`,
`SelectRefused`, `SelectMember`), and then sends without any lock, reporting each
answer to whatever selector there is by then (`Succeed`, `Fail`, `Abort`).  `Save`
is the user saving other settings, `Probe` the provider test.  `picked` and
`failed` are history.

### `Bridge` (`codex-plus-core/src/bridge.rs`, with `launcher.rs` calling it)

A session is named by its generation.  `phase` is where `install_bridge` or the
session's task is, `inbox` the binding events collected, `running` the handler
futures, `current` the published generation.  `Bind`, `Register`, `Evaluate`,
`Publish` are the commands of `install_bridge` in order; `Take`, `Finish`,
`Supersede` and `Break` the loop of the session's task.  `Issue`, `Deliver` and the
effect of `Evaluate` and `Reload` on `seq` and `callbacks` are the JavaScript of
`build_bridge_script`.  `answers` are responses on their way.  External is what
Chromium does: it tells every session that holds the binding of every call, and
runs the new-document scripts of every open session on a reload.  The watchdog is
reduced to what it does to the bridge: `Revive` when no session serves,
`Reinstall` otherwise; its counters are in `Launcher`.

`RequestPort` is what the page may rely on: requests are asked, run and settled, and
a document ends.  `Bridge!Port` maps `asked` to `issued` and `ran` to the requests some
session ran a handler for.  `Issue` is `Ask`, `Take` is `Run`, the `Evaluate` of a new
script is `Reconnect`, a `Deliver` that finds a callback is `Reply`, `Reload` is `Reload`;
every other step is invisible to the page.  The port allows `Reply` with the result of
a request of an earlier document: that is `AnswersBelong` of section 7, and the
port says that there is no other way in which a result can be another's.

### `PhoneRemote` (`codex-plus-core/src/phone_remote/mod.rs`)

`phase` and `generation` are the `Controller`'s; a flow is a task of `spawn_flow`,
named by its generation, at a stage of `run_flow`, `pair` and
`ensure_daemon_and_autostart`.  `how` is what raised each generation.  `command` is
where a `disable` or `unpair` is; what it does before its first await is one step
because the handlers of one bridge session are polled in one task.  `pairId` and
`settled` are the locals of `pair`; `withdrawing` are the cancel requests it has
spawned.  External are the runtime (its pair process `child`, credentials, daemon),
the operating system's autostart entry, and the backend's `record` of each
registration with the phone's answer to it.  `Restart` is the end of the launcher
at any point: it loses the tasks and their requests, and a pair process that has
had its directive may survive.

### `Launcher` (`apps/codex-plus-launcher/src/main.rs`, `codex-plus-core/src/launcher.rs`, `ports.rs`, `existing_instance.rs`, `watcher.rs`)

`pc` is where each launcher process is, from `launcher_main` to the last drop of its
guard; the sets `Waiting`, `Starting`, `Running`, `Ending` and `Dropping` name the
stretches.  `lock` and `guardPort` are the two halves of the single-instance guard,
`helper` the port of each process's backend, `codex` the one app with its debug port,
its window and whose bridge its page holds, `fails`, `health` and `streak` the
counters of the watchdog and the exit monitor, `status` is `latest-status.json`.
`Guard`, `Second`, `Launch`, `Recover`, `Exit` group the actions of a process in the
order of the code; `Tick` is one round of the watchdog, `ExitPolled` one of the exit
monitor.  The user and Codex are free to start, close, relaunch and reload at any
time, and every step of a launch may fail.  The guard has the code's four outcomes:
taken (`GuardTaken`), the lock held by another (`GuardRefused`), the port taken though
the lock was free (`PortTaken`), and any other I/O error (`GuardFailed`), after which
the process writes its failure into the status file as `noGuard` although it never held
the guard.  Durations appear in four guards only, which the head of the module names.

### `StreamConversion` (`codex-plus-core/src/protocol_proxy.rs`)

`answer` is `ChatSseState` with what it has sent: per item its index, how often it was
added and done, what it holds (`said`) and what its deltas carried (`streamed`).
`Chunk` is `handle_chat_chunk_into` with reasoning, content and tool calls in the
code's order; `SaysDone`, `SaysError`, `Breaks` and `Ends` are the ways to end.  Text
is a sequence of tokens and both tags have two, so that a chunk may end inside one;
`blank` stands for white space.  Tool calls have the indices 0 to `LastTool`; the name of
one, which may come in any chunk, makes it a function call or a custom tool's.  The deltas
of a function call carry its arguments as they come (`ArgumentsDelta`); a custom tool's
input is sent once, when the item is finished (`InputDelta`).  `as` is a ghost: which of
the two a call was taken for while it was added, "both" if its name came or changed later.
`content`, `follows` and `cut` are history: the content up to the first boundary in one
piece, what came after it, and whether there was a boundary.

### `SessionStorage` (`codex-plus-data/src/storage.rs`, `backup.rs`, `deleted_leftovers.rs`)

`rows`, `rollout` and `file` are where a session lives: a row in each database, a
rollout, a line of `session_index.jsonl`, an entry of the global state.  `backups`,
`sidecar` and `marked` are the backup directory, `offered` the undo tokens the page
was given.  `work` is what the launcher and the manager are at: a deletion database
by database, the edit of a sidebar file as a read and a write, an undo, the sweep at
start.  Codex holds the global state in memory and writes it back as a whole.  `Fails`
and `Crash` may come at any step; `since` is what others did meanwhile.

### `DiagnosticsFlush` (`recodex-integration/src/diagnostics_flush.rs`, `codex-plus-core/src/diagnostic_log.rs`)

`log` is the file byte by byte (an entry has one or two, a newline one), `gen` which
file it is, `mark` the saved watermark, `wr` the writers at the two writes of
`writeln!` or at a compaction, `fl` the round of the uploading thread with the locals
of `flush_diagnostic_log`.  `Taken`, `Unanswered` and `AnswerLost` are the server's
answers; the user may clear the log, a save may fail, a process may die.  Its `Init`,
`Next` and `Spec` are called `DiagnosticsInit` and so on: the thread is a part of the
launcher, and `LauncherProofs` extends both modules.

### `OfficialMode` (`recodex-integration/src/officialmode.rs`, `codexcfg.rs`, `desktop.rs`)

`cfg` is `config.toml` (the managed block, the user's default provider and the one
set aside), `auth`, `backup` and `managed` are `auth.json`, its backup and the mark,
`key` is `RECODEX_KEY` and `snap` `official-mode.json`.  `run` is the operation under
way: a list of atomic writes, `Write` being the next of them, `WriteFails` one that
does not happen and `Dies` the end of the program between two.  Operations do not
overlap: concurrent ones are the matter of `ReCodexSession`.  `UserSignsIn` is a sign-in
to Codex itself, between any two operations, also while ReCodex is installed or half
installed: it writes `auth.json` and leaves the backup and the mark.  `own` is the last
one made with nothing of ReCodex's in place, `newer` one made since over a backup or a
mark.  The code gives back the first and not the second (section 7).

### `ProviderSync` (`codex-plus-data/src/provider_sync.rs`, `codex-plus-core/src/remote_control_recovery.rs`, `main.rs`)

`roll`, `rows` and `catalog` are the three places that name a session's provider,
`queue` the file of pending recoveries, `lock` the lock directory with its owner
file.  `work` is one of three operations of a process, at a step between two system
calls: creating the lock and writing its owner, judging and renaming away a stale
one, comparing and rewriting a rollout (`Rewrite` up to `set_len(0)`, `Rewritten` from
there), one transaction per database.  Codex starts, creates, appends and stops at
any time (`Exclusive` is Windows' sharing mode); steps may fail, processes may die.
`archived` are the sessions that are in the archive, where the rollout lies in another
directory; the user may archive one or bring it back at any step.  `was` is what an operation
found archived as it looked the rollouts up: one that moved since is passed over, and the
finalization of a pending recovery that finds its session archived reports success and
leaves it as it is.

## 4. What TLC checks

| run | expects | shows |
|---|---|---|
| `session` | pass | what an older command brings does not outlive a sign-out, in the adapter, the store or as a device code; the cached usage is the adapter's token's; locks are dropped on every way out |
| `rotation` | pass | each request tries every member of the settings it read exactly once; turns are fair; conversations keep their member while settings are stable; indices stay in range |
| `bridge` | pass | responses of one document never cross; no request falls between sessions; an overtaken session is never current again; the page sees a `RequestPort`; every request is settled |
| `bridge_once` | violation of `OneSessionPerRequest` | a request in the window between binding and publishing is run twice |
| `phone` | pass | the panel is never busy for a flow that is gone, nor for ever; no prompt is forgotten; no pair process is left |
| `launcher` | pass | the backend follows the lock; a page is answered by a live launcher; the proxy keeps its port; the watchdog neither kills Codex twice in a run of failures nor gives up in silence; the status file is the primary's, or of a process whose guard failed with another error; every start settles |
| `stream` | pass | items keep their indices; cutting content changes nothing; arguments of function calls are streamed in full as they come, the input of custom tools once at the end; an answer is complete once, never after a failure, and then whole |
| `storage` | pass | nothing is ever beyond reach; a deletion's tokens restore it; an undo that succeeds brought it back; newer rows stay; the sweep takes only what is gone and backed up |
| `diagnostics` | pass | no entry is passed over; only what could not be recorded is sent again; nothing is held up for ever |
| `official` | pass | the user's provider, and the sign-in that ReCodex found, are kept at every moment and given back by signing out; official mode stays the user's; the way back is whole |
| `official_backup` | violation of `OursIsRemoved` | the second sign-in takes ReCodex's own `auth.json` for the user's |
| `provider` | pass | no line that Codex wrote is lost; a synchronisation that reports success moved all parts; a queued session is done with only when moved, or when it was found archived |

In `rotation`, `launcher`, `stream`, `storage`, `diagnostics` and `provider` the module's
type invariant is the first conjunct of an invariant, so that it is checked with it.

Bounds, and why they are enough:

- **session**: two threads, three logins or logouts, three tokens, all faults.  A
  hazard is one command overtaken by another; with three epochs the overtaking
  command can itself be overtaken, and three tokens tell a token before, during and
  after a refresh or login apart.  The threads are interchangeable (symmetry).
- **rotation**: two requests at once, four in all, three relays (one down, one
  flaky), six settings covering the four strategies, an ordinary provider and an
  incomplete aggregate, weights 2 and 0.  Four selections are more than a full turn
  of every schedule used.
- **bridge**: two requests, three installations of which two overlap, one lost
  session or response, one reload.  Two generations are needed for every race of
  two sessions, the third for a loss followed by a repair.
  The invariants were also run with four installations (11 million states), and are
  proved for any number.
- **phone**: two generations (a flow and what replaces it), two registrations, one
  `disable` or `unpair`, every fault and one restart within the two generations.
- **launcher**: two identities, which are used again once a process is gone, so that
  a launch, its successor and a hand-over follow each other without end; thresholds
  of two, the least that tells "once" from "in a row".  143,182 states.
- **stream**: five blocks over two tool calls; a think block needs at most four tokens
  for its tags, and the chunks (`MCStreamConversion`) hold one token, a whole tag, or
  what runs out of one.  Calls with and without an id, plain and custom names and names
  that change are among the chunks.  3.8 million states.
- **storage**: a session with rows in two databases and one that is only in the
  sidebar, three backups, and three kinds of behaviours (`MCBounds`): two programs
  deleting at once with an undo; deletions and undos one after the other across a
  start, with two incidents; deletions and the sweep at once, with one incident.
  0.9 million states.  The first kind was also run with an incident (2.1 million
  states) and holds.
- **diagnostics**: two writers, three entries (one long, one of them not reported, two
  of one kind), a file of four bytes of which three are kept, one upload per round.
  Either the log is cleared once or one thing goes wrong.  0.3 million states.
- **official**: two gateways, two providers, two sessions, two incidents (a crash, and
  another during what should mend it), and two sign-ins of the user's own after the one
  he may have begun with: one over what ReCodex left, and another on top or after it is
  gone.  5.0 million states.
- **provider**: three processes, so that two can judge the lock of a third that died;
  one session, one line, two providers with one switch, one fault or death.  The
  operations treat sessions independently except for the lock and for a failure in
  the middle, after which nothing is reported as done.  The switch of the provider and
  the archiving of the session share one bound.  1.4 million states; processes
  and providers are interchangeable (symmetry).

The violation runs are smaller: they have the fewest actors and faults that
produce the behaviour, so that the trace is short.

**Deadlock** is checked in `rotation`, where the user can always save, in `session`,
where a snapshot or a poll can always begin, in `launcher`, where a user can always
start one, and in `official`.  The others say `CHECK_DEADLOCK FALSE`: their requests,
chunks, entries, backups or processes are bounded and used up, and the system then
rests.

**Fairness.**  `ReCodexSession`, `RelayRotation`, `StreamConversion`, `SessionStorage`,
`OfficialMode` and `ProviderSync` are checked for safety only and assume none.  `Bridge!FairSpec`: the watchdog's timer fires (`Revive`), tokio polls
every task that can go on (`Install`, `Take`), a handler returns or fails
(`Finish`), the page runs what it was sent (`Deliver`).  That a handler ends is an
assumption on the routes, not something `bridge.rs` enforces: those that use the
network have a time limit, the others work on local files.  Sessions are lost a
bounded number of times; with unbounded losses nothing could be promised.  Nothing
is assumed of `Issue`, `Reload`, `Reinstall` or `Supersede`.  `PhoneRemote!FairSpec`: every await of a flow
has a time limit in the code (the calls of the runtime, `PAIR_TIMEOUT` for a
pairing), hence weak fairness of `FlowStep` and `PairTimedOut`; a withdrawal is one
request on the blocking pool.  Nothing is assumed of the phone, of the pair process
or of the user.  `Launcher!Fairness`: a process that is not waiting for anybody goes
on, the timers of watchdog and exit monitor fire, and a process tries the guard a
bounded number of times, hence strong fairness of its outcome; nothing of users and
of Codex.  `DiagnosticsFlush!FairSpec`: the thread wakes every ten minutes and goes
through its round, and a server that is asked again and again takes an entry in the
end.  It also assumes that a launcher that died is started again (`LauncherStarts`): the
user does that, or the operating system at the next login, and without it nothing is
ever uploaded.  Nothing is assumed of the writers.

## 5. What TLAPS proves

`ReCodexSessionProofs`, under `SessionAssumption` (the free lock is no handler, the
commands issued are known ones; nothing on their number), for `Spec`:

- `TypeCorrect`: `TypeOK`, types and `LocksHeld`;
- `SignOutHolds`: `SignOutIsFinal`, from `SignOutHoldsInAdapter`, `SignOutHoldsInStore`
  and `SignOutHoldsForPending` for its three conjuncts;
- `CacheIsTheTokens`: `CacheBelongsToToken`.

The inductive invariant is `IInv == TypeOK /\ Epochs /\ SessionInv`.  The four session
invariants are not inductive alone: a logout records the epoch at which it
cleared a place, and for "not older than" to survive it no command and no earlier
record may be from a later epoch, which is `Epochs`.  A token written by a command
that is still current has that command's epoch, which is the present one, and
so is not older than any sign-out; in the store, a command may write and be
overtaken, and the invariant then names it as the one that still has to clear.

`PhoneRemoteProofs`, under `PhoneAssumption`, for any number of commands,
generations and registrations and any set of faults:

- `PhoneTypes`: `TypeOK`, which says also that a pair process lives, and a record is
  held, exactly as long as its flow pairs;
- `PanelIsNeverLeftBusy`: `PanelFollowsFlow`;
- `NoPromptIsForgotten`: `NoForgottenPrompt`.

The inductive invariant is their conjunction.  `FlowsNumbered` carries the argument:
a generation that is raised names a flow that has not been used, so the flow of
the present generation is the one just begun, and whatever an older flow does later
is stale and cannot show; and a flow that holds a record pairs, so the ways out of
pairing are the only places where a prompt could be forgotten.

`BridgeProofs`, under `BridgeAssumption` (the values for "no answer" and "settled as
failed" are no requests, the bounds are numbers), for any number of requests,
installations, lost sessions and reloads:

- `BridgeTypes`: `TypeOK`, which says also that the current generation serves;
- `AnswersNeverCross`: `AnswersStayApart`;
- `RequestsAreKept`: `NoRequestLost`;
- `OvertakenForGood`: `NewestServes`.

The inductive invariant is `IInv`.  `Numbered` carries the first argument: there is a
numbering of the requests, without repetition in a document, and everything that
travels for a request (a callback, a binding call in some inbox, the call of a
running handler, a response) carries its number; hence a response that finds a
callback of its own document finds its own.  `Kept` carries the second:
`NoRequestLost` speaks of the current session only, and to survive the publication
of another it must hold of every session that is about to publish.  Such a session
listens since before its script settled all callbacks, so what the page waits for
came later and is in its inbox.  No fairness is used.

It also proves the refinement, `BridgeImplementsPort`: `Spec => ImplementsPort`.  To
`IInv` it adds that only a handled request has a response and that a callback's request is
not settled, and shows that each action maps to the action of the port named in
section 3 or to a stutter.

`LauncherProofs`, under `IdentitiesDiffer` and `ThresholdsPositive`, for any number of
processes and any thresholds:

- `BackendFollowsTheLock`: `BackendHoldsLock`;
- `BridgeIsAnswered`: `ServedByLive`;
- `ProxyIsReachable`: `ProxyPortKept`;
- `StatusIsTheRunningLaunchers`: `StatusOfPrimary`.

Its `IInv` says that the holder of the lock and the primary are the same process at
every step (`LockIsPrimary`), between which steps a helper runs, may run and cannot run
(`HelperWhile`, `HelperAt`, `ProxyAt`), and at which steps a page may hold a process's
bridge (`ServedAt`).  `BackendHoldsLock` alone is not inductive: that a process that
takes the lock is the only primary needs the converse.  The status file rests on a
second invariant on top of it: what a launcher has written as it began to run stays
until it runs no more, because nobody else is the primary and because a failed launch
that records itself late, after it gave the guard back, has done so before the next one
gets that far (`StatusAt`, which excepts `noGuard`: a process whose guard failed with
another error than a held lock or a taken port overwrites it at any time).  Its
`CountersAt` bounds the counters of the watchdog, and says that one that has killed Codex
counts on past the threshold, and goes there only after it has told the user; the last
part of `BackendHoldsLock`, `RecoversOnce`, rests on it.

Its second part is about the launcher's uploading thread, under `EntriesAssumption`,
`BytesAssumption` (the sizes are numbers, and what a compaction keeps is no more than the
size that sets it off, 5 and 50 MiB in the code) and `BoundsAssumption`, for any number of
writers and entries and any cuts and incidents:

- `UploadSkipsNothing`: `NothingSkipped`;
- `UploadTellsOnce`: `ToldOnce`.

Three facts about texts carry it.  The end of a line is the first newline behind its
beginning (`LineEndIsLeast`, from the least element of a set of numbers); the lines that end
in a prefix of a text are the prefix's (`LineOfPrefix`), so that appending changes nothing
before the watermark; and the line that begins where a round has come to is the next one,
unless the round started inside a line (`LineBetween`).  `FlushInv` says that the watermark
stands at the beginning of a line before which everything is dealt with, unless the file was
cut since it was saved (`MarkInv`), and that a round reads a prefix of the present file or
the watermark is stale, and is past dealt lines only (`RoundInv`): a round that a
compaction overtakes saves a watermark of a file that is gone, and that is harmless to the
property because `stale` then stays.  `ToldOnce` needs to know where an entry is: `OnceInv`
says that it is still to be written, in one place, or all its bytes lie together in the log;
`RecordInv` that what the server has of an entry is known to the round (it has sent it and has
moved) or to the watermark, unless the entry is `unsure`.

`OfficialModeProofs`, under `ProvidersAssumption` ("none" is no provider; the bounds
play no part), for any gateways, providers, sign-ins, failed writes and ends of the
program:

- `OwnIsKept`: `UsersOwnIsKept`;
- `OfficialModeIsTheUsers`: `OfficialStaysOfficial`;
- `SignOutIsComplete`: `SignOutRestores`;
- `ReturnIsComplete`: `ReturnRestores`.

An operation may stop after any of its writes, so the argument is about the order of
the writes.  `EffectOfWrite` and `WayOfWrite` state what each write changes and which
follows it; `OwnInv` says that a backup, once there, is the sign-in that ReCodex found
(`own`), if there was one, that ours is written only when the backup holds it, and that the
backup goes only when auth.json has it back.  A sign-in of the user's over a backup or a
mark changes auth.json at any moment between operations, and the invariant survives it
because the backup still holds `own`; of the newer sign-in it says nothing.  `LogoutInv` and
`OfficialInv` collect, write by write, what an operation without an incident has achieved:
official mode entered without one has neither backup nor mark, so that a sign-in there is
the user's own.  `UsersOwnIsKept` alone is not
inductive: it does not say that the backup is the present sign-in and not an older one,
which "auth back" and "write auth" rely on.  The way back needs a second invariant,
`RInv`: a whole installation is in place or in the snapshot (`InPlace`, `InSnapshot`),
what enters official mode takes nothing away before it is in the snapshot, and what
leaves it drops the snapshot only when every write has put its part back (`Put`).  A
staged block comes without a key, and gets the one that is there: that this is the
session's is part of the invariant.  An installation over which the user signed in is not
whole any more, and nothing is promised of the way back to it.

`SessionStorageProofs`, under `BoundsAssumption` (the bounds are numbers), for any number
of sessions, databases and backups, whatever fails or dies:

- `StorageLosesNothing`: `NothingIsLost`;
- `DeletionsCanBeUndone`: `DeletionIsUndoable`;
- `UndoneSessionsAreBack`: `UndoneMeansBack`;
- `SweepTakesOnlyLeftovers`: `SweepIsSafe`;
- `BackupsNeverReplaceRows`: `NewerRowsStay`.

`IInv` says what every worker's record looks like at every step (`WorkOK`) and
that a row or rollout that is gone is in some backup (`RowsKept`), and for sessions known
only from the sidebar that they have a backup or are still untouched in every file, in
the memory of Codex and in whatever a worker has read and will write back (`ApisKept`):
without the last, a stale write would be the hole.  The other four are about one
operation while others work on the same files.  `JInv` is a rely condition: whatever the
others take from a session, or give to it, is noted in `since` (`Noted`, shown once for every
step of everybody else), and up to that, what a deletion has taken is covered by its
tokens (`Recoverable`), what an undo has restored is there (`Restored`), and what the
sweep takes has no rows and a backup of each of its entries (`Swept`).

`ProviderSyncProofs`, under `ConstantsAssumption`, for any number of processes, sessions
and providers, whatever fails or dies:

- `TypesHold`: `TypeOK`;
- `NoLineIsLost`: `Exclusive => (Spec => []LinesKept)`;
- `SuccessIsWhole`: `SyncedIsWhole`;
- `DoneIsServed`: `CompletedIsServed`.

`NoLineIsLost` has a hypothesis because without it the statement is false (section 7):
where Codex can open a rollout that is being rewritten, a line appended between
`set_len(0)` and the end of the rewriting is lost.  Its invariant `LInv` says that one
process writes to a rollout at a time, and that it remembers all that was written there.
This needs neither the lock nor that nobody steals it: the comparison before the rewriting
is what it rests on.  The other two rest on the lock: as long as no lock was taken from a
living process (`stolen`, which the properties except), who is between the writing of
`owner.json` and `release_lock` owns the lock and is alone there (`OwnLock`, `Alone`), and who
renames a lock away has seen its owner dead (`Dead`).  `SyncOK` and `FinalizeOK` collect step by
step what has been moved, and nobody disturbs it: no other process is there, and Codex
appends to sessions and creates new ones, which an operation cannot have found
(`UnknownUntouched`), but changes the provider of none (`Stable`).  `DoneIsServed` leaves out
a session that was found archived (`was`), for which the code promises nothing (section 7).

`RelayRotationProofs`, under `RotationAssumption` (members are distinct and there is
one, "no selector" is none, there are finitely many relays, as the settings file lists
them; nothing on the number of requests, conversations, settings or on the weights):

- `ConversationStays`: `SettledConversationKeepsMember`;
- `CandidatesAreTheMembers`: `CandidatesCoverMembers`, with `TypeOK`;
- `RotationIsFair`: `FairShare`;
- `IndexesNameMembers`: the failover and the round index name members.

Its `IInv` says that a selector is of an aggregate, that only the conversation strategy
assigns and only the weighted one uses the weighted index.  `SelectionKeeps` carries the
argument: a selection leaves the aggregate and every assignment that is there, and
`Reported` touches the failover strategy alone.

`CandidatesInv` adds the lists of the requests under way, and that the selector names
members only: its weighted index is inside the schedule, which holds members, and what a
conversation was given is a member.  `FallbacksCover` is the arithmetic: starting at the
place of the relay that was chosen, which exists because it is a member, the indices
modulo the number of members meet each other member once.  A failure then moves a relay
from one list to the other (`MovedOver`), and their concatenation stays.

`ShareInv` says that with `turns` full turns and `k` selections of the next one, each
relay was selected `turns` times its share of a turn plus its share of the first `k`
places.  It needs what the schedule holds (`ScheduleIsFair`: as many places of each member
as its weight, at least one), which is shown along the recursion that builds it, and that
the selections add up (`TotalGrows`), which is shown along the recursion over sets of
relays in `Picks`.

The second half of `RelayRotationProofs`, from "Text: ..." on, is about
`StreamConversion`, under `StreamAssumption` (`LastTool` and `MaxChunks` are natural
numbers) and `ChunksAreMessages` (a chunk is a piece of reasoning, a text of any length
and a list of tool calls); so for any number of tool calls, any length of a stream and
any way it is cut:

- `IndicesCount`: `IndicesAreItems`;
- `ArgumentsArrive`: `ArgumentsAreStreamed`;
- `CompleteIsWhole`: `CompletedIsWhole`;
- `ChunksAgree`: `ChunksDoNotMatter`.

`ConversionInv` is the invariant of the first three: the types, and `Numbered` (the items
that were added have the indices from 0 to `next - 1`, each once; an item is done only
after it was added; the list holds the indices of those that are done; the item of a tool
call belongs to a call that was heard of), `VerdictGiven` (a verdict sets `completed`),
and, while the answer is not completed, `Carried` (the deltas of a function call that was
added have carried what it holds, those of a custom tool's nothing; a call with an id or a
name is added).  `Continues` says what the handling
of one piece keeps, and is shown helper by helper, in the order in which the code calls
them.  The list of tool calls of a chunk and the tool calls of an answer are gone through
by recursion; `HeardExists` and `FinishedUpToExists` show that the functions which the
module defines exist, and an induction along them that each step continues.
`FinalizedIsWhole` and `ListedInOrder` give the complete answer.

`ChunksAgree` needs `Shown` on top of it: while the converter has not decided, or is inside
a thinking block, its buffer is the whole content and no text was sent (a boundary, which
is what separates `content` from `follows`, ends both); once it shows text, that is what the
whole content splits into.  For a step to keep this, the decision must not be revised by
what comes later, and this is what the lemmas on sequences say: blanks in front of a text
that is cut (`TrimOfParts`), an opening tag that stays one (`OpenStays`), text that stays
text (`TextStays`), and a closed block, which keeps its thought while the rest goes on
(`ThinkStays`).  `SameView` collects what leaves text, reasoning, buffer and mode alone:
tool calls, verdicts and the end of items.

Only model-checked: the liveness properties `EveryRequestSettles`, `PanelSettles`,
`LaunchSettles` and `EverythingIsDealtWith`, which are out of the proof system's reach.
The violations are traces of the small instances.

## 6. What is not modelled

Components without a module are in `PROJECT.json` with their reasons.  Inside the
modelled ones:

- `ReCodexSession`: commands that change none of its state (organisations, client
  check, diagnostics report), a poisoned mutex, and the contents of the files.
  `switch_org` and the lease are left out: what matters there is the order in which
  the server applies two requests, and the server is not in the repository.
- `RelayRotation`: conversion between the two APIs (`StreamConversion` has that of
  streams), vision rewriting.
- `Bridge`: the DOM side of the script, the choice of the
  page to attach to.  The loss of a response without the loss of its session does
  not happen: the socket is one TCP connection to the same machine.
- `PhoneRemote`: the download and verification of the runtime (one step that fails
  or not), QR and confirmation codes, texts.

- `Launcher`: how processes are found, started and killed on each platform, the
  search for a free port, the text of an alert.
- `StreamConversion`: JSON, usage figures, annotations and refusals; how the input of a
  custom tool is rebuilt from its arguments (the model sends them as they are); the
  conversion of requests and of answers that are not streamed.  Nothing is said of the
  deltas of a call that was taken first for a function call and then for a custom tool's,
  or the other way round (`as` = "both"): it has some of the one kind, some of the other.
- `SessionStorage`: archiving, moving and renaming of sessions; the schema variants of
  the databases.
- `DiagnosticsFlush`: what a report holds besides its kind.
- `OfficialMode`: the text of the files; operations that overlap; a sign-in to Codex, or a
  choice of provider, while an operation is between two of its writes; the user choosing a
  provider while the block leads.
- `ProviderSync`: sessions of sub-agents, which every operation leaves out; working
  directories, user events, the text of the global state; the age of a candidate; the
  names and directories of rollouts, of which only "archived or not" is left.

## 7. What the code does not promise, or does not keep

Two runs show the code not doing what its own comments say; `PROJECT.json` quotes the
lines.

1. `bridge_once`: a page request is executed twice across a re-installation.
2. `official_backup`: after a second sign-in, or the next start, of a user who had no
   `auth.json`, signing out puts ReCodex's own credentials in its place.

Eleven statements a reader of the comments and plans might expect are false of the code
as modelled.  All but the last stay in the modules as definitions, with a comment, and are
checked by no run; the last is checked with exclusive files only.  Each can be made to fail
with TLC in a configuration of a few lines:

| statement | what happens | how to see it |
|---|---|---|
| `ReCodexSession!SignedOutIsUnrouted` | a gateway switch or login past its request writes the Codex files after a logout restored them (`desktop.rs:718`, 1010, 1057) | two handlers, no fault, one sign-out |
| `ReCodexSession!LoginSurvivesRestart` | a refresh or login cancelled by a newer `login_start` clears the credential store of a live session (`desktop.rs:614`, 995) | two handlers, no fault |
| `RelayRotation!FailoverLeavesFailed` | two failures of one member advance the index twice, back to it (`relay_rotation.rs:142`) | two requests, one failover aggregate of two |
| `RelayRotation!ConversationKeepsMember` | a request with older settings drops the selector with its assignments (`relay_rotation.rs:195`, 264) | two requests, one saved change |
| `Bridge!AnswersBelong` | a response that outlives its document settles another's request (`bridge.rs:118`) | two requests, one reload |
| `PhoneRemote!OffMeansOff` | a flow past its last look starts the daemon after `disable` stopped it (`mod.rs:1015`) | one flow, one `disable` |
| `Launcher!StatusIsOwn` | a second launcher whose guard fails with another error than a held lock or a taken port writes its failure over the status of the one that runs (`main.rs:608`, 190, 208) | one launcher that runs, a second whose lock file cannot be opened |
| `OfficialMode!EverySignInIsKept` | a sign-in to Codex over a backup is overwritten by the next `write_auth` or replaced by the older one in `restore_auth`; over a mark alone it is removed (`codexcfg.rs:1252`, 1299).  For instance: a switch to the official mode dies after the demotion (`officialmode.rs:139`), the user signs in, and ReCodex is switched on again | one sign-in to ReCodex, one to Codex, one sign-out; no incident |
| `OfficialMode!SnapshotIsOurs` | the same sign-in is taken for ReCodex's by the snapshot, which looks at the mark only, and comes back under the mark (`officialmode.rs:122`) | one sign-in to ReCodex, one to Codex, one switch |
| `ProviderSync!EveryCompletedIsServed` | the request for a session that is archived when it is looked up is struck from the queue with every part still openai's (`provider_sync.rs:411`, `main.rs:987`) | one pending session that is archived |
| `ProviderSync!LinesKept` without exclusive files | a line Codex appends between `set_len(0)` and the end of the rewriting is overwritten (`provider_sync.rs:2649`; the exclusion at 2660 is Windows only) | `Provider.cfg` with `Exclusive = FALSE` |

The properties of the passing runs are stated so that they leave these histories out; the
comment of each says so, and the notes of the hazards in `PROJECT.json` say where.  Some
leave out more than the history that fails, which their comments say as well:
`UsersOwnIsKept` and `SignOutRestores` speak of the user's sign-in only as long as it is
the one that was there when ReCodex came, and with no such sign-in say nothing of
`auth.json`, which is where `OursIsRemoved` fails; `OfficialStaysOfficial` neither;
`ReturnRestores` says nothing of an installation over which the user signed in;
`SyncedIsWhole` and `CompletedIsServed` nothing once a lock was taken from a living process.

## 8. Running

In this directory, `tlc -workers 2 -config Session.cfg MCReCodexSession` and the like
(`PROJECT.json` names the module of each configuration), and `tlapm
ReCodexSessionProofs.tla`, and likewise `PhoneRemoteProofs`, `BridgeProofs`,
`LauncherProofs`, `OfficialModeProofs`, `SessionStorageProofs`, `ProviderSyncProofs` and
`RelayRotationProofs`.  The longest runs, `Phone.cfg` and `Provider.cfg`,
take about two minutes on two cores; each proof module takes two to five, except
`RelayRotationProofs`, which takes up to ten.
