# Verification of telegram-ai-cli-mcp

TLA+ models of `telegram_ai_cli_mcp` (source under `src/telegram_ai_cli_mcp/`), checked with TLC on
small instances and, all but the liveness, proved with TLAPS for every value of the constants. File names
below are relative to `src/telegram_ai_cli_mcp/`.

The program lets a language model read Telegram accounts and *propose* writes. A write is a **plan**:
stored in a database, shown to a person, and carried out only when that person runs `plan apply`. The
same program runs in several processes at once (a CLI, an MCP server, one daemon per account), so what
is hard in it is what happens between them, and between any of them and Telegram when a request is
neither confirmed nor refused.

## 1. Inventory

| component | state it keeps | operations | hard behaviour | what makes it correct |
|---|---|---|---|---|
| plan store (`plans.py`) | table `plans`: state, body, TTL | `create`, `claim`, `finish`, `reject`, `expire_stale`, `get`, `list` | several processes, one SQLite file; the clock read inside or outside the lock; a crash between claim and finish | one claimant; legal moves only; the queue within `max_pending`; nothing claimed after its TTL |
| rate limits (`limits.py`) | table `limit_events` | `reserve`, `commit`, `release`, `prune` | check then insert by several processes; a wall clock that jumps; refunds | no window over any ceiling; a used slot is never refunded |
| outbound ledger (`ledger.py`) | table `outbound_ledger` | `find_recent`, `record`, `settle`, `forget`, `prune`, fingerprints | the check and the row are far apart | no identical message twice in a window unless asked for |
| audit log (`audit.py`) | append-only file | `attempt`, `outcome`, `refusal` | must precede the effect; may fail | never says what did not happen |
| applier (`apply.py`) | the running `apply_plan` | claim, verify, reserve, attempt, record, execute, settle | every step can fail, each exception class ends differently; timeouts, cancellation, Ctrl-C, crashes; a late answer | at most one effect per plan; a plan shown as failed had none; whatever may have happened stays on record |
| state database (`db.py`) | the SQLite file | `immediate` | one write lock, 30 s busy timeout | transactions of two processes do not interleave |
| session lock (`accounts/lock.py`) | a `flock` per account | acquire, release | two processes on one MTProto session revoke it | one holder; freed on every path |
| account daemon (`daemon/server.py`, `service.py`) | socket, run lock, in-flight calls | bootstrap, serve, idle stop, drain | two starters; a stop racing a request; a failing open with a client connected | one owner; every accepted call is answered; the daemon stops |
| daemon client, dispatch (`daemon/client.py`, `dispatch.py`) | a connection | call, fall back, spawn | a call that may already have run | never run twice |
| account registry (`accounts/registry.py`, `store.py`, `loader.py`) | accounts and their status | add, load, disable, set status | status written after an await | a disabled account stays disabled |
| login, import (`accounts/login.py`, `qr.py`, `sources.py`, `bulk.py`) | session files, backups | login, import, restore | failure or crash half way | the old session survives a failed login |
| archive (`archive.py`, `ops/archive.py`) | messages, watermarks | sync (two walks), forget, search | interrupted walks, concurrent forget | no hole inside a range the archive claims |
| watch (`ops/watch.py`) | bounded queue | subscribe, collect a burst | overflow, deadline against arrivals | a burst without a gap, the true reason for stopping |
| media, transcription (`ops/media.py`, `transcribe.py`) | download directory, container | fetch, transcribe | a shared quota; timeouts while a container starts | quota kept, no container left behind |
| safety kernel (`safety.py`), operation registry (`opspec.py`) | none | decide | order of the rules | a refusal is never bypassed |
| planners (`ops/write.py`, `schedule.py`, `folder_write.py`, `quiet.py`), uploads (`outbox.py`) | what a plan records | plan a write | what was approved is stale when applied | apply refuses what changed |
| reads (`ops/inbox.py`, `mentions.py`, `chats.py`, `pending.py`, `search.py`, `folders.py`, `messages.py`, ...) | none | sweep dialogs, drafts, messages; read one chat | limits at every stage, several accounts merged, chats hidden or closed | what may be told is told, or cut and said so, or counted |
| MCP and HTTP servers (`mcp_server.py`, `http_server.py`, `roots.py`) | request window | serve | limits at the boundary | |
| configuration, rendering (`config.py`, `context.py`, `render.py`, `redact.py`, ...) | none | | | |

How they meet: the planners call `PlanStore.create`; the command line calls `expire_stale`, `reject`
and `apply_plan`; `apply_plan` uses the plan store, the limits, the ledger, the audit log, the session
lock (through `open_writer`) and Telegram, in that order; the daemon holds the session lock for as long
as it runs, and `dispatch.py` sends reads to it instead of opening the session. `PROJECT.json` lists
the same components with their status, and under `hazards` each place where the code is hard to test.

## 2. Modules

| module | models | |
|---|---|---|
| `PlanStore` | `plans.py` on `db.py` | transactions in three steps (begin, decide, commit) by any number of processes |
| `LimitStore` | `limits.py` on `db.py` | reserve in three steps, commit, release, prune, a clock that jumps |
| `PlanContract` | the promise of the write path | abstract: what a person sees of a plan, and how often Telegram acted on it |
| `ApplyPlan` | `apply.py` with `ledger.py`, `audit.py`, `accounts/lock.py` | the write path end to end; implements `PlanContract` |
| `AccountService` | the promise of sharing an account | abstract: one owner, an operation started at most once per call |
| `Daemon` | `daemon/server.py`, `service.py`, `client.py`, `dispatch.py` | daemons that race, serve, stop and die; calls that go through them or around them; implements `AccountService` |
| `Account` | `accounts/registry.py`, `loader.py`, `login.py`, `sources.py`, `store.py`, `lock.py` | one account's row, key files and locks under loads, imports, removals and logins |
| `Archive` | `archive.py`, `ops/archive.py` (sync, forget) | the two walks of a sync, page by page, and a forget in another process |
| `Safety` | `safety.py` | the kernel as pure operators, and a definition (`Promised`) that knows no order |
| `Review` | the planners in `ops/` and `_verify`, `_execute` of `apply.py` | what is shown, recorded and checked again, for all 31 write operations |
| `Listings` | the sweeps of `ops/` | one answer to one question: walk, filter, rank, cut, merge |
| `Watch` | `ops/watch.py` | the queue, the debounce and the ceiling |
| `Media` | `ops/media.py`, `transcribe.py`, `ops/transcribe.py` | quota, artifact and container of interrupted calls |
| `...Proofs` | | theorems and proofs |
| `MC...` | | TLC instances. `MCPolicy` is `Review` and `Listings` side by side, `MCLongCalls` is `Archive`, `Media` and `Watch`: `part` says which one a behaviour is of, and they share nothing |

`Safety` is extended by `Review`, `Listings` and `Watch`; `Daemon` and `ApplyPlan` are shown to implement
`AccountService` and `PlanContract`. `ApplyPlan` follows a request and knows plans only by their shape;
`Review` follows the content of one plan and takes the request for one step.

A comment that ends in "(Variation: ...)" introduces two definitions: the first is what the code would
do with a plausible bug, the second what it does. Nothing but the second is used; the first is there so
that each property can be shown to fail when the code is wrong (`mutants` in `PROJECT.json`).

### PlanStore

`state` and `expires` are the columns of `plans`; `writer` is SQLite's write lock; `pc`, `call` and
`verdict` say where each process is inside a method. `Enter` is the call, `Begin` is
`BEGIN IMMEDIATE` (`db.py:115-130`), `Decide` the reads and checks, the `Commit...` actions `COMMIT`,
`Rollback` an exception inside the `with`. `create` reads the clock before it waits for the lock,
`claim` and `expire_stale` after (`plans.py:212-217`): `stamp` keeps which. A lock not granted in 30 s
is `BeginTimesOut`; `Crash` may come at any step and leaves a claimed row as it is. `held` is the plan
`claim` returned; the applier closes that plan and, once closed as applied, may only turn it into
`unknown_outcome` (`_settle_unknown`).

### LimitStore

`rows` is `limit_events`. `Reserve` reads the clock, `Begin` gets the lock, `Count` runs the loop over
the ceilings, `Insert` commits. `SetClock` sets `time.time()` to anything at any moment. `Drop` is a
caller that forgets its reservation, or dies.

### ApplyPlan

One action per step of `apply_plan` (`apply.py:1730-1925`): `Claim`, `Open`, `Verify`, `Reserve`,
`Attempt`, `Record`, `Send`, the answers, `Leave`, and then the writes that close the plan: `Audit`,
`Finish`, `Forget` and `Release`, or `Commit` and `Settle`. Between any two of them another process may
run, and any of these may happen:

* `Raise`: an exception of one of the seven classes the except clauses tell apart, wherever
  `RaisesAt` says the code can raise it. Leaving `open_writer` comes first, then `Verdict` is the
  chain of except clauses in their order.
* `Abandon`: a write fails, or Ctrl-C arrives, inside an except clause; no sibling catches it.
* `Crash`: the process dies, and the kernel drops its lock.
* `Telegram`: the request is carried out, refused or lost, whether or not anybody still waits.

`phase` is the pair `started_rpc`, `rpc_completed`. `begun` is a history variable (when the ledger row
was first dated; `settle` moves `sent_at` later). Which operation a plan is matters only by its `Shape`:
one request; `chat.invite`, whose answer may say nobody was added; `chat.kick`, which bans and then
unbans; `chat.create`, which creates and then invites; `folders.add`, which issues no request when the
chat is in the folder already (`Unneeded`, `apply.py:1072-1077`) and is applied all the same. Only the
first request of the two counts as the effect. `PlanContract` allows a plan to be applied without an
effect only where it is `Dispensable`, which only a folder plan is; `AuditTellsTruth` likewise
(`NothingToDo`).

Simplifications: transactions are one step (justified by the two stores); an exception is raised
instead of a step, never between a database write and the next assignment of the same process; the two
audit lines of a refusal after an attempt are one step; ages are left out (a pending plan may expire
at any moment, a limit row never does, which only makes the budget tighter).

`ledger.py:42-48` says two plans with the same fingerprint can pass the check before either writes its
row. In the model, as in the code, they cannot when the plans act as the same account (the
fingerprint includes the account, so there is no other case): the check, the row and the request are
all inside `open_writer`, whose session lock is exclusive. `NoAccidentalRepeat` holds for that reason,
and fails as soon as the lock is taken away (its mutant).

### Daemon

Each daemon's `pc` walks through `AccountDaemon.serve`: `Boot` (`bootstrap.lock`, not waited for), `Look`,
`Probe`, `Clear`, `Bind`, `Listen`, `OpenSession`, `Connected`, then `serving`; `IdleStop` or `Signal` lead
to `RemoveSocket`, `CloseListener`, drain and `CloseSession`. `call` and `task` are the two ends of a
request: the caller (`dispatch.py`) and the connection's task in the daemon (`_on_connection`,
`_dispatch`). `key` is the account's session lock, `runLock` each daemon's `_run_lock`. A caller that finds
no socket, or is told nothing was run, runs the operation itself under the session lock; one whose
connection broke after the request left does not. Faults: a crash of a daemon at any step, an account
that cannot be opened, a caller's timeout. What a frame holds, the log and the status file are left out.

Worth knowing, and visible in the model: if opening the account fails while a client is connected and
queued, `_unbind` waits for that client's connection and the client waits for the run lock the bootstrap
holds, so neither ends (`StartsAndStopsEnd` names this exception). And `_unbind` waits for the
connections before the bounded `_drain` begins, so the drain's ceiling bounds nothing.

### Account

`row` is the account's row, `file` who the key in each file belongs to, `lock` the lock on each key. A load
reads the row, takes the locks, connects, and writes the verdict; an import or a removal reads, locks,
replaces; a login by phone or QR code backs the session up, signs in, verifies, and restores on failure.
Any of them may be killed between two steps, and Telegram may revoke a key at any time. The properties
say what does hold; their exceptions are the races that remain.

`LoginKeepsSession`: a session that worked is in its file or in a copy until Telegram revokes that very
key, an import of a session file or a removal replaces it, or a login that began it itself discards it.
No other step may lose it: not the rollback that wipes and copies back, not the end of a failed or a
successful login that drops its copy, not a kill. Its mutant is a rollback that wipes and does not copy
back; a login that makes no copy, a kill that takes the copy along and a failed login that wipes what
it found break it too.

`DisabledStays`: the account is off when its row says so, or when the row a login over it has set aside
does (`IsOff`): the row such a login writes meanwhile is temporary. Apart from enable and a new registration
it is turned on again only by a process that found it on, a load that writes its verdict or a login that
fails and restores the row it found, so that a disable made meanwhile is written over. That race is in the
code (`registry.py:179`, `store.restore`), and the property names it rather than denies it. A login that
found the account off must leave it off when it fails; its mutant is a rollback that writes the new
registration instead. One killed before it could roll back leaves its new registration, which is on.

Worth knowing, and visible in the model: a load or a change reads the row before it has the lock, so a load
can run on a registration replaced meanwhile (`UnderAClient`). In particular, one that read a login's
temporary row and gets the lock after the rollback connects an account that is disabled again, although the
docstring of `_preserve_existing_login` says that no loader can observe the temporary row or files. An
enable made during a login over a disabled account is undone by its rollback. A login killed during its
rollback leaves the old key in the backup directory (`left`), where nothing looks for it (`IdentityAgrees`
requires `left = {}`). A re-import of tdata keeps the session converted from the previous one.

### Archive

Message ids stand for messages, 0 for `None`. `row` is the chat's watermarks; a hole left by an
interrupted walk lies between `newest` and `from`. A sync is `Begin`, then `Fetch` and `Store` page by page,
for what is new and then for what is old, then `Save`; the two statements of a forget commit separately.
Worth knowing: a chat that was empty when first synced is marked complete and never fetched again; the
pages of a failed sync lie above the watermark, and until the next run nothing says that they are not
contiguous (`archive.py:249`); a forget killed between its two statements leaves watermarks without messages.

### Safety, Review

`Verdict` is `check` in its order; `Promised` says what the order is to achieve. In `Review` each planner
and each case of `_verify` is a list of steps (`<<"resolve", "chat">>`, `<<"allow", "chat", "SEND">>`,
`<<"fetch", "message">>`, ...) in the order of the code, which `Read`, `Pass` and `Refuse` interpret. Between
two steps names move, messages, reactions, pins, titles, descriptions, photos, folders and files change,
time passes, and the configuration is edited (an apply runs in a process of its own, which loads it anew).
`held` collects what has been as recorded at some moment since the apply began: the code cannot promise
that it still is when the request arrives. Of a message only its body, attachment and sender count, of
a folder its id and members, of a file its digest. Plan parameters are never rewritten, so comparisons with
them alone (`recheck_mute` and its kin) are left out.

Worth knowing: `title_sha256` is recorded but not compared; the account is connected before the profile is
checked again; a file is read again after its digest was checked; an edit of a folder by another client
between the read and the write is lost, since Telegram replaces the whole filter.

### Listings

`question` is the operation, its switches, the configuration and what the accounts hold; `answer` the rows,
the counts (`hidden`, `withheld`) and `truncated`. A chat, draft or message is known by its place
`<<a, i>>`, the i-th item of the a-th account asked, and what a sweep collects is a set of places: a stable
sort followed by `[:n]` leaves those with fewer than `n` of the others `Ahead`, and a loop that stops at its
n-th hit has looked at the places with fewer than `n` hits ahead (`First`, `UpTo`). The walk, the filters,
the ranking and the two cuts (per account, then merged) are the handlers', and the properties compare the
answer with what the question asks for (`Relevant`) and the policy promises (`Tellable`). Left out: wording,
context rows, paging cursors, the regex time budget, the archive's staleness warnings. `Relevant` takes over
the code's notion of membership in a folder.

Worth knowing: a global search looks at `limit * 4` results only, so `truncated` may be false although more
was permitted; `handle_chats` looks at its cap only after a match; an archived chat is judged by its id
alone (`ArchivedChat.peer`, `archive.py:263-286`), so that a *deny* entry that names a chat by its username
is not heard where the archive is read, though the comment there calls the narrowing fail-closed.

### Watch

`Arrives` is Telethon's handler; `Take`, `LookedUp`, `Drop` and `Keep` are `filtering_source` and
`collect_burst`; `Tick` is the clock, and timers may be late. A message that waits is taken at once: the loop
is ready. `late` are the messages that found the queue full; the burst is whole only up to the first of
them (the overflow is silent, by design). A slow chat lookup can use up the debounce, and a message
already queued is then left out under "quiet"; hence the last conjunct's hypothesis. The branch of
`_queue_source` for a window of 0 cannot be reached: `filtering_source` returns first.

### Media

`file` is the artifact, `client` the `docker run` process and `box` its container. A mishap is something the
code cannot mend: the audit record cannot be written once the artifact exists (the empty file stays), a
cancellation inside the spawn or a second one during the cleanup, a client that dies by itself, an `rm` that
fails, the death of the process. `together` is the quota race: two calls that both counted before either wrote.

## 3. Runs

| run | instance | shows |
|---|---|---|
| `plan_store` | 2 processes, 3 plans, quota 2, TTL 1, clock to 1 | quota, one claimant, legal moves, no late claim |
| `limit_store` | 2 processes, 2 accounts, 2 targets, 3 reservations, window 1, clock 0..2, prune after 1 window | every window of every scope within its ceiling; no refund of a used slot |
| `apply` | 2 appliers, 2 identical messages of one account (the second with `allow_duplicate`), window 1, clock to 2, every fault | effects on record, the audit log true, one session holder, `PlanContract`, no accidental repeat |
| `apply_live` | 2 appliers, an invite, a kick and a chat put in a folder, one slot | the budget, and that every claimed plan is closed, every slot settled, every session freed |
| `daemon` | 2 daemons, 2 calls (one under another configuration), 1 connection, crashes, failing opens, timeouts | requests run connected and alone; a serving daemon is reachable; `AccountService`; starts, stops and requests end |
| `account` | a loader and a changer, 2 people, 3 changes, kills and revocations | one client per key; row and key agree; no login loses a session that worked, wherever it fails or is killed; who may bring a disabled account back |
| `policy` | 31 operations in their interesting forms, 5 peers, 2 names, 3 configurations, 2 changes of the world; and 8 sweeps over lists of up to 3 chats or messages, 1 and 2 accounts, 5 configurations | what leaves is what was reviewed; the policy is asked first, both times; what a sweep may tell it tells, or cuts and says so, or counts |
| `long_calls` | 4 messages, pages of 2, 2 troubles; 2 downloads, quota 3, 1 mishap; a watch of 3 messages, a queue of 2, time to 4 | no hole, no orphans, the whole chat in the end; nothing left behind; the burst whole |
| `create_refund` | one `chat.create` | violation: closed as failed although the group exists |
| `unknown_before_request` | one message | violation: closed as `unknown_outcome` although nothing was sent |
| `wedged_plan` | one message, failing storage | violation: left in `applying` for ever |
| `inbox_stops` | one account with a chat beyond the walk's cap | violation: `truncated` is false |

**Bounds.** Every hazard here is between two processes, so two are enough to meet it; the third plan of
`plan_store` is the one that finds the queue full. The quota, ceilings, TTL and windows are the smallest
that can be both met and exceeded. Clocks run just past the end of one window. In `limit_store`
`PruneWindows` is 1 (24 in the code) so that rows do get old enough to be pruned; the admin kind has no
demand there because it is the same code path as joins. Deadlock is not checked: a system whose clock
is at its bound and whose plans are all closed stops.

Two daemons and two calls are what a race for the socket and a queue for the run lock need; daemons and
calls run once, so a restart is the second daemon. `account` has three changes so that a login can meet an
import that follows a removal. In `policy` two changes suffice to move a name away and back, or to change
what is read and then the configuration; lists of three items, two of one chat, are one more than the
larger limit asked for. Four messages in pages of two are the least at which a sync is interrupted with a
hole below what it stored and a later one meets it again. The watch's times allow a debounce that is
restarted once and one that would outlast the ceiling.

**Fairness.** `apply_live` and `wedged_plan` assume weak fairness of the steps of an apply that was
started. asyncio schedules a runnable coroutine, `_execute` runs under `asyncio.wait_for` (`apply.py:1806`), so `TimesOut` is always there when the answer is not, and a SQLite or file write
returns or raises. Nobody is obliged to start an apply, no exception is obliged to come and Telegram is
not obliged to answer. `apply_live` allows every exception but a crash, failing storage and Ctrl-C,
because with any of those the liveness properties are false, `wedged_plan` being the case worth
knowing. Its liveness properties are written `[]<>~P` (the plan is not in `applying`, the slot not
`reserved`, the session not held), which is the same formula as `P ~> ~P` and costs the checker less.
`daemon` assumes that an event loop runs what is ready, that an operation returns, and strong
fairness of the run lock (`asyncio.Lock` is first come, first served); nobody has to start or stop a
daemon or to give up. `long_calls` assumes, of the archive only, that the sync is run again and again and
that what was begun goes on; failures and kills are bounded by `MaxTroubles`.

## 4. Findings

1. `chat.create` closes a plan as failed, and refunds its slot, when the *invitation* is refused, though
   the group was created (`apply.py:1224`; `chat.kick` guards the same case).
2. A connection error or a cancellation before any request is reported as "the request left"
   (`apply.py:1861`, `1891`).
3. If the write that closes a plan fails inside an except clause the plan stays in `applying`, which
   nothing can pick up (`apply.py:1868`).
4. An inbox whose walk stopped at `MAX_DIALOG_SCAN` says `truncated: false` (`ops/inbox.py:149`), where
   `docs/operations.md:38` promises the contrary; the same walk in `mentions.py:452-477` and `chats.py:433`
   does say so. A global search keeps the promise no better: it stops after `limit * 4` results
   (`search.py:211-213`) and reports `truncated` from the hits it kept (`search.py:276`); `ToldOrCounted`
   leaves that case out (`Looked`), so no run shows it.

## 5. Theorems

Each `...Proofs` module proves one inductive invariant (`Inv`; `ArchiveInv`, `MediaInv` and `WatchInv`
where it is about three components) and draws the theorems from it. Nothing is assumed but the `ASSUME`
of the component's module and the hypotheses named below.

**PlanStoreProofs** (any number of processes and plans, any quota, TTL and clock). A process past
`BEGIN IMMEDIATE` holds the lock, and where it reads the clock inside, it read it when the lock was
granted (`LockHeld`); what it decided is what it would decide now (`DecisionStands`), because nobody
else can write between; fresh ids stay fresh; a held plan is past `pending`; a finish is about its own
plan. `DecisionStands` is what makes the quota inductive: the count taken before the INSERT is still the
count. Theorems: `TypeCorrect`, `PendingWithinQuotaHolds`, `OneClaimantHolds`, `LegalMovesHolds`,
`ClaimedInTimeHolds`.

**LimitStoreProofs** (any processes, accounts, targets, ceilings, windows). The same argument
(`LockHeld`, `CountStillTrue`), and one that is particular to it: a row dated `t` is in a window
`[s, s + Window]` only if every other row of that window is counted by `created_at >= t - Window`,
because the query has no upper bound; so it does not matter that the clock was read before the lock, or
that it was set back since (`WindowWasCounted`). Theorems: `TypeCorrect`, `WindowCapHolds`,
`UsedStaysUsedHolds`.

**ApplyPlanProofs** (any appliers, accounts, plans, ceiling, window, clock and faults). The invariant is
a statement about one plan (`PlanOk`) and one about one applier and its plan (`ApplierOk`). `OneJob` (no
two appliers have the same plan) lets each step be examined for its own applier and plan only
(`StepFrame`, `PlanUndisturbed`, `ApplierUndisturbed`). The heart of it is `Ended`: an exception
answered with a refund or with "failed" (`NoTrace`) is raised only where the request cannot take effect
any more. That is false for `chat.create` (finding 1), so the theorems about effects carry the
hypothesis `NoCreate`: `EffectIsOnRecordHolds`, `AuditTellsTruthHolds`, `KeepsContractHolds` (the
refinement of `PlanContract`) and `BudgetKept`. `TypeCorrect` and `SessionHeldHolds` need no hypothesis.
`NoAccidentalRepeatHolds` adds that a fingerprint determines the account (`ledger.py:83-119` digests
it) and that the window is positive (with 0 the ledger is off); its invariant `Cleared` says that what
the duplicate check found stays true until the request leaves, since the only process that could
change it would need the same session lock.

**SafetyProofs** (any configuration, peer and capability). `KernelKeepsItsPromise`: the ordered,
early-returning `check` allows exactly what `Promised` says without an order; `DenyingMoreOpensNothing`:
more denials, with the same profile and allow lists, open nothing. Both are about a peer with an id and
a kind the kernel knows. The watch and the plans are proved on top of it (`AdmitsAsPromised` in
LongCallsProofs, `Judged` and `OpensWhatMayBeRead` in PolicyProofs).

**DaemonProofs** (any number of daemons, callers and connections; any configuration of each and any
of the faults). `Inv` says who holds what: `bootstrap.lock` the daemon that starts, the session lock
whoever has the account open, a run lock the daemon that opens the account or the request it runs
(`BootHeld`, `KeyHeld`, `RunHeld`); that the path is the socket of whoever bound it and has not unlinked
it, and that nobody is about to replace the socket of a daemon that serves (`PathTaken`, `NoRival`); and,
of each call, that its connection is one of a daemon that talks and that how often its operation was
started follows from where the call is (`Connection`, `Counted`). `NoRival` is what the probe is for:
without the bootstrap lock two daemons could both find nobody. Theorems: `TypeCorrect`,
`RunsConnectedHolds`, `ServingIsReachableHolds` and `KeepsServiceHolds`, the refinement of
`AccountService`, step by step.

**AccountProofs** (any number of loaders, changers and people). `Inv` says what each process is doing and
which lock it holds while doing it (`OfAKind`, `Locked`), whatever the others do. From it, without a
hypothesis: `TypeCorrect`, `OneClientPerKeyHolds`, `UnderAClientHolds`, `DisabledStaysHolds`. Two theorems
say more about a login and carry the hypothesis `OneChanger`, one process at a time that changes the
account beside any number that load it: `LoginKeepsSessionHolds` (a login holds a copy of the session it
found until it has put it back, and a row or a copy only while it is signing in, so that no later step and
no kill can take the last one with it: `Kept`, `OfAKind`, `OwnSession`) and `IdentityAgreesHolds`, which excludes a kill between the two
writes of an import as its run does. The hypothesis is needed, and `account` has one changer for the
same reason: an import locks the key of the row it *read*, so one that read a string session, or no row,
does not exclude a login, which holds the lock of the session file. With `--replace` it can then copy a
session file under the login, and the login's rollback undoes it (TLC finds this with two changers).

**LongCallsProofs** is about `Archive`, `Media` and `Watch`.

`Archive` (any page size, set of budgets, number of messages and of troubles): between two saves the
sync knows more than the row says, so `ArchiveInv` speaks of the row, of the marks being worked out and of
the walk: each vouches only for what is on disk (`Vouched`, `WalkStored`), and their bounds lie in order,
the hole above `newest` and the walk inside it (`Fits`, `WalkFits`). `PageIsWhole` is what a page of the
API guarantees until it is stored, also when messages arrive or disappear meanwhile: nothing is missing
above its lowest id, and nothing below either when it is shorter than asked for. Two lemmas say that a
walk which ends, at its floor or with its budget spent, leaves marks that still vouch for what is on
disk only (`AfterNewCovers`, `AfterOldCovers`). All of it is claimed only while the chat has a row and no
forget is halfway: a sync overtaken by a forget can neither store nor save. Theorems:
`ArchiveTypeCorrect`, `NoOrphansHolds`, `NoHoleHolds`.

`Media` (any number of calls and sizes, any cap, quota and number of mishaps): the directory is the set
of bytes stored in it, so that what one write adds is a fact about cardinalities (`ByteLands`,
`NothingLands`). `MediaInv` says of a call how far its file is and what of docker it still answers for
(`FileFits`, `DockerHeld`), and of the quota that what is on disk and what the one writer was still left
stay within it (`WithinQuota`); it is this sum, and not the usage, that is inductive. Theorem:
`NothingLeftBehindHolds`.

`Watch` (any peers, calls, queue and clock): every message is reported, waits, is looked up or has a
reason not to be (`Accounted`), all of them in the order they came (`InOrder`), and the end of the wait is
what the last message kept made it (`Waiting`). `JustCame` is what makes "quiet" true: once the clock has
moved since the last message kept, what still waits in the queue has come just now, so a wait that ends
with the debounce has left nothing out that came before it. That a message admitted by the order of the
kernel's rules is one the policy promises is `KernelKeepsItsPromise`, used here. Theorem:
`BurstIsWholeHolds`.

**PolicyProofs** is about `Review` and `Listings`.

`Review` (any configurations, requests, peers and names, any number of changes between creating
a plan and carrying it out): beside `ReviewAssumption` it uses `RequestAssumption`: a request names a
known operation and somebody for each role, which is an invitation only for a join, and "nothing read
yet" (`None`) is no value of what can be read. TLC evaluates both on the runs. The operations are
programs which an interpreter runs, so the argument has two halves. Of each program, read as a list:
the profile is checked before a name is looked up and the policy before anything behind it is read
(`PolicyFirst`), nothing is read again once a step has passed that rests on it (`ReadsInOrder`), and a
`_verify_*` compares all that its planner records (`Compares`). There is one lemma for every distinct
planner and verifier; `PlannersPlan` and `VerifiersVerify` collect them. Of each state (`Inv`): the steps
behind hold of what was seen, and everything seen was read by one of them (`Traced`); the plan holds what
its creation saw (`Noted`); what is as recorded, or was read again and found as recorded, is held
(`Caught`); and a refused request was refused before anything behind the policy was read
(`PolicyKept`). The lists carry the state from one step to the next: a step that reads cannot
disturb what an earlier step established, because none rests on it. Theorems: `TypeCorrect`,
`PolicyComesFirstHolds`, `ActsOnWhatWasReviewedHolds`.

`Listings` (any accounts, chats, questions and configurations, any limit and length of a walk;
`ListingAssumption` asks that counters are integers, that an item's chat has an id and a kind, that the
service account is closed by its id, that only an inbox and the mentions ask more than one account, and
that only an inbox and a list of chats are asked within a folder).
An answer is given once, so the invariant `AnswersTheQuestion` is small, and the work is in what each of
the eight handlers computes. What is walked, found and shown are finite sets of places, one inside the
other (`WalkIsFinite`), and a rank orders them (`RanksOrder`). From that order alone: a place that was not
taken has as many of the taken ahead of it as were asked for, because the least of the hits left out has
(`EnoughAhead`); so a list that was cut is full and nothing in it stands behind what was left out
(`LeftOutIsBehind`, `CutIsShorter`), and a walk that ended early has found all it was to find
(`FoundEnough`). `MergedMentionsAreRanked` is the same for the mentions, where each account is ranked and
cut before the accounts are merged and cut again. What must be counted is the image of the places the
handler counts, so it is no more of them (`CountedByPlace`, `CountedTogether`). There is one lemma for each
handler; `EverySweepTells` collects them. Theorems:

* `ToldOrCountedHolds`, the property of the run.
* `OnlyTheWalkGoesUnsaidHolds`: where no account has more dialogs than one walk sees, an inbox that is not
  `truncated` lacks nothing. So finding 4 is the one way in which `InboxSaysWhenItIsCut` fails.
* `ArchiveFailsClosedUnlessDeniedByName`: what the archive may read by a chat's id a live read may read
  too, provided that no deny entry names the chat by its username. The hypothesis is the exception noted
  under Listings above.

Only model-checked: the liveness properties (`ClaimedIsClosed`, `SlotSettled`, `SessionFreed`,
`StartsAndStopsEnd`, `ServedConnectionEnds`, `CatchesUp`), since the prover has no rule for fairness, and the
four findings, which are false. Every other property of the runs is a theorem, under the hypotheses named
above where there are any. The runs and the proofs use
the same definitions: no configuration replaces one.

## 6. What is left

**To model**: the reads of one chat (history, members, topics, reactions: a check, a request and a paging
cursor); the request window of the HTTP guard; bulk import, which is a loop over imports.

**Not modelled**: configuration, rendering, redaction, the MCP plumbing and the command line outside `plan`
keep no state of their own and decide nothing the properties are about. The operation registry is a
table. Docker, Telegram, SQLite and asyncio are external and modelled by how the code uses them.
