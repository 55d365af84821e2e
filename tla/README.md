# agy-remote, modelled and checked

TLA+ models of agy-remote's server (`src/src/agy_remote/`), TLC configurations
that check them on small instances, and TLAPS proofs of what matters most.
`PROJECT.json` has the machine-readable side: components, runs, the source lines
each definition translates, variants of the code that each property catches,
findings and hazards. Paths below are relative to `src/src/agy_remote/` unless
they start with a repository file such as `README.md`.

## 1. The system

agy-remote lets a phone watch and steer a coding agent (`agy`) that runs in a
terminal. One FastAPI process (one asyncio thread) sits between three parties:
the agent, which it supervises in tmux or a pty and whose transcript it tails;
the hook process agy starts before each tool call, which asks the server for a
decision and blocks; and the phones, connected by WebSocket and REST.
A watch loop (`session_manager._watch_loop`, every 0.3 s) does everything that no
request triggers: backend tick, inbox poll and loop alerts, screen broadcast,
queued prompts, stall checks, expiry and reaping of clients, job polls.

| Component | State | Operations | Hard behaviour |
|---|---|---|---|
| Approval gate (`session_manager` 357-378, 1237-1246, 1898-1957, 2100-2240; `server` 1003-1080) | `_pending_approvals`, `_approval_futures`, policy | hook call arrives, broadcast of the request, wait, answer from any surface, timeout, purge of old answers | a handler suspended in a send while clients leave, answers arrive or other calls register; second answers; dead sockets |
| Client registry (413-526, 1806-1827) | `_connected_clients`, `_client_last_seen`, `_client_devices`, `_client_focus` | register, unregister, prune, expire, reap, focus | four maps changed in different places; the set is iterated across awaits |
| Event stream (528-568; `server` 1270-1288; `static/app.js` 787-986) | `_event_seq`, `_outbox`; on the page `lastReceivedSeq` and its pictures | broadcast, snapshot (`init`), replay | missed, repeated and late events, lost connections, restart |
| Agent mailbox (`mailbox.py`; `session_manager` 1036-1131) | one JSONL file per session, `_inbox_pos` | send, poll, hold, type | half-written lines, cut files, a terminal that dies in mid-batch, exceptions |
| Loop guard (`loop_guard.py`) | per pair: window, count, latch, mute | admit, purge, commit, human prompt, mute | bursts after holds, latch at its limit, alert exactly once |
| Prompt queue (1137-1225, 1329-1388; `backends` 744-773) | `_prompt_queue`, busy inference | submit, queue, deliver, cancel, reorder | several phones and the watch loop on one queue; busy is inferred, not known |
| Meta-AGY jobs (`meta_agy.py`; `session_manager` 768-936) | `_meta_jobs`; the jobs at the worker service | poll, read, submit, retry, cancel | answers that overtake one another, lost answers |
| Sessions, spawner, supervisors (`spawner.py`, `session_manager` 600-660, 934-972, 1390-1451; `tmux_runner.py`, `pty_runner.py`) | `_sessions`, the global supervisor, mirror and `cfg.tmux_session`; the spawner's task | adopt, spawn, route a prompt, a key or a screen, kill | terminals that die, strangers' tmux sessions, a spawn that fails at any stage |
| Transcript tail (`backends` 216-366, 539-723) | offset, active and supervised conversation, steps | tick, follow, switch, bind | a switch inside a batch, half lines |
| Server registry (`config` 745-999, `cli` 216-318, 447-576, `server` 111-133) | runtime state file, one registration per port | preflight, publish, bind, withdraw, look up | several processes, no lock, files of dead ones |
| Hook process (`hooks.py`) | none kept; skip-permissions marker | find the server, ask it, fall back | which server; three nested timeouts, 240 < 270 < 300 s |
| Replay guard (`crypto.py` 79-123; `static/app.js` 240-261) | remembered nonces | check an envelope | bounded memory, two clocks |
| Push (`push.py`) | subscriptions, preferences | subscribe, send | best effort |
| Stall watchdog | clocks of the last activity | hint | clocks |
| Phone app (`static/`) | what is on screen | `handleServerEvent`, reconnect | see event stream |
| HTTP and file endpoints | none of their own | - | - |

What makes each correct:

- **Gate.** Every hook call is decided; the decision is the first accepted answer, or the timer's
  denial; nothing is allowed that nobody allowed; a held call can be found by a phone
  that reconnects; the history stays bounded.
- **Stream.** After any reconnection a page shows what blocks the agent, and
  nothing that does not.
- **Mailbox and guard.** A message is typed once and in order and is never behind
  the offset untyped; a pair never exceeds its rate or its latch; each latch is
  announced once; held mail moves again.
- **Queue.** A queued prompt is in one place, has one end, and is delivered.
- **Registry.** Nothing is kept for a dead socket, a phone that is awake stays, the
  announced count becomes right.
- **Jobs.** Pushes are earned and completions are not missed; one tap starts one job;
  cache and pages recover from stale answers.
- **Sessions.** Keys reach the terminal whose screen is shown, on request or live (for the live screen
  not always, section 6); a prompt reaches the agent of its conversation (not always either);
  strangers' sessions are left alone (but for a race, section 6); spawns end.
- **Transcript.** The shared view is the transcript, in order, each line once.
- **Replay guard.** No envelope passes twice as it was written, although what is remembered is bounded.
- **Servers.** An orderly end leaves no file; no process takes what it saw belong to
  another live one; a hook finds the one server there is.

Interactions: the gate, the queue and all endpoints talk to the phones only
through `broadcast`; an exception in it therefore surfaces in whoever called. A
pending approval makes its conversation busy, so it holds the prompt queue. The
mailbox types into the same terminals as the queue, through the guard. A human
prompt resets the guard.

## 2. Modules

| Module | What it is |
|---|---|
| `Approvals` | the gate: hook handlers, broadcasts, answers, timeouts, clients, policy |
| `ApprovalGate` | what the gate promises agy, with no sockets, maps or futures |
| `ApprovalsProofs` | the inductive invariant, the safety theorems, the refinement |
| `LoopGuard` | one pair's record and the methods of the guard, as operators |
| `Mailbox` | inbox files, writers, the poll line by line, terminals, humans; composes `LoopGuard` |
| `MailboxProofs` | its types and five safety theorems: latch, alerts, rate, nothing lost, once and in order |
| `PromptQueue` | queues, the busy inference, delivery, cancel and reorder |
| `EventStream` | broadcast, outbox, snapshot, replay, connections, restart, one page's picture |
| `EventStreamProofs` | its inductive invariant, and that what is held is shown and what is shown is pending |
| `Presence` | sockets, devices, the count, activity and reaping |
| `ReplayGuard` | which envelopes a side lets through to the cipher, and what it remembers of them |
| `PhonesProofs` | the inductive invariants of `Presence`, `PromptQueue` and `ReplayGuard`, and six safety theorems |
| `MetaJobs` | the job cache against the worker service |
| `MetaJobsProofs` | its inductive invariant and two safety theorems |
| `Sessions` | which terminal a request reaches; the spawner's stages |
| `SessionsProofs` | its inductive invariant, the keys and the two screens |
| `Transcript` | the tick, the shared view, switching |
| `TranscriptProofs` | its inductive invariant, the view and the transcript |
| `Servers` | processes on shared runtime files; hooks that look for them |
| `ServersProofs` | its inductive invariant and four safety theorems |
| `MC*` | instances for TLC |

### Approvals

The server is single-threaded, so a handler is atomic between two awaits; every
await that may yield is a place between two actions. `hook[h]` is where the
handler of hook call `h` stands:

`idle` -> `autoAllowed` (policy), `asked` (nobody connected) or `casting`
(registered, its request being sent) -> `waiting` -> `answered`, or -> `expiring` -> `timedOut`;
from `casting` also `asked` (the last client turned out dead), `crashed` (the
iteration raised) or `answered` at once (an answer came during the broadcast; awaiting a
settled future does not yield).

`asyncio.wait_for` (Python 3.13, `pyproject.toml:10`) ends the wait in two steps. Its timer cancels the handler's
task (`TimerFires`): an open future is `cancelled` with it, a settled one stays, but the handler will get the
cancellation instead of it. Only when the event loop comes to the handler does it pop the entry and deny
(`AwaitTimesOut`). Until then the entry is listed, and `resolve_approval` accepts an answer for it.

| Action | Code |
|---|---|
| `HookAutoAllowed`, `HookNobodyWatching`, `HookHeld` | `hook_pre_tool`, `request_approval` up to the first send of `register_approval`'s broadcast |
| `BroadcastContinues`, `BroadcastEnds`, `BroadcastRaises` | one step of `for ws in self._connected_clients` after its `await` |
| `HookReturns`; `TimerFires`, `AwaitTimesOut` | `await_approval` resumes with the answer; its timer fires, it resumes with the timeout |
| `Resolve` | `resolve_approval` from any surface, with `_forget_old_answers` |
| `Connect`, `Disconnect`, `Prune`, `Expire`, `SetPolicy` | registry and settings, at any await of anybody |

`first` is a history variable: the first answer that `resolve_approval` accepted.

Left out: `bind_supervised_conversation`, whose broadcast comes before the approval
exists and changes nothing here; the push message and the focus entries that
decide about it (nothing in the gate reads them); the popup, which
answers through REST like everybody else; the text of reasons; the answer's `overwrite`.

### Mailbox and LoopGuard

A file is a sequence of lines plus perhaps a half line; offsets count half lines (a
complete line is two), so an offset inside a line exists. `poll` is the local state of
`poll_inboxes`: which session, which lines of its batch are left, where it stands,
which pairs latched. The poll itself does not await, so requests are served only
between polls (`~Polling`), but terminals, files and the clock are other processes and
change between any two lines. `recent` and `streak` are history: the exchanges that
really happened, against which the guard's own book-keeping is checked. `HandsOnFiles`
switches editors and half-written lines on, `InjectMayRaise` a tmux that cannot be started.
The guard's timestamps are kept as ages, which grow with `Tick`; `purge` pops the head of the deque until it is
fresh, which is the stretch `Fresh` behind the first `Stale` entries.

### PromptQueue

`turn` is the truth about the agent, `recent` and `gate` what the server infers it
from. `fate` is each prompt's end. `Queue`, `SendNow`, `Deliver`, `Cancel` and `Reorder`
are the code's operations; the rest is the agent, the desktop and the terminal. A
dead terminal of a spawned session stays registered (`pane = "dead"`), because nothing
in the source calls `unregister_session`. `gate` is the pending approval of a conversation: one whose request
crashed is an `orphan`, until somebody who finds it listed answers it (`OrphanAnswered`).

A reorder request is a list of ids from a page, which may be out of date: `Reordered` is the old queue read
at two sets of positions, the first places of the ids that are queued (`Listed`, `FirstsOf`) in the order of the request,
then the places of those it does not name (`Unlisted`); `At(q, S)` reads `q` at the positions `S` in
order. The names of this module and of `ReplayGuard` that other modules have too (`QueueSpec`, `GuardSpec`) are
prefixed, because one module of proofs extends all three.

### ReplayGuard

One life of one side's memory: the server's `ReplayGuard`, or the page's `checkReplay`, which has the same
rules. It is the guard alone, on what it looks at: an envelope is a nonce field and a `ts` field, and any may arrive at
any time and any number of times. The guard compares nonces as they are spelled, before they are decoded (`crypto.py:101`, `:160`), and remembers
one before the cipher has verified anything (`:158`, `:162`), so two spellings are two nonces to it and what it remembers need not
have been sealed by anybody. What the cipher then makes of an envelope is outside, and the module says nothing of it.
`Check` is an arrival that passes; one that is refused changes
nothing. `passed` and `lastPassed` are history. Time has no bound, and
no run checks this module: its two properties are proved (section 4), from `GuardParameters`. The guard's clock is taken not to run backwards
(`time.time` may, if the host's clock is set back). A restart empties the memory and is another life.

### EventStream

A broadcast numbers and records its event, then sends it to one member of the
live client set after another; each send may wait, and `casts` holds the broadcasts
that do. `CastGoesOn` is the next step of the iteration: it raises only if the set
has changed its *size*, so a set that lost one client and gained another is iterated
further. A frame is on the page when it is written to a connection that is up; one lost
in flight is one written after the connection went down. `Connect` and `Announce` are
`register_client`; a replay (`ReplayBegins`, `ReplayGoesOn`) walks the live outbox by
position, as iterating a Python list does. `HangUp` keeps what the page
keeps: its picture and `lastReceivedSeq`. `session_switched` carries a list of pending
approvals of its own, so a replayed one paints an old list.

Assumed: concurrent iterations of the set meet its members in one order and
the writes that wait for one socket go on in turn (`InTurn`). Left out: pages that
auto-accept (they answer instead of showing), device counts, a second tab, a
page reload (a page that knows nothing, like a new one), `_forget_old_answers` and
`disconnect_expired_clients` (both in `Approvals`).

### Presence

Per socket: `link` is the truth about the connection, `hand` where its handler is; `conn`,
`device`, `focus`, `age` are the server's four maps. Four events end a socket and each
forgets another part: `Leave` (the receive raised: `unregister_client`), `Broadcast` (a failed
write: only the set), `ReapOne` (everything, then the close), `Expire` (only the set). `told` is the last
`peers` count a socket was sent. A phone may be asleep on an open connection (`quiet`) and
wake on it (`woken`) or come back on another (`DeviceOf`). `Connect` may raise in its
announcement, outside the handler's `try`: `hand = "lost"`. A broadcast is one
step here; its interruptions are in `Approvals`. `Tick` is the reaper's clock; a phone
that is awake is heard in every tick, because its ping comes every 20 s and a
tick stands for the 45 s limit.

### MetaJobs

Every request to the service is cut in two: `PollTaken`, `GetTaken`, `Cancel`, `Submit`, `RetryTaken` take
an answer, `*Applied` apply it later, when the cache and the service may both have moved on.
`Normal` is `normalize_job_status`. A page polls, reads, submits, retries and cancels, one
request at a time; the watch loop polls. A retry whose answer is bad or lost goes on
to `get_job` and `submit_job` (`Fallback`). Failed jobs count as completed, no handler tells
them apart.

### Sessions

`slot`, `mirror` and `cfgSession` are the three globals an adoption takes over
(`tmux_instance`, `mgr.terminal`, `cfg.tmux_session`); `sessions` and `bound` the
registry and the conversation of each record; `talk` the truth about who runs which conversation.
`GetSupervisor`, `GetScreenMirror`, `PromptTo` and `PressKeyTo` are pure translations of the
routing code, and `LiveScreen` is what `broadcast_terminal` and the `terminal` of `init` send every phone. The page draws the latter
whatever it looks at (`app.js:938-943`), and its key buttons name no conversation (`app.js:2211-2214`), so they reach `PressKeyTo(None)`;
a request for a screen may name one. The spawner is `spawn.at`, one stage per await; `Look` and
`CreateAndAdopt` are two steps because `has_session` and `new-session` are two tmux
commands, and `Foreign` may come in between.

### Transcript

Sizes and positions count half lines, as in `Mailbox`. The tick is five steps, `Bind`,
`Follow`, `ReadNew`, and per step of the batch `SendStep` (before it `SendRename` for a `/rename`);
`Open` (a phone), `HookCalls` (a hook call binds) come between any two. `intact` is history: no batch has
been overtaken, no broadcast raised, no half line read since the view was loaded. A read from a position
(`Read`) returns the lines from the first one that begins at or behind it (`FirstWhole`).

### Servers

A process and its pid are the same value. `pc` is one process's way from preflight to
its end; each look at a file, each truncation, write and unlink is a step. An ended process is
`gone` (its lifespan ended) or `crashed` (killed, or a `run` whose agent exited: the server thread is
a daemon and its lifespan never ends). `open` says who still writes to the present state
file: two writers of different length leave a `Garbled` file. A hook goes one of three ways
(child of a `run`, pane of an adopted tmux session, terminal of its own) and is followed while
its server has been alone since it started (`lone`).

## 3. Runs

| Run | Instance | Shows |
|---|---|---|
| `approvals` | 2 calls, 2 clients, history of 1 | `DecidedByFirstAnswer`, `AllowNeedsConsent`, `HeldIsListed`, `OnlyACrashOrphans`, `EveryCallIsDecided`; the gate refines `ApprovalGate` |
| `mailbox` | 1 inbox, 2 writers, 3 messages, hands on the files | `OnceInOrder`, `NothingLost`, `LatchIsAnnounced`, `HeldMailMoves` |
| `mailbox_guard` | 2 inboxes that write to each other and themselves, 4 messages, raising injections | `RateHolds`, `LatchHolds` |
| `prompt_queue` | 2 conversations, 2 prompts, reorder lists of up to 2 ids | `QueuedOnce`, `OneFate`, `QueuedPromptMoves` |
| `event_stream` | 1 page, 2 sockets, 1 approval, 4 events, 2 broadcasts at once, outbox of 2, one restart | `HeldIsShown`, `ShownIsPending` |
| `presence` | 3 sockets, two of them of one phone, patience of 1 tick | `EntriesHaveHandlers`, `SweepSparesTheAwake`, `CountSettles` |
| `meta_jobs` | 2 jobs, 1 page and the watch loop, 3 changes | `PushIsEarned`, `OneJobPerRequest`, `CompletionIsPushed`, `PagesCatchUp` |
| `servers` | 3 processes, 2 ports | `CleanLeave`, `HookReachesLoneServer`, `NoKnowingTheft` |
| `sessions` | own session, 2 spawns, 2 conversations | `AskedScreenIsDriven`, `LiveScreenIsDriven`, `SpawnEnds` |
| `transcript` | 2 conversations of 2 lines | `ViewIsTranscript`, `NewestIsShown`, `StepsArrive` |
| `every_pending_is_waiting`, `routing` | the instances of `approvals` and `sessions` | the findings of section 6 |

The types are an invariant of each run except `approvals` and `presence`, where
they are proved.

Why the bounds are enough to meet the interesting cases:

- *Approvals.* With a history of 1, two calls already make the purge choose, on a
  map that also holds a pending entry; two clients let a broadcast succeed for
  one, fail for the other and change its set in between. Nothing else is bounded, and the proofs remove these bounds.
- *Mailbox.* Rate limit and latch limit differ (1 and 2), so either can hold first; two
  lines and three messages let a batch be held in its middle, be refilled and be
  cut. `MaxMessages` and `MaxLines` are guards on writers.
- *PromptQueue.* Two prompts in one queue are the least that can be reordered, lost or
  doubled; two conversations let a list name a foreign id.
- *EventStream.* Four events overflow an outbox of two twice; two sockets let the
  page reconnect while the old socket is still registered, and the client set
  change without changing size. The restart comes within the first two events
  (`RestartBy`), so that events follow it. `MaxEvents` stops the model.
- *Presence.* Two sockets of one phone are what the count must not count twice, and the
  third phone is the one that must be told. The proofs remove the bound on sockets.
- *MetaJobs.* Two jobs let one answer carry news of one and stale knowledge of
  the other; three changes by the service (`MaxChanges`) take one job from running to its end and back
  by a retry. Pages poll at any time, so two polls overlap.
- *Servers.* Three processes: one that ends while a second starts on the third's
  files. Two ports, so that a server can move aside. Each process starts once, hence the end of
  all behaviours. The invariant's proof has no bound.
- *Sessions.* Two spawns and the own session are three takeovers of the same slot; two conversations
  let two terminals disagree. Names are used once, so the model stops.
- *Transcript.* Two lines make a batch of two, so a switch can come inside it; two
  conversations give it somewhere to go.

`CHECK_DEADLOCK FALSE` stands where a bound really ends the behaviours:
`event_stream` (`MaxEvents`), `servers` (each process starts once), `sessions`
(each name is used once) and `presence` (each socket connects once).

**Fairness.** `Approvals`: the event loop resumes a handler whose await is over, every
send ends (the socket drains or dies), `wait_for`'s timer fires (it is set before every wait, and is never put off) and
the handler it cancelled is resumed; no client is assumed to stay and nobody to answer. `Mailbox`: the watch loop polls again and again
(its catch-all keeps it alive) and time passes; nobody is assumed to write, speak, unmute
or restart a terminal. `PromptQueue`: the watch loop delivers, the thirty-second busy
window runs out, a held hook call ends (`EveryCallIsDecided`); no turn is assumed to end.
`Presence`: time passes, the watch loop reaps, a handler whose receive raised ends; no
phone is assumed to wake, sleep or leave. `MetaJobs`: the watch loop polls and a poll it makes succeeds
now and then, and a handler whose answer came goes on; no page is assumed to ask, and a request may
fail. `Sessions`: the spawner's task goes on (every wait in it has a timeout). `Transcript`:
the watch loop ticks. `Servers` and `ReplayGuard` state none.
All are weak fairness.

## 4. Proofs

**`ApprovalsProofs`**, for every finite set of calls and clients and every history
bound above 0:

- `Inductive`: `Spec => []IInv`. The safety properties are not inductive by themselves: that
  an answered hook brings the first answer needs that until its timer fires a call in flight has its future,
  open exactly while nobody answered; that in turn needs that the purge
  never touches a pending entry, and that a call decided without a wait, or by the timer, left no entry for a
  later answer to find. `CallInv` collects this per call, `IInv` is its conjunction with the
  types. Lemmas on `ForgetOldAnswers` say what a purge may change; then there is one
  lemma per group of actions.
- `TypeCorrect`, `AnswersDecide`, `ConsentIsNeeded`, `HeldIsAlwaysListed`,
  `OrphansComeFromCrashes` follow from it.
- `HistoryIsBounded` needs its own argument (the stamps of the answered entries, and
  cardinalities): a purge leaves at most the newest `AnsweredHistory`.
- `Refinement`: `Spec => ImplementsGate`, step by step under the mapping in `Approvals`. The gate owns up to the
  timer: a held call may lapse at any time (`TimerFires`), also when it has an answer, and a lapsed call is denied
  (`AwaitTimesOut`); what it still promises is that no other verdict than the first answer or that denial is
  given, and that a call so denied takes no answer any more.

**`MailboxProofs`**, for any sessions, senders, limits, window and bounds. Five invariants, each
with its own argument over the steps of the poll; writers, humans, terminals and the clock only
touch what the invariants let them.

- `MailboxTypes` (`TypeOK`). The poll stands at a registered session, its batch is part of that session's file, and
  a purged window is a stretch of the window before.
- `LatchIsExact` (`LatchHolds`), through `LatchInv`: the guard's counter equals the exchanges since a
  human spoke, never passes the limit, and reaching it is being latched. Each method of the guard is one
  lemma on one pair's record.
- `RateIsBounded` (`RateHolds`), through `RateInv`: the exchanges that really happened within the window are exactly
  what a purge would leave of the guard's deque. The deque itself is purged late, only when a message of the pair
  comes by, so its length says nothing; that purging then purging later is purging later
  (`Stale`, `Fresh`) is the core of it. That the first fresh entry exists is the one place where an
  induction is needed. It is taken from `WellFoundedInduction`: strict inclusion on
  finite sets is well founded, so a nonempty set of naturals below a bound has a least element.
- `AlertFollowsLatch` (`LatchIsAnnounced`), through `AlertInv`: a latched pair is announced or on the poll's own list
  of those to announce, and the list holds nothing else.
- `OwedMailIsKept` (`NothingLost`), through `KeptInv`: in the middle of a batch the server has read further than the offset it
  has stored (`ReadTo`). What is owed is typed or at or behind where it has read to (`Ahead`), and the batch is what the
  inbox holds from the line the poll is at (`Aligned`), as long as the server knows the file (`sight`): a
  cut file is another one, and nothing is owed of it until it has been seen.
- `MailIsTypedOnceInOrder` (`OnceInOrder`, an invariant and an action property), through `OrderInv`: the numbers rise along an
  inbox and along a batch (`Rising`), and what was typed is older than all that is ahead. If the file was cut under
  the poll, the batch is no longer part of it but is older than all it holds now (`Aligned \/ Beyond`).

`AlertFollowsLatch` and `MailIsTypedOnceInOrder` assume `~InjectMayRaise`: an exception of `inject_input` leaves
`poll_inboxes` with the batch's offset and the list of looped pairs, so mail is typed again and an alert
never raised (section 6). The other four hold with raising injections.

**`SessionsProofs`**, for any names, conversations and start of the server: `SessionsInvariant` (`SInv`). An adoption takes the
slot and the mirror together, and before the first one they hold what the start left in them (`SlotInv`), which
is all `KeysDriveTheAskedScreen` (`AskedScreenIsDriven`) needs of the past. `KeysDriveTheLiveScreen`
(`LiveScreenIsDriven`) needs that while the session adopted last lives, slot, mirror and `cfg.tmux_session` are still its own
(`LiveInv`): a client that arrives finds it and starts no other, and a name that died is never registered
again (`SpawnInv`). `SessionsTypes` completes it.

**`TranscriptProofs`**, for any conversations and transcripts of any length: `TranscriptInvariant` (`TInv`).
`ViewIsTranscript` speaks of `pos \div 2`, which does not say whether the position lies inside a line; `ViewInv` does:
while the view is intact there is a number of lines `m` such that the position is behind the `m`th whole line, and what is
shown with what is left of the batch is the first `m` lines. A read then goes on where the last one ended (`PrefixGoesOn`), a step
moves from the head of one sequence to the end of another (`ConcatMoves`), and a transcript
that grows keeps its prefixes (`WriteStep`). That a batch is only held while it is sent (`LoopInv`) is what makes
following and reading safe. `TranscriptTypes` and `ViewFollowsTranscript` follow.

**`EventStreamProofs`**, for any pages, connections and calls, any outbox, any number of events and of
broadcasts under way: `StreamInvariant` (`IInv`). What a page shows follows from what it was sent, in an order that
snapshots, replays and slow sockets mix. So `StreamInv` tells, for each approval the pages ought to show (its call is
casting or held) or ought not to (it neither waits nor was taken back silently), the `Story` of one number `r`: event `r` turned the pages to it, no
later event in the outbox or under way turns them back (`Told`), and a connected page shows it, or has event
`r` coming in a broadcast or in front of its replay (`Fits`). An older event still to
come is harmless because the page has heard `r` already, and then it is late, or because `r` comes anyway. A replay that
sends an event older than `r` finds `r` further on, since the numbers in the outbox have no gap (`SeqInv`); one
whose outbox loses an entry makes its page late. Which step may lose a broadcast needs to know who waits for it: each hook call
and handler waits for one at most (`OwnerInv`), and a raising request takes its own call down with it.
`r` is 0 after a restart, or before anything happened. `StreamTypes`, `HeldShown`
and `ShownPending` follow. That a hook call, a connection and the server are not one another is assumed (`OwnerAssumption`).

**`PhonesProofs`** holds the theorems of three components that share no state.

*Presence*, for every finite set of sockets and devices, every assignment of
devices and every patience: `PresenceInvariant` (`PInv`: what is kept for a socket has a handler in
its loop or a lost one, nothing is known of a socket before it connects, and a socket whose phone has never
slept has just been heard and is on no list of the reaper's), from which `NothingIsLeft` and `AwakeIsSpared` follow. `PresenceTypes` needs that the count never
exceeds the number of devices (`CountInRange`, by cardinalities).

*PromptQueue*, for any conversations and prompts and reorder requests of any length: `QueueInvariant` (`QInv`: a
conversation's queue names no prompt twice, and names exactly those whose fate is to be queued there). What
is hard is the reorder. `Ranks` maps the positions of a set onto `1 .. n` by counting, so that every position is read
exactly once (`NthIsMember`, `AtKeeps`); every id that is listed has a first place in the request
(`LeastMember`), so the two parts of `Reordered` name no prompt twice, share none (`ConcatIsInjective`) and together
have all of the old queue: `ReorderedKeeps`, whatever the request names, in whatever order, however often.
`QueueTypes`, `QueuedPromptsAreKept` and the action property `PromptsEndOnce` follow.

*ReplayGuard*, for any nonce and `ts` fields, any age and limit (`GuardParameters`, a hypothesis of each of these theorems): `GuardInvariant` (`GInv`). An envelope that
passed is remembered or too old to pass (`EnvelopeInv`), and stays so as time passes and as others
evict it, because eviction and refusal draw the line at the same age (`ForgetsTheOld`), whoever wrote its `ts`.
`EnvelopesPassOnce` and `MemoryStaysLean` follow.

**`MetaJobsProofs`**, for every set of jobs and pages and any bound on the changes:
`MetaJobsInvariant` (`MInv`). A push is taken from an answer that may be long out of date, so
`PushIsEarned` needs that every status in an answer under way is one the service gave (`RequestInv`),
which in turn needs it of the service's own word when the answer is taken (`TruthInv`). For
`OneJobPerRequest` it must be known that a retry which reaches its fallback has started one job at
most, and that one only if the first answer was lost. `Requested` says what every
step that writes one request has in common; `PushesAreEarned` and `OneJob` follow.

**`ServersProofs`**, for every set of processes and number of ports: `ServersInvariant`.
`SInv` says, per process, where it may be while a file names it, and what it may have
seen in the file it is about to change; for a process that has been alone since
it started, that it owns the state file and the port (`LoneInv`); and for the hook, that
what it found so far is that server's (`HookInv`). One lemma per action. `ServersTypes`, `LeavesNothing` and
`HookArrives` follow; `NobodyStealsKnowingly` is the action property, case by
case over the steps that change a file. The state file is the delicate one:
that only a dead process's pid, its own or none was seen is stable, because
an ended process never starts again.

Only model-checked: everything under fairness (`EveryCallIsDecided`,
`HeldMailMoves`, `QueuedPromptMoves`, `CountSettles`, `CompletionIsPushed`, `PagesCatchUp`,
`SpawnEnds`, `NewestIsShown`, `StepsArrive`; liveness and `ENABLED` are outside the
prover's reach). Every safety property of a passing run is proved.

## 5. Plan

Done, in this order: `Approvals`; `LoopGuard`, `Mailbox`; `PromptQueue`; `EventStream`; `MetaJobs`,
`Servers`, `Sessions`, `Transcript`, `Presence`, `ReplayGuard`; and the proofs of section 4.

What would come next: a clock over hook process, request and server for 240 < 270 < 300 s, with the
stall watchdog; a server restart in `Mailbox`; queue chips and steps on the event
stream.

### Not modelled, and why

- The cipher (`crypto.py`) and web push (`push.py`) are libraries and services.
- tmux and pty job control, typing, screen scraping and git: I/O whose outcome the models take as a choice.
- The three nested timeouts and the stall watchdog: each timeout is a choice in the
  models; their order needs one clock over three processes.
- `config.py` 641-742, the minting of credentials by two first starts at once; settings.
- HTTP and file endpoints (diffs, uploads, browsing, key names), which keep no state;
  rendering; installation and diagnostics of the CLI; titles of conversations and their store.
- Restoring spawned sessions from the sessions file after a restart.

## 6. Findings

Each has a run whose counterexample shows it.

| Run | What the code does |
|---|---|
| `every_pending_is_waiting` | A client that joins or leaves during the broadcast of a request raises in it; the approval stays pending with no hook, and its conversation busy, for ever (`session_manager.py:543`). |
| `routing` | `CHANGELOG.md:456-457`: "Prompts sent to a specific conversation ID will no longer inject keystrokes into a supervisor running a different active session." The server's own agent runs `c1`, a spawned session takes the global slot, and a prompt for `c1`, while nothing is active, falls back to that slot (`backends.py:760-766`; `session_manager.py:943-956` does the same for the active and the supervised conversation): it is typed into the spawned session's agent. |

Further divergences, without a run of their own:

*Gate, stream, mailbox, queue*

- `README.md:438-439`, "First answer wins, whichever surface it comes from.": a second answer overwrites the
  status that clients are told and is broadcast (`session_manager.py:2207-2212`), while agy has the first.
- The same sentence, when the timer fires: an answer accepted in the last moments of the wait, before or after the timer cancelled
  it but before the handler resumed, is announced as accepted (`:2207-2240`) while agy is told "deny" (`:2117-2124`). `DecidedByFirstAnswer` names this one exception.
- `session_manager.py:555`, "Returns True if all missed events were successfully replayed": a broadcast during a replay pops the
  oldest entry of the list being iterated (`:533-535`, `:565`), so the event after the one being sent is skipped, and the call returns True.
- `session_manager.py:164-167`, "delivery is for what agents write while we are watching": while the inbox does not exist the poll keeps no offset
  (`:1062-1065`), so the message that creates it is behind the first offset and is never typed.
- `session_manager.py:1359-1361`, "a queue without a pane is held, not dropped": the supervisor of a session that ended stays registered, the head is popped,
  `send_prompt` ignores that `inject_input` returned False (`backends.py:749`), and the prompt is announced as delivered.
- `CHANGELOG.md:199-201`, "the head is delivered when the turn ends": a prompt the server types is no activity (`:1140-1144`), so the
  next head is typed 0.3 s later, into the turn the first one has just begun.
- `server.py:1050-1051`, "Only buzz a phone about a decision the phone is actually going to
  be asked for": the push is sent before the policy is looked at, so `auto_all` buzzes too.
- A timed-out approval is taken back without an event (`session_manager.py:2118-2124`): pages keep showing it, and
  the replay of its request brings it back after a snapshot without it. `ShownIsPending` therefore allows what was `withdrawn`.
- A client set that lost one member and gained another during a send keeps its size, so the
  newcomer may get an event older than its snapshot; and a replayed
  `session_switched` whose successor the broken iterator skipped can hide a held approval. Both are why
  `HeldIsShown` leaves out pages marked `late` (they heal at the next snapshot).
- An answer accepted just before the last client's death is dropped when
  `request_approval` hands the call back (`:2184-2190`).
- `always` goes to the hook as it is (`:2215-2216`), while `models.py:197-198` says "the server maps it to a plain allow".
- Answers are forgotten in the order of their registration, not of the answers
  (`:357-368`), so the latest answer may be the first forgotten, against `:143-146`.
- When `inject_input` raises, mail typed earlier in the batch is typed again and
  the alert of a pair that latched in it is never raised (`:1121`, `:1883-1887`).
- One paused pair holds all mail behind its line, other senders' too (`:1115`), while
  `loop_guard.py:14` calls a mute "a deliberate human switch on one pair".
- A prompt submitted while the agent looks idle overtakes queued ones (`:1338-1342`; `CHANGELOG.md:199`).
- Agent mail is typed without a look at the queue or at the turn (`:1121`), while `docs/agents-mailbox-snippet.md:18` says messages go to "the other session's prompt queue".

*Jobs, sessions, transcript*

- A poll that was under way when a job was cancelled writes its older answer over the status (`session_manager.py:920`) until the next poll;
  two overlapping polls may both push a completion; `get_agent` may overwrite the cache with an older answer, or with the completion itself, and announces
  neither (`:772-777`), so that completion is never pushed.
- A retry whose answer is lost or cannot be read starts a second job (`meta_agy.py:245-263`, the `except Exception: pass`); a submit
  may answer 502 although the job runs. `_meta_job_outputs` is written and never read.
- A key for a conversation no session holds is pressed in the global terminal (`server.py:829-843`), which a prompt for it would not be typed into.
- Every hook call binds the first record without a conversation, even if another session's agent called (`session_manager.py:1433-1451`), and
  moves the shared view, over a phone's pin. After a spawn the runtime registration names only the spawned session.
- A spawn whose last broadcast raises is reported "failed", though its session was adopted and runs (`spawner.py:253-282`). Between `has_session` and
  `new-session` another user may create the name, and `start_detached` takes that session for its own (`tmux_runner.py:144-145`),
  against `spawner.py`'s "adopting it would type our prompt into their agent".
- `CHANGELOG.md:1117`, "Keys were being pressed at a screen nobody could see", told as mended, holds for the one agent there was then. Now the live
  screen is the session adopted last (`session_manager.py:1421-1431`, `:401`), while keys that name nothing go to the active conversation's session, else to the first one
  registered (`:637-645`, `server.py:829-843`). After two spawns, or with an earlier one's conversation in view, the screen that is
  drawn is one session's and the keys drive another. `LiveScreenIsDriven` leaves these views out.
- A line that is half written when the tail reads to the end is lost (`backends.py:697-700`). A switch while a batch is sent
  appends the rest of the old conversation's steps to the new one's, and a `/rename` in it renames the wrong one. A broadcast that raises loses the
  rest of the batch.

*Clients*

- A registration whose announcement raises leaves its device, clock and client entry for ever if the socket
  never comes up to the reaper again (`server.py:1123`). A phone that wakes between the sweep's list and its removal loses its connection.
- A suspended phone that was focused keeps its push messages suppressed until it is reaped, up to 45 s later, and they are not sent again.

*Servers*

- `clear_runtime_state` should remove the file "only if we published them" (`config.py:972`). Between its look and its unlink another
  server may publish, and a file that reads as none (torn, garbled, or absent at the look) counts as its own. `NoKnowingTheft` says that
  nothing is taken in any other way.
- `config.py:828-829`, "there is no ownership fight here": two servers that pass preflight for the same port both publish its registration before either
  listens; the one whose bind fails withdraws last and the live one is no longer registered, until its next adoption.
- A server that starts while the old owner is shutting down does not publish; a surviving second server never publishes the state file.
- A `run`'s server thread is a daemon: when the agent exits, its files stay.
- `_hook_token` takes the published server's token, so a child hook of a second server with a rotated
  secret sends the first server's.
