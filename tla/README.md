# Verification of fcitx5-grimodex (hazkey)

fcitx5-grimodex is a Japanese input method for Linux. A C++ addon runs inside
Fcitx and sends semantic actions over a Unix socket to `hazkey-server`, a Swift
process that owns the composition and the kana-kanji converters. The addon may
lose the server at any byte; what the user typed must survive that. Whether a
second converter, Mozc, is adopted beside the first is decided by evidence that a
chain of Python commands acquires, seals, reviews and judges; that evidence must
survive edited inputs, crashes and commands that run against each other. This
directory holds TLA+ models of the code that has to guarantee both, TLC
configurations for small instances, and TLAPS proofs for the parts that can be
proved for every value of the constants.

Run a model with `tlc -config X.cfg M`; check the proofs of a module with
`tlapm M_proofs.tla`. Paths below are relative to the repository root.

## 1. Inventory

| Part | State | Operations | Talks to |
|---|---|---|---|
| `HazkeyState`, `HazkeyEngine` (`fcitx5-hazkey/src/hazkey_state.cpp`, `hazkey_engine.cpp`) | last snapshot, `protocolAvailable_`, live-conversion timer | keyEvent, candidate click, reset, activate, deactivate, capabilityAboutToChange, destruction | session client by calls; Fcitx by callbacks |
| `HazkeySessionClient` (`hazkey_session_client.cpp`) | context, session ID and revision, effect namespace, checkpoint, text fallback, buffered effects | open, close, updateContext, transactV2, transactV2Durable, flushPendingV2, finalizeWithoutUITarget | journal, ledger, connector |
| `HazkeyRecoveryJournal` | actions of unknown outcome, last snapshot | record, replace, markSent, rebase, acknowledge | – |
| `HazkeyEffectLedger` | highest applied effect ID | claim, clear | – |
| `HazkeyServerConnector` (`hazkey_server_connector.cpp`) | socket, FIFO of lifecycle frames that outlived their 10 ms | transact, lifecycle transact, connect, start the server | the server, one stream for all input contexts |
| socket manager, main loop (`socketManager.swift`, `server.swift`) | clients, input and output buffers | poll, accept, read, write, disconnect | protocol handler |
| session registry (`hazkeySessionRegistry.swift`) | session ID -> session with owner descriptor and last access | open, close, closeAll, prune, evict, clear learning, saveAll | sessions |
| composition session and reducer (`CompositionSession.swift`, `ImeReducer.swift`) | phase, composition, segments, candidates, staged learning, revision, effect IDs, request cache | one handler per semantic action, restore, resolve learning | converter |
| Mozc-first hybrid converter (`MozcFirstHybridKanaKanjiConverter.swift`) | speculation state, candidate fence, staged learning; shared: execution lock, fences, job queue, learning revision | prepare, invalidate, lock the order, convert, learn, retire, purge; the worker's admission and completion | reducers, registry, Mozc sidecar, Zenzai |
| Mozc sidecar client and helper | child process, request ID, deadline | start, request, restart | pipe |
| Grimodex integration | watched snapshot, timers, consumer registration | inotify events, reload, heartbeat | files |
| user dictionary, configuration, process manager | files, hashes, lock file | load, save, take over | files |
| acquisition tools: `run_mozc_v2_objective.py`, `run_mozc_b0_measurement.py`, `seal_frozen_corpus_v2.py` (`tools/dictionary/`) | lock, private tree, snapshots of inputs, output directory | read and pin, run probes, write, check again, publish without replacing, clean up | probe processes; the file system, by descriptor or by path |
| authorization of B1: `authorize_mozc_v2_b1.py`, `run_mozc_v2_b1_objective.py` | captured evidence, decision, second tree | authenticate, decide, publish, look again, roll back; continue with B1 | evidence published before, the formal policy |
| blind review: `blind_conversion_ab.py` | review packet, key, judgments, report | prepare, score | a reviewer |
| gates: `evaluate_mozc_b0_gate.py`, `evaluate_mozc_adoption_v2_gate.py` | policies, verdict | parse a policy, pin and judge evidence, write the verdict | everything above |
| stability suites: `run_mozc_b0_stability.py` | a session of processes, its audit, retained inputs of the Fcitx harness | run and observe, time out, stop what is left, validate, collect | server, helper, Swift tests, `/proc` |
| settings application, corpus builders, benchmarks, packaging | – | – | offline, or a form over getConfig/setConfig |

How they interact. A handler of the addon runs to its end on Fcitx's one thread
and waits for every request it makes; the server handles one frame at a time.
Concurrency is therefore between *a request and its fate* (answered, answered
too late, never served, served but the answer lost), *the addon and the server
on its own* (eviction, expiry, dictionary change, clearing of history, stop,
crash), *several clients of one registry*, and, inside the converter, *the
request thread and the speculation worker*. The evaluation commands share a
directory and a set of inputs; each is a sequence of system calls between which
another command, a person, an editor or a process that a probe left behind acts.

What is hard: commits must be applied once although requests are retried; the
composition must be rebuilt from a checkpoint, from text, or by replaying the
journal, where each can fail; learning is two-phase, so text the user took back
must not be learnt whatever removes the session; a password field and its
neighbour share one client object; two limits of the registry apply to one
open; effect IDs saturate. A command holds what it read for half an hour, publishes
with one rename and must say afterwards whether it did; five tools must agree on
what an admissible piece of evidence is. `PROJECT.json` lists these hazards with their lines.

What makes each part correct:

- addon: typed text reaches the application once, in order, in the field it was
  typed in, or stays visible; nothing of a secure field is kept; no failure
  leaves the addon deaf to keys.
- session client: what is shown is what the bound session holds; no session is
  left behind; the journal stays short.
- effects: at most once, and not lost while IDs last.
- registry: capacity, other clients' compositions are untouched, refusals are
  justified, cancelled or cleared learning stays away.
- socket loop: owners are connected clients and nobody inherits a session;
  answers keep their order; a client is closed only for its own cause; every
  whole request is served, and a peer that left is forgotten.
- reducer (later): every published checkpoint is restorable; a revision names
  one snapshot.
- hybrid converter: every fence has one owner that releases it; what is shown or
  staged of Hazkey is fenced; a locked order stays; a key press that learns or
  forgets does not wait for a conversion; a secure field keeps nothing; nobody
  waits for ever.
- acquisition, sealing, authorization: what is published is what was read and ran;
  it appears once and is replaced by nobody; a command's exit says what happened;
  no lock and no private tree is left behind unless an exception came before the
  command had noted it, or an interrupt cut its clean-up short.
- review and gates: counts follow from judgments, verdicts from counts; a verdict
  is about what its policy pins; the formal evaluation fails closed.
- suites: nothing the suite started is missing from its audit or survives it.

## 2. Modules

| Module | Models | Remarks |
|---|---|---|
| `EffectNamespace` | the affine raw-to-global map of effect IDs, its anchor, saturation | operators, shared by the next two |
| `EffectDelivery` | the path of a confirmed effect: normalise, buffer, claim | state machine with a server reduced to the IDs it may send |
| `EffectDelivery_proofs` | | theorems |
| `RecoveryJournal` | `HazkeyRecoveryJournal` | operators on sequences |
| `ImeSession` | one server session: request cache, revision check, the reducer's actions that the modelled keys produce, staged learning, restore, rebasing of the cache | operators on a session record |
| `SessionTransport` | the connector's stream with its lifecycle queue, the protocol handler, and what the server does on its own | outcomes of one request |
| `SessionTransport_proofs` | | what one request leaves as it was |
| `SessionClient` | `HazkeySessionClient`, one operator per method | composes the four above |
| `SessionClient_proofs` | | what each method leaves as it was |
| `AddonState` | the handlers of `HazkeyState` and `HazkeyEngine`, one action each | the composed state machine |
| `AddonState_proofs` | | theorems |
| `TypedText` | what an input method promises about typed text | abstract specification that `AddonState` implements |
| `MCAddon` | contexts for TLC | |
| `SessionRegistry` | `HazkeySessionRegistry` with several clients | its own state machine, open in small steps |
| `SessionRegistry_proofs`, `MCSessionRegistry` | | theorems; symmetry for TLC |
| `SocketServer` | `SocketManager` and the main loop of `server.swift` with several peers | its own state machine: the poll snapshot is stale while it is handled |
| `SocketServer_proofs`, `MCSocketServer` | | theorems; symmetry for TLC |
| `HybridSpeculation` | execution gate, worker and hybrid converters of all sessions | one action per call on the converter and per step of the worker |
| `HybridRequests` | the calls that each action of the reducer and each maintenance of the registry make | composes the calls into requests; properties |
| `HybridRequests_proofs`, `MCHybrid` | | theorems; the scenarios of the runs |
| `EvidenceFiles` | the directory, the inputs, and what happens around the commands | shared by the modules below |
| `PilotPolicy` | `parse_policy` of the B0 gate: every rule that refuses a policy | operators |
| `FormalPolicy` | `parse_policy` of the adoption gate | operators |
| `EvidenceScore` | quality of a run, and the checks of the three tools that judge it | operators |
| `AcceptedEvidence` | what the authorizer and the continuation accept as evidence on B0 | operators |
| `ObjectiveAcquisition`, `MeasurementAcquisition`, `CorpusSealing` | the three commands that acquire | one action per step between two looks at shared state |
| `B1Continuation` | the authorizer, and the continuation with B1 | the same |
| `BlindReview` | prepare and score | the same |
| `GateEvaluation` | both gates | the same |
| `StabilitySuites` | a suite: the session, its observer, the audit | processes come, leave and go between any two steps |
| `FcitxNative` | collecting what the Fcitx harness retained | validation part by part |
| `EvidenceStore` | evidence appears, stays and is withdrawn by its publisher | abstract specification that `EvidenceTools` implements |
| `EvidenceTools` | the commands over one directory | composes the nine above; properties |
| `EvidenceTools_proofs`, `MCEvidence` | | theorems; the scenarios of the run |

### State and code

`AddonState` has five variables: `s` (the `HazkeyClientSession`), `ui` (what
`HazkeyState` knows), `srv` (this input context's session in the server), `net`
(socket, lifecycle queue, running build), `h` (history and the budgets of the
run). A handler is one action because Fcitx runs it to its end and it blocks on
each request; its requests are calls of operators that return the *set of
outcomes*. A fault inside a handler is one of these outcomes, so a break can hit
the second of three requests of one key. `map` in `PROJECT.json` ties every
definition to its lines.

Abstractions, all of data:

- A keystroke is a number, text a sequence of numbers. Order, loss, duplication
  and provenance of text can thus be read off the state. The surface of a
  conversion is the keystrokes it stands for.
- Candidates are not modelled; the phase says whether there are any, and
  whether a candidate action succeeds is nondeterministic where the converter
  decides. `Suggestions` says whether composing shows candidates; the runs have
  it off.
- Request and session IDs matter only by equality: the least unused number is
  taken, and the unused entries of the cache are dropped. The request cache is a set,
  since an entry is found by its request ID.
- The connector's bytes, partial frames and deadlines become: `break` (the
  exchange fails, request served or not), `slow` (a lifecycle frame outlives its
  10 ms and stays at the head of the stream), `refuse` (no connection). Frames
  that are already on the wire are served before the server acts on its own.
- `restart` is a killed server and may come back as another build, which
  rejects the checkpoint; `stop` is an orderly stop, which runs `saveAll`.
- Capacity eviction of *this* context's session is the fault `evict`: the addon
  has one connector and so one descriptor for all input contexts, and the 17th
  context evicts the least recently used one.

`SessionRegistry` lets one `openSession` take several steps (prune, evict for
the client's limit, evict for the server's limit, refuse or create), which the
code does in one call; no other request comes between. A piece of learning is a
number; `history` is what the converters persisted, `forgotten` what was
cancelled, abandoned by a disconnect or cleared. The clock is a wall clock and
may go back.

`SocketServer` has one step per handler of `startListening`: the poll, the accept,
and for one entry of the snapshot the read, each frame, and the write. Between
any two of them peers connect, send a piece of a frame, read or leave, and a
signal may arrive. Data is counted in units: a frame is a header and at most one
body unit, an answer two numbered units, so a frame can be cut by a read and an
answer by a write, and a repeated or lost unit shows. What the delegate does with
a request is reduced to its kind: it may open a session, and it may be answered
with too much. The limits of one read, of pending output and of the kernel's
buffer are constants. A read takes at most the limit, where the code may exceed
it by the last chunk. Descriptors are handed out in any order, which includes the
kernel's lowest-first. `events` is the snapshot as it was polled; entries are
handled in the order of descriptors.

`HybridSpeculation` has two threads. The worker's steps lie between two
acquisitions of a lock: admission, the second look at the fences, reading the
pending context, the conversion, fencing the result, handing it over, releasing
what was refused. The request thread works off `todo`, a list of calls; each call
is one action, since a converter changes its state under one lock, and the worker
may run between any two. What maintenance does to each session (`external`) is
a call as well, which decides by the window it then finds. Where a composition starts,
the policy provider takes a new Grimodex revision over under the execution lock
(`Refresh`; `HazkeySessionEnvironment.refreshGrimodexIntegration`), and so does an open; in `Pin` the
policy then replaces what a lifecycle event said of the field (`secure`) by what the
session was opened for (`field`), and crossing from one to the other purges. `HybridRequests` gives the list for each action of the
reducer (a key, a click, a change of focus) and each maintenance. Data is reduced
to: which revision a result is for, which learning it saw, and whether Hazkey's
candidates are learnable. `phase` is what decides about preparing: text with the
caret at its end, other text, a conversion. A fence that is given up under the
state lock is released in the same step; the code does it right after unlocking,
which can only keep the worker out a little longer. Tokens, work numbers and
revisions are numbered anew when nothing carries the number, so equality of two
live ones means what it means in the code. Left out: direct commit, predictions
that are selected as candidates, Unicode input (its start pins the policy as `InsertText`
does), a policy without learning, and `setCompletedData`.

`EvidenceTools` has nine variables. `entries` is the directory: a name is bound to
an inode, which is a command's tree, its lock, or someone else's entry; so a rename
that replaces, a lock that is not one's own any more, and an output somebody took
are different states. `trees` is what a command's entry holds, `inputs` what the
inputs are now, `my` what a command has in memory, `at` where it stands. A step of
a command ends before the next system call that depends on what others may change;
its failure paths and its cleanup are steps of their own, in the order of the code.
What may happen around the commands is bounded by `faults`: `EditInput`,
`WriteTree`, `OverwriteRaw`, `RemoveLock`, `ForeignOutput`, `MoveDirectory`, `Kill`,
`Interrupt`, `Abandon`. An interrupt comes in the body of a command (`Interrupt`), in its
clean-up (`Abandon`: nothing catches it there, and the rest of the clean-up is skipped), or
right after the command has made its lock or its private tree and before it has noted
that it did (`Unnoted`, which also stands for a failure at that place: a `fstat` of the
new lock, a `chmod` of the new directory). `my.failed` says which it was.
Abstractions, again of data:

- A hash is the version of the content it is taken of. What the code or a policy
  pins is the version `fixed`; every other version is one a rule is there to refuse.
- A run is its hits per category; a corpus the number of cases per category. The
  sizes of the instance are small, the bounds in basis points are the code's.
- A policy is a record of the sections `parse_policy` reads. `PilotPolicy` and
  `FormalPolicy` give the pinned value of each section and the versions in which
  one of them differs; the parser is the conjunction of its checks.
- `moved` is a directory whose path leads elsewhere: commands that hold a
  descriptor notice at `_assert_parent_identity`, commands that use the path find
  nothing. `late` marks a command whose tree was written, or whose session forked,
  after the last look the code takes; what the code promises of the tree ends there.
- A process of a suite is in the runner's group, in its session only, away, gone or
  killed. `listed` is a listing of `/proc` as it was taken: the processes go on while
  the code acts on it.
- The harness behind `collect` (`fcitx5-hazkey/tests/run_fcitx_full_stack_test.py`)
  is external; its result, the tree it retained and the repository it ran in are
  inputs that may have been edited. Of the harness' two suites the lifecycle suite is
  the one whose result is enumerated.
- `scenario.exercised` stands for the tests, which replace a policy's readiness
  (`dataclasses.replace` in `tests/test_authorize_mozc_v2_b1.py:288`, and
  `tests/test_run_mozc_v2_b1_objective.py:240`): the code behind a gate that is
  closed today is modelled as the tests run it.

## 3. Runs

| Run | Instance | Shows |
|---|---|---|
| `effect_delivery` | 5 IDs, 3 namespaces, buffer 3 | no confirmed effect is applied twice or lost, up to and at saturation; the inductive invariant of the proofs |
| `addon_faults` | all keys, 3 typing, 7 handlers, 2 faults of break, slow, refuse, restart, stop | refinement of `TypedText`; text on screen is accounted for; client and server agree; journal short; no orphaned session; one faultless key settles all |
| `addon_contexts` | two programs, two frontends and a password field, 2 typing keys, 6 handlers, 2 faults of break, slow, refuse, restart, evict, clearing, dictionary change | nothing crosses a security domain; secure input is not retained; only delivered text is learnt, and nothing the user took back |
| `session_registry` | 3 clients, 4 IDs, limits 3 and 2, clock 0..3, 2 pieces of learning | capacity, foreign sessions preserved, refusals justified, forgotten learning stays forgotten |
| `socket_server` | 3 peers, 2 clients, 3 descriptors, 2 frames, one unit in the kernel's buffer | descriptors, sessions, order of answers, and that a client is closed only for its own cause |
| `socket_liveness` | 2 peers, 2 frames, fair loop | frames are served, answers arrive, leavers are forgotten |
| `hybrid_speculation` | 5 scenarios: one session with every request that does not end it; a session that learns from its conversion and one that enters secure fields, each beside one that is typed into; changes of context, of the Grimodex revision and of sessions; closing and maintenance of two sessions | every fence has one owner; what is shown or staged is fenced; a locked order stays; a key press that learns, settles learning or forgets finds the worker not converting; nothing of Hazkey is left in a secure field |
| `hybrid_liveness` | purge, close, maintenance; fair threads | requests return, jobs are worked off |
| `evidence` | one to three commands of 12 kinds, 0 to 3 faults around them, five revisions of the formal policy | published evidence is what was read and ran, appears once, and is reported truly; locks and private trees go, but for the two ways in which the code leaves them; audits are complete; verdicts are about what is pinned; the formal evaluation fails closed; reviews are fair; the refinement of `EvidenceStore` |
| `recovery_loss`, `frontend_click`, `orderly_stop` | smallest that shows it | the findings of section 6 |

Why these bounds. Losing and rebuilding a session takes one fault; losing the
rebuild, or the decision about learning that goes with it, takes a second. Seven handlers are
activate, two keys, a conversion, a commit, the decision about learning and one
more; the six of `addon_contexts` are activate, two keys, a commit, the change of
field or program, and the decision about learning. Three typing keys separate order from loss. `JournalLimit` 3 is one above
what `JournalShort`, a part of `AddonInv`, allows, so the limit is in reach of a model in which the
invariant fails. In the registry a client can reach its own limit, two clients
together the server's, and a third is refused; one time unit of idleness in a
clock of four values gives expired, live and set-back. In `effect_delivery` five
IDs reach saturation inside a namespace and right after a new one. In
`socket_server` the third peer is refused, or gets the descriptor of one that
left; two answers of two units exceed the three that may be pending, and one unit
of room in the kernel cuts every answer. Two frames in one read need the loop
over frames; a frame of two units ends inside or at the end of a read.

A scenario fixes which kinds of request each of the two sessions of a hybrid run
makes (`Scenarios`, `asks`), because all kinds in both sessions are too many
interleavings; the sessions differ in whether their client resolves learning. Two
sessions are enough: the gate is shared, and a third could only hold a fence as
the second does. One job may wait when
another is asked for (`MaxQueue`), which with the one being worked on gives a
current and an outdated job; maintenance may add one per session.

In `evidence` a command alone meets three faults (the measurement, whose sequence of
runs is long, two), two of one kind meet one: an edit and its reversal take two, and
an interrupt beside them a third. The steady suite is checked without faults around
it, since its four processes already come and go at any step. A category of ten and
one of twelve make a bound fall on and beside a hit; four cases in two categories of
three and one give the review odd categories and an odd remainder. The pilot's policy,
the runs and the packet are read once by the code and are therefore edited before
that only. Two rounds stand for the recovery's subchecks: what one leaves must not
reach the next.

Deadlock is checked in `session_registry`, `evidence` and the hybrid runs. In
`evidence` this is the termination of the commands: `Done` is the only way to stop, and
it needs every command to have ended, so no command waits for what may not come. That
each command ends under weak fairness was left out of the run: it needs the symmetry
given up and takes too long. The other runs say
`CHECK_DEADLOCK FALSE`: their handlers, IDs and namespaces are budgets of the
run, and a behaviour ends when they are used up; the server in the two socket runs may
stop, and waits when no peer does anything. Symmetry is used for the registry's
descriptors, the connections of `socket_server` and the commands of `evidence`, with
safety properties only.

`addon_contexts` leaves out the candidate click, because of finding
`frontend_click`, and `KeySettles`, because the replacement of a session flushes
with `requireSuccess` and a replay that is rejected costs one more key. (The
input contexts that Fcitx itself provides have a fixed frontend name; the code
and its tests, `fcitx5-hazkey/tests/hazkey_session_client_test.cpp:247`, treat a
change.) It also leaves out `stop`, because of finding `orderly_stop`.

Fairness. `hybrid_liveness` assumes that the worker's queue and the request thread
go on and that the last reference to a closed converter is dropped; no request
need ever be made, so a fence a session holds may stay, and `JobsWorkedOff` says
so. It also says "when requests stop": fences are not queued up for, and an
endless series of requests may keep the worker out (an earlier form of the
property without this condition is false).

`socket_liveness` assumes `WF_vars(Server)`, because the main
loop is one thread that nothing but an idle `poll` suspends, and
`WF_vars(PeerReads(c))`, because the addon waits for its answer until its
deadline and then closes the socket (`hazkey_server_connector.cpp`). Peers need
not send, finish a frame or leave. The properties of all other runs are
invariants, action properties or refinement without liveness. What the user needs
of progress in the addon is stated as safety: `KeySettles` says that *one* key
press without a fault leaves nothing deferred, which is stronger than
"eventually" and needs no scheduler.

## 4. Proofs

**`EffectDelivery_proofs`**: for every `MaxID`, `MaxEpoch`, `MaxBuffer`.
`TypeCorrect`, `DeliveryCorrect` (the inductive invariant), `AtMostOnce`
(`Spec => AppliedAtMostOnce`), `NotLost` (`Spec => []ConfirmedNotLost`). The last two
properties are not inductive: that a claim is the first of its effect depends on
how IDs were given out long before. The inductive invariant `DeliveryInv` says that in the current
namespace the global ID of a confirmed effect is the image of its raw ID under
the map (`MapFixed`); that everything applied or waiting was confirmed, that
namespace and raw ID identify an effect, and that nothing applied lies above the
ledger's mark (`Provenance`); that an anchored namespace has an anchor no later
than the first raw ID it sent (`Anchored`); and, while IDs last, that the next
ID is above all numbered effects, IDs identify effects, and what lies above the
mark waits in the buffer in ascending order (`InOrder`). Once IDs are used up
the last part no longer holds: a claim needs a strictly larger ID than the
mark, so what fails at saturation is delivery, never uniqueness. This is why
`ConfirmedNotLost` is conditional on the next ID and `AppliedAtMostOnce` is not.

**`SessionRegistry_proofs`**: for every set of descriptors and IDs, every setting
of the two limits (also zero or negative values, which the initialiser
clamps) and every timeout. `RegistryCorrect` (the
inductive invariant), `CapacityKept`, `ForgottenForever`, `ForeignPreserved`,
`RefusalsJustified`. `WithinCapacity` is not inductive on its own: creating a
session keeps it only because an open in progress that passed both checks has
room, and that an open evicts at most one session needs that after one eviction
neither limit is reached (`OpenInProgress`), which in turn needs capacity.
`ForgottenStaysForgotten` needs that a piece of learning is staged in one
session at most and nowhere else (`LearningApart`), otherwise a cancelled piece
could be committed by the close of another session.

**`SessionTransport_proofs`, `SessionClient_proofs`, `AddonState_proofs`**: for every
set of contexts, keys, events and faults, any length of the journal, any `MaxID` and any
budget of the run. `AddonInvariant` (the inductive invariant `AddonIInv`),
`OneSessionLives`, `DomainsStayApart`, `SecretsAreForgotten`, `DeliveryStaysInDomain`,
`JournalStaysShort`, `AddonStaysSound` (with the types, all of `AddonInv`).
A domain is a program and a kind of field. The state is good for a set `D` of
keystrokes if everything the client could show, restore or replay holds keystrokes of
`D` only; the invariant says that it is good for those typed in the domain of the
client's session. `DomainIsolation` is not inductive for three reasons, each a part of
the invariant. Text comes back from the server, so the session and every frame that
names it must hold text of the same domain (`Compat`), also the cached answers, which
a retry gets back. A session that was given up lives on until its close is
served: a live session is the client's, or its close is in the queue ahead of
everything else (`Owned`), which gives `NoOrphanSession`. And a secure context must have
forgotten its recovery state (`ForgetsSecrets`). The proof follows the calls: the first
module shows what one request does under every fault, the second what each method of
the client does (`Along`), the third that each handler leads from a good state to
a good state and gives the application text of that domain only (`Progress`); a
context change leaves the domain only after screen, checkpoint, fallback, journal
and buffered effects were emptied. Queues, replay and folds are recursive functions; a
fact about all their stages is proved from a least stage at which it fails
(`LeastNumber`), for which the well-foundedness of the natural numbers suffices.

`JournalShort` follows from `Brief`, the part of the invariant that says that no two
entries of the journal are alike: none share a request ID, at most one is a decision
about learning and at most one is not. That `record` keeps it is not seen at the
place where it is called, for a journal of one action and a call that records another is
just what must not happen. `transactV2` records its action only after a replay that
ended well, and a replay that ends well has emptied the journal (`WorkedOff`); a decision
is recorded durably only if the journal has none (`transactV2Durable`). Between the two
an attempt at one entry may acknowledge it, replace it under a new
ID, rebase it or leave it, and it has carried the rest of the journal along (`Carried`).
A new ID is one no entry bears (`FreshRidIsNew`), and everything else a client does leaves
the journal alone or empties it (`Leaves`).

`TypeOK`, the other part of `AddonInv`, says of the addon that nothing is shown,
delivered, taught, deleted or dropped that was not typed, that the composition in the
server is empty exactly when its phase is idle, and that a frame waits only while the
connector is up. Each of the fields gets its value from another process: the phase on
the screen is that of a snapshot, which may be a cached one; a restored session takes
composition, revision and effect counter from a checkpoint that the client kept or
replays; what is taught is what a session had staged. So the invariant has types for all
of these: the session and its cached answers (`IsServed`), the frames in the queue
with their requests and answers (`FrameTyped`, both in `Linked`), the client with
snapshot, checkpoint, journal and buffered effects (`ClientIn`), the screen
(`ScreenIn`), and the past (`PastIn`). Responses of a request are typed by the first
module (`TransactTyped`), and a handler types one key at most, so that the number of
keys stays within that of the handlers (`Timely`). Of the numbers behind a global effect
ID all but `raw` are in their 64 bits for every `MaxID`. `raw` is the server's own number,
which the client copies as it comes: the type says natural number, because with a small
`MaxID` a session may have counted beyond it (in the code both are 64 bits wide).

**`SocketServer_proofs`**: for every set of connections and descriptors and every
limit. `SocketCorrect` (the inductive invariant `SocketInv`), `SessionsAlwaysOwned`,
`AnswersKeepOrder`, `ClosesForCause`. That nobody inherits a session is not inductive
alone: it needs that a new client gets a descriptor no client has, that one connection
has one descriptor and waits in the backlog once (`Ownership`), and that the entries
of a stale snapshot still to be handled are clients (`Progress`), for otherwise a
handler could close, or serve, what is not there any more. The order of answers rests
on two streams. What a peer has sent and the server has not served is the rest of a
frame followed by whole frames of consecutive numbers, wherever reads cut it; the
answers are 1, 2, ... up to the last one served, and a write or a read by the peer moves
a piece from pending output to the kernel to the peer without changing the
whole. That a client is closed only for its own cause needs that a hang-up in the
snapshot means that its peer is gone, although others closed and opened meanwhile, and,
for a refusal, a count: every open connection is held by a descriptor of its own, so as
many connections as clients exist.

**`HybridRequests_proofs`**: for every finite set of sessions, every choice of the requests they make, and
any length of the worker's queue. `FencesHaveOwners` (`Spec => []HybridInv`),
`ReferencesFenced`, `LearningKeysNeverWait`, `SecureFieldsHoldNothing`, `LockedOrderLasts`.
`LearningNeverWaits` is about the keys that run Hazkey to learn, to settle staged learning
or to forget: what they refer to is fenced, so the worker is not converting. Others wait
for the worker, in the code and in the model: maintenance, a purge, an open, and a
composition that starts under a new Grimodex revision, for which no fence was taken.
What the worker holds and what a converter's states imply of each other (`GateInv`,
`ConverterInv`) is not enough: whether a call keeps it depends on what calls of the same
request made true before, with the worker between any two. The invariant therefore
contains a proof outline of the running request (`Outlined`): between any two of the calls
still to be made stand facts about each session, the number of suspensions that enclose
the point, and whether the lock is held; `Needs`, `Keeps` and `Makes` say which facts a
call needs, keeps and makes true. Each call of the converter is shown to do as its row
of these tables says, each step of the worker to keep all facts, and each request's
list to have an outline that ends with nothing held. Lists of any length, from
conditional calls or one per session, are put together from outlines of their parts.

**`EvidenceTools_proofs`**: for every set of commands of any kind, every score, every
observation and every revision of the policy. `TypeCorrect`,
`EvidenceIsPublishedOnce` (`Spec => PublishedOnce`), `FailsClosedAlways`,
`NothingLeftEver`, `HonestVerdictEver`, `EvidenceAuthenticEver`, `PilotPassesPinnedEver`,
`B1RestsOnDecisionEver`, `ReviewIsFairEver`, `AuditCompleteEver`. That evidence
is replaced by nobody rests on `Domains`: a name is bound by its kind of command only,
and a tree to its own command's names only; each step of each command is then shown to
be one of `EvidenceStore` or a stutter, by way of one lemma per command. That
nothing is authorized needs that a decision in the directory was computed from the
policy as `load_policy` lets it through (`Closed`), and that its mandatory checks are
among the diagnostic ones, which are excluded, or empty. That no formal result passes
follows from the interaction check, which has no verdict; that B1 is evaluated only
after a check that failed on its own metrics follows from the last step of the command
(`Derived`). `NothingLeft` needs, of each command at each of its steps, whether it
has a lock and a private tree, and what its memory says of them: `committed` implies that
the tree has left its temporary name, a lock that is the command's own is known to it
or was never noted, and what was noted is gone when the clean-up is over, unless it was
cut short or the path leads elsewhere (`Tidy`). `HonestVerdict` adds where the evidence may be when the command learns of
an error (`Accounts`) and that the name, from the rename to the last look, is the
publisher's or an outsider's (`Lasts`). The last is not inductive alone: sealing removes a
generation by its name, so that no two commands of a kind may be between rename and look
at once (`OneLooks`), which holds because the rename needs a free name. TLC found
both invariants true in every state of the run's instance before they were proved.

The last five theorems are about contents: what the memory of a command and its tree
say of each other at every one of its steps (`MeasuresWell`, `AcquiresWell`,
`SealsWell`, `GateHolds`, `ContinuesWell`, `PreparesWell`, `ScoresWell`, `RunsWell`,
`CollectsWell`, which TLC checked before they were proved).
They share one lemma about everything else (`LeftAside`): whatever step is taken, it is
one of the command itself, or the command stays where it is, is killed or interrupted,
its tree is at most written into, and then the command still looks again or the tree is
`late` (`Aside`). With it each invariant is shown for the steps of its own command only.

- `EvidenceAuthenticEver`: from the first probe to the manifest, the raw runs in the tree
  are those in memory, and each was made with the corpus the memory names; what the
  objective acquisition captured at its last look is `Trusty`, and success comes of a tree
  equal to it. The measurement looks at a raw run once, after its probe: one that is
  overwritten afterwards (`OverwriteRaw`) makes the tree `late`, so the theorem says
  nothing of its runs, and it is the gate that compares them.
- `PilotPassesPinnedEver`: the gate reads a measurement of another command, which may be
  killed, interrupted or written into between its reading and its verdict. A measurement
  that has been renamed is `Settled`: no later step of anyone removes it or changes its
  manifest, so that the manifest the gate compares is the one its raw runs were recorded
  in. The raw runs themselves may have been overwritten, before the rename or after;
  that those the gate has read are the recorded ones is its own comparison.
- `B1RestsOnDecisionEver`: evidence that a policy which parses accepts is the accepted
  evidence to the last field (`AcceptedAlone`): the digest of the tree leaves out its own
  name, and the raw runs hold that. The second look at everything it rests on, at the
  boundary, is what makes the decision in memory one under the policy in memory. Its
  document can only be read where an authorizer has published it, and that a continuation
  which still builds its tree has published nothing is part of `Accounts`.
- `ReviewIsFairEver`: every placement that some seed draws is balanced in each category
  and in all (`DrawnIsBalanced`), so its key is valid and its packet passes its own checks.
  A packet that is found with a file replaced or a case turned round, and passes, is of
  *one* placement, the drawn or the turned one (`FoundIsShown`); a judgment on a side
  comes to what was preferred under either (`JudgedAsPreferred`), so the report counts the
  preferences whichever it was. The corpus may be of any finite size, in any categories.
- `AuditCompleteEver`: at every step of a suite its session is `WellKept`: a process in the
  session's group is listed, one that left the group or was killed left a residue, and
  what the runner has seen is final once the runner has ended. No residue and the counts
  of the verdict then leave nothing uncounted (`ClearedIsCounted`). Of the results that a
  harness could hand in, those that pass are the frozen one (`CyclesAccepted`), and its
  three cycles add up to what the record says.

That a verdict computed with rounded or multiplied bounds is the one on the exact
differences (`ObjectiveIsWithin`, `VerdictPinned`) needs that the sums over categories
are integers. They are folds over functions, which the provers know nothing of:
`SumIsNatural` proves it for every finite domain, from a least cardinality at which a
partial sum could be missing. `CasesAddUp` does the same for the cases that a placement
has on one side: they add up over the categories to the target for the whole corpus.

Assumptions are the named `ASSUME`s of the modules, which TLC evaluates in the runs:
limits and budgets are natural numbers (`MaxIDAssumption`, `BoundAssumption`,
`JournalLimitAssumption`, `RegistryAssumption`, `SocketAssumption`,
`HybridAssumption`), kinds are those the code has (`FaultAssumption`,
`SuggestionsAssumption`, `RequestAssumption`), and a context is a
record of a program, a frontend and a Boolean `secure` (`AddonAssumption`). Of the
evaluation tools: categories are finitely many, hits are natural numbers and the
baseline has some (`ScoreAssumption`); what is observed besides the raw runs is counted
in natural numbers (`ObservedAssumption`); the corpus of a review is finite, and a
preference is a backend, a tie or neither, as a judgment can say (`ReviewAssumption`).

What stays model-checked, and why:

- Liveness and fairness (`RequestsReturn`, `JobsWorkedOff`, `RequestsServed`,
  `AnswersDelivered`, `LeaversForgotten`): the proof system does not reason about
  `ENABLED`.
- Of the addon, what relates the *order and number* of keystrokes in client, server and
  application: `TextDelivered` (the refinement of `TypedText`), `ShownAccounted`,
  `ShownIsServed`, `KeySettles`, and of learning `TaughtWasDelivered` and
  `UndoHonoured`. They compare results of replays of any length, which the proof would
  have to compute; the theorems above only need what a replay never brings in. Nor does
  any of the six hold for every value of the constants, as TLC shows. With `MaxID = 1` the
  second effect gets no global ID and is not applied: the server has learned and the
  screen has lost text that the application never gets (`TaughtWasDelivered`,
  `ShownAccounted`). With several contexts and `"click"` the run `frontend_click` breaks
  `ShownAccounted`, and the same constants `ShownIsServed`, `KeySettles` and
  `TextDelivered`. With `"stop"` among the faults `orderly_stop` breaks `UndoHonoured`. A
  theorem would need these cases as hypotheses.

## 5. Not modelled

- Bytes, protobuf encoding, deadlines in milliseconds: abstracted to faults.
- Presentation: snapshot renderer, candidate list, text offsets.
- Conversion quality: converter adapters, surface mapper, dictionaries.
- Generated protobuf code; A/B probe and diagnostics; settings application.
- Of the socket loop: setup of the socket, failures of `accept` and `fcntl`, and a
  peer that closes only its writing half.
- Of the evaluation tools: the text of manifests and reports beyond the fields a rule
  compares, file modes, the retries within one read, confidence intervals, and what a
  time-out leaves of a pipe's output. Of the clean-ups: the failure of an `unlink` or an
  `rmtree` in them, a generation that an interrupt leaves half removed (it stays whole or
  goes), an interrupt between the return of the rename and the assignment that notes it,
  and a second interrupt in the inner `except` of the objective acquisition after its
  rename. An edited packet whose key is hashed anew after
  a swap of two cases that keeps the balance is accepted: nothing is signed, and the
  model has no such edit. The corpus builders and benchmarks are
  sequential transformations of text; the packaging checks read binary formats.
- The Fcitx harness and the two binary stability tests: they produce what the modelled
  tools judge.
- In the Swift server, what is named in section 7.

Behaviours met while modelling that are no disagreement with a document, but that a
reader of the tools should know. The measurement compares neither a run's resources
nor, before its first run, the corpus with the policy; the B0 gate does both. A
packet's rename (`blind_conversion_ab.py:1158`) may replace an empty directory that
was made after the check, which is why the abstract store lets it. A suite may run
under a policy that the gate would refuse. A continuation with B1 keeps every tree it
could not publish. The temporary directories of the measurement and of the packet are made before
the `try` whose `finally` removes them (`run_mozc_b0_measurement.py:537`,
`blind_conversion_ab.py:1135`), and the acquisition forgets a lock whose identity it could
not learn (`run_mozc_v2_objective.py:2102`): an interrupt there leaves them, and a lock
that is left refuses every later acquisition under that name. A listing of `/proc` misses a process that forks while it is taken;
a member that keeps the pipe open after a time-out holds the runner without a limit.

## 6. Findings

1. `recovery_loss`: while a conversion is shown the client forbids its text
   fallback; if the restarted server rejects the checkpoint the composition is
   discarded. The implementation plan says it is rebuilt from the visible
   reading so that no input is lost.
2. `frontend_click`: after a frontend change that closed the old session and
   could not open the new one, a candidate click does not look at
   `protocolAvailable_`; it opens a fresh session without restoring and the
   visible composition is wiped.
3. `orderly_stop`: `saveAll` commits staged learning of every session although
   the sockets disappear with it; a cancellation on its way is inverted, which
   the comment on disconnects in the same file rules out.

## 7. What is left

In the order in which it would add most:

1. **ImeReducer**: segments, live presentation, reconversion, Unicode input.
   Properties: every published checkpoint is accepted by
   `checkpointIsWellFormed`; a revision names one snapshot; effects of one
   action are numbered consecutively; staged learning matches committed text.
   `ImeSession` becomes its abstraction.
2. **HybridSpeculation**: direct commit, selected predictions and policies without
   learning, once the reducer is modelled.
3. **ConnectorStream**: the byte stream of one connector with partial frames
   and two deadlines, refining what `SessionTransport` assumes.
4. The live-conversion timer and its best-effort path in `AddonState`.
5. **SnapshotWatcher**, **ProcessManager**, **SidecarClient**,
   **UserDictionaryStore**.
6. Theorems: `TaughtWasDelivered` and `ShownAccounted` of the addon; what `TypedText`'s `Step` implies for whole
   behaviours.
