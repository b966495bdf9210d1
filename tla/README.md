# SPITFIRE NG in TLA+

This directory is the verification development kept beside SPITFIRE NG, a
multi-node bulletin board in Rust. It holds TLA+ modules that model parts of the
board, TLC configurations that check them on small instances, and TLAPS proofs
that hold for every value of the constants. `PROJECT.json` lists the runs, what
each definition stands for in the source, the mutants that show a property can
fail, the hazards and the theorems.

To run: `tlc -workers 2 -config X.cfg M` checks configuration `X` of module `M`;
`tlapm M.tla` checks the proofs of module `M`.

## The system

The workspace has six crates: `sf-bbs` (the daemon and its commands), `sf-core`
(the domain and its SQLite database), `sf-net` (wire formats), `sf-config` and
`sf-monitor` (operator interfaces over the daemon's socket) and `sf-legacy`
(readers of the original program's files).

One daemon process owns a board. It holds the exclusive board lock, a listener
per transport, one thread per connected session, an operator socket, an event
scheduler and a CircuitNET listener. Threads share three things: the node table
(a mutex), the `InteractionHub` (a mutex and channels) and the database (every
handler is an `IMMEDIATE` transaction). Cold commands take the same board lock,
so they exclude the daemon.

### Inventory

| Component | State | Operations | Hard behaviour | What makes it correct |
|---|---|---|---|---|
| Node manager (`sf-core/node.rs`) | slot per node: session, caller, occupancy | acquire, mark online, release, exact match | release by destructor on unwinding, stale targets | a slot belongs to one live session |
| Caller sessions (`sf-bbs/runtime.rs`, `sf-core/session*.rs`, `session_custody.rs`) | thread position, authentication, durable claim per caller | admit, settle, abandon, recover | crash between claim and settlement, panic, concurrent logins | one session per caller, no orphan claim |
| Interaction hub (`sf-core/interaction.rs`) | disconnect requests and tickets, pages, invitations, chats | request, drop, resolve; page, answer, wait | two askers of one session, request after finalizer | no ticket is left without a resolver |
| Operator live control (`sf-bbs/live_control.rs`, `operator.rs`) | command, worker, evidence flag | exact disconnect, worker, receipts | target gone or replaced, evidence not written | a receipt says what happened |
| Operator journal and socket (`*/operator_control.rs`) | commands, receipts, sequence | accept, replay, expire | retried commands, restart between accept and effect | an effect happens at most once |
| Graceful shutdown (`sf-bbs/shutdown.rs`) | phase, drain position, tickets | request, drain, verdict, exit | admission race, two bounded waits, failures | it ends, and "complete" means clean |
| Caller access (`sf-core/caller_access.rs`) | caller state | lock out, delete, reactivate | running sessions of the caller | a locked-out caller leaves |
| CircuitNET exchange (`sf-core/circuitnet.rs`, `sf-bbs/circuitnet*.rs`) | messages known, queue rows, attempts, batches, imports, dossiers, mappings | post, scan, prepare, import, acknowledge, fail, retry, unsubscribe | loss, repetition, delay, crash, policy changes in flight, full queues | custody once per board, truthful acceptance, forwarding owed |
| CircuitNET catalog, control, files | signed catalog, dossier requests, publications | accept, apply, offer | rollback, forks, replays | monotone authority |
| Network artifacts (`sf-bbs/network_artifacts.rs`) | reservation rows and files | reserve, write, complete, collect | crash between row and file | a complete row has its bytes |
| BinkP, FTN, QWK networks | the shared outbound queue | poll, offer, acknowledge, toss | resumption, duplicates | a packet is neither lost nor tossed twice |
| Event scheduler (`*/events.rs`) | schedule, runs, claims | due, run, retry | restart in a run, clock steps | no overlap, no lost occurrence |
| Transfers and publication (`transfer*.rs`, `file*.rs`) | staged uploads, records, leases | stage, publish, recover | crash between file and record | a published record has its file |
| Configuration (`*/configuration.rs`) | revision, staged file | stage, commit, recover | crash in commit, stale revision | all or nothing |
| Backup and restore (`sf-bbs/backup.rs`) | snapshot, manifest | create, verify, restore | old state meets new neighbors | restored work is held |
| Deployment (`sf-bbs/deployment/`) | installed release, update journal | update, check, roll back | crash at any step | always a runnable release |
| Messages, identity, conferences | messages, versions, proofs | post, delete, make private | versions under a network | see CircuitNET |
| Transports, codecs, localization, displays, legacy readers | none, or a byte stream | | | input and output only |

How they interact: a transport hands a connection to a session thread, which
leases a node, claims a caller in the database and talks to the caller through a
terminal that polls the hub. Lockout, the console, operator commands and shutdown
all reach a session the same way, by an entry in the hub and, after a grace
period, by closing its transport. A post leaves a message in the database; the
scanner of each network turns it into queue rows; a link, an event or a cold
command turns rows into a batch; the neighbor turns a batch into messages and
further rows and answers with a receipt.

## The modules

| Module | What it is |
|---|---|
| `BoardSessions` | the daemon: session threads, node table, claims, hub tickets, lockout, operator disconnect, drain, crash, restart |
| `InteractionHub` | pages, invitations and line chat between callers and operators |
| `ConfigurationCommit`, `ConfigRegister` | saving the configuration by journal, file and link; the register under compare-and-swap it implements |
| `EventScheduler`, `EventTimes` | scheduled events, their leases and history, the preparer; daily slots in civil time |
| `FileCustody` | native admission of files: upload, import, inspection, review, rescan, recovery |
| `Deployment` | adoption, backup, update, recovery, rollback and restore by the deployment manager |
| `CircuitNet`, `MessageCustody` | the store-and-forward network, every board's queue, policy and exchange; what it promises of a message |
| `CircuitLink` | live links: permits, polls and their retries, workers, the frames of a session, health rows |
| `CircuitRestore` | backup and restore of boards that exchange messages, and the hold it places |
| `CircuitFiles` | file publications: offer, admission, receipt, forwarding |
| `CircuitControl` | subscription requests of a child to its parent |
| `CircuitCatalog` | the chain of signed catalog revisions and its keys |
| `ArtifactCustody` | the store of immutable packets and its rows |
| `OfflinePackets`, `OfflineReplies` | QWK packets a caller downloads; reply packets a caller uploads |
| `BinkpSession`, `BinkpQueue` | both ends of one BinkP session; the outbound queue, claims and link health |
| `FtnMail` | echo mail and NetMail among boards: scan, route, build, toss |
| `MCBoardSessions`, `MCCircuitNet`, `MCLiveness` | instances of the two core modules; what must happen some day in either |
| `MCFileCustody` | an instance of `FileCustody` with callers, for a finding |
| `MCBoardServices`, `MCCircuitServices`, `MCMailServices` | small instances of the other modules, side by side |
| `BoardSessions_proofs`, `CircuitNet_proofs` | inductive invariants of the two core modules, the theorems about them |
| `BoardParts_proofs`, `CircuitParts_proofs`, `MailParts_proofs` | the same for the components of the services, for any values of their constants: one component by EXTENDS, the others as instances with parameters of their own |
| `BoardServices_proofs`, `CircuitServices_proofs`, `MailServices_proofs` | the promises of the services modules, from the theorems about their components |

### BoardSessions

The position of a thread in `run_connection` is `pc[s]`:

| `pc` | Code |
|---|---|
| `new` | accepted, not yet through the shutdown check |
| `login` | node leased, in `run_stock_session` before admission |
| `admitted` | `admit_caller_session` committed, `mark_online` not yet run |
| `online` | the dialogue |
| `ended` | the engine returned and `session_ended` ran |
| `finished` | settled, or settlement failed: `accounting_result` is set |
| `released` | the lease is released |
| `tail` | `disconnect_finalized` ran |
| `gone` | `CallerConnectionCleanup` ran |
| `leasing`, `aborted` | the unwinding path: the cleanup's drop has run, then the lease's |

`occupant` and `nodeCaller` are the node table, `claim` is `caller_sessions`,
`request` the hub's entries and `cmdTicket`, `drainTicket` the two tickets that
may share an entry. Every action is what one thread does under one lock or in
one transaction; anything may happen between two of them. `Crash` and `Exit`
lose every volatile variable; `Load` recovers claims. The daemon's occupancy
counter is not a variable: session identities are never reused in a daemon run,
so an exact session match decides what the three-way match of the code decides.

Two simplifications are worth knowing. Grace periods and deadlines are
nondeterministic: a wait may end with or without its ticket resolved. A failure
is drawn from a budget (`MaxFaults`); it may be a database error, an audit that
cannot be written, or a panic, wherever the code has one.

### CircuitNet

All boards of one profile are in one module. A batch is content-addressed and
follows from the sender's database, so it is a hop and a set of messages, and
`offers` and `imports` are sets that only grow. A member of `offers` may be
imported at any later time or never, and a member of `imports` may be
acknowledged at any later time, repeatedly, or never: that is loss, delay,
reordering and duplication, by file or by wire, without a channel variable. One
session or export per hop is under way at a time (`pending`, the code's
`Session.pending`).

| Action | Code |
|---|---|
| `Post` | a caller's post in a mapped conference, with its identity proof |
| `Scan` | `circuitnet_scan` and the `publish` of each message; one page |
| `PollSend` | `Session::send` up to the offer; its scan must have succeeded |
| `Export` | the cold `export` command, without a scan |
| `Prepare` | `circuitnet_prepare_catalog_neighbor`, the step both share |
| `Import` | `circuitnet_import_inner`, `insert_native`, `publish` |
| `Acknowledge` | `circuitnet_acknowledge_neighbor`, live or by file |
| `LinkFailed` | `Session::finish` and the failed export: `circuitnet_failed` |
| `LinkLost` | a crash before `finish`; an export whose file is on its way |
| `Subscribe`, `Unsubscribe`, `SetMapping`, `Toggle`, `Retry` | the operator's commands |
| `Remove` | a message deleted or made private in a conference |

`copy[n][m]` says what a board has of a message: not at all, posted and not
scanned, in a conference, in transit custody, or removed after it was known. A
queue row is `queue[h][m]` with `attempts` and the members of its `artifact`.

Abstracted: the order of candidates (local message numbers differ per board), so
the prior offer that is finished first and the members of a full batch are
chosen nondeterministically; `MaxBatch` stands for the 32 members and for the
byte limit. The path a message carries is the unique tree path, which the code
checks at import and leaves out of the fingerprint. A scan fits in one page of
100. The network has one profile. Left out: the 100,000-row ceiling of the
board, catalog generations, identity failures after posting, reply threads,
protocol capabilities, conflicting fingerprints, restore.

### The other modules

Each step of these modules is one locked section, one transaction, one change
of a directory or one frame; a thread, a job or a command is a small record of
where it stands between two of them. A crash loses what is volatile at any such
point. Constants named `Max...` bound what would go on for ever: crashes,
failing steps, edits, attempts, restores.

| Module | State and the code it stands for | Actions |
|---|---|---|
| `InteractionHub` | `slot` (the hub's map), caller and operator ends, one bounded channel each way, handoffs | page, answer, time out, invite, accept, decline, send, leave, detach, disconnect, destructors of both ends |
| `ConfigurationCommit` | journal rows, file with its link, published configuration, position of each command | `apply` step by step, `recover`, retry of a command, power loss, edits by hand |
| `EventScheduler` | event rows, leases, history, generations, the two threads | save, Run Now, claim, run, complete, rearm, prepare, `event_recover` |
| `FileCustody` | catalog rows, directory entries, content objects, journal rows | the steps of an upload, import, rescan, review; `recover_file_operations` |
| `Deployment` | the manager's journal, the board's database and configuration | the phases of an update, commit, `recover`, rollback, restore |
| `CircuitLink` | permits, attempts, last frame per connection, health row | poll, retry, bind, frames, close, hold, stop |
| `CircuitRestore` | posts, names, rows, imports, one backup per board | post, scan, send, import, acknowledge, back up, restore, review |
| `CircuitFiles` | publications, deliveries, receipts, native files | publish, offer, admit, record, acknowledge, review |
| `CircuitControl` | requests at the child in the order they are sent, answers at the parent, dossier, the batch under way | queue, exchange, decide, settle, retry, snapshot, restore |
| `CircuitCatalog` | history, keys, peer record and mapping of each board | publish, receive, acknowledge, enroll, export, back up, restore |
| `ArtifactCustody` | row and file of each artifact, position of each job | reserve, create, write, complete, retain, recover |
| `OfflinePackets` | messages, policy, pointer, requests, transfers | prepare, transfer, preview, confirm, set pointer, change |
| `OfflineReplies` | receipts, posts, the job that imports | begin, decide, import, review, interrupt |
| `BinkpSession` | per end: batch, queue, file sent, file received, flags; the wire | write, read a frame, choose, complete, break |
| `BinkpQueue` | rows, claims, health, policy | begin, claim, offer, accept, finish, recover, hold, release, restore |
| `FtnMail` | native messages, publications, receipts, queue, subscriptions | post, scan, build, transfer, toss, subscribe, rescan, restore, reconcile |

What these modules leave out, and what the code does there that a reader may not
expect. Where a document says otherwise it is a finding, or one of the
disagreements listed after the findings:

- `FileCustody`: a network import of the same name and bytes inspects a caller's
  upload again while that upload is still inspecting it (finding 6). The scanner
  gives the same bytes any of the results `Verdicts` has for them.
- `Deployment`: a crash between the two renames of a restore leaves the board
  under its rollback name, as documented; an unmanaged restore into a missing
  target loses the locator.
- `CircuitLink`: polls that cross may both fail. A refused bind drops the
  connection without a frame, and the initiator takes it for an interruption.
- `CircuitRestore`: the offer that is finished first is any, not the oldest;
  policy is left out. A post made before a backup and scanned after it gets a
  second identity when the backup is restored, and is imported twice (finding 5).
  A hub restored to before an import loses a message its neighbor believes accepted.
- `CircuitControl`: a request retried after its parent was restored conflicts
  with the final answer, and every exchange of that link fails until an operator
  acts: it fails closed.
- `CircuitCatalog`: schema-1 peers and several conferences are left out. A child
  that is ahead by an offline import fails its exchanges until the parent
  catches up; a rebuilt child leaves its parent's record ahead.
- `ArtifactCustody`: byte budgets, loss of directory entries on power failure and
  the two admission permits are left out. Two jobs may both take the last place
  of the directory; a crash inside `retain` leaves a partial file without a row.
- `OfflinePackets`: overlapping requests are the contract of the functions; one
  session runs them in sequence. Confirming "To You" moves the pointer over
  unread public mail, which is the caller's choice.
- `OfflineReplies`: a caller lost in the review of a reply gives the reply a
  durable rejection; a new submission that was interrupted has another token
  when it is repeated.
- `BinkpSession`: time limits are left out. Work queued while the last batch
  closes may be offered to an end that has completed.
- `BinkpQueue`: one board's side; an operator's command names the version it saw.
  Skipped work costs an attempt; a custody error from a withdrawn message holds
  the link.
- `FtnMail`: one area and one domain; weak identities and the limits of the
  shared queue are left out. A message scanned after a backup is given a new
  identity when it is scanned again. NetMail that comes back over a routing loop
  is recorded as a duplicate.

The modules also state liveness properties and claims of the documentation that no
run checks, with their fairness (`FairSpec`), for use with `EXTENDS` and an instance
of one's own.

## The runs

Deadlock checking is off in every run: a board that nobody calls, and a network
whose messages are settled and whose budget of changes is spent, may stop.

| Run | Instance | Question |
|---|---|---|
| `sessions` | scopes of `BoardSessions`: 3 sessions of 2 callers, 2 nodes, 1 failure; 2 such sessions over 2 daemon runs, 1 failure; 2 sessions of one caller, 1 node, operator and console disconnect, lockout; 1 such session, 2 failures | do nodes and claims keep one owner, is a clean shutdown clean; who resolves a ticket, is a receipt true, who is cut off |
| `liveness` | 1 session, 2 daemon runs, 1 fault; an End and its Host that refuses one of two codenames, 1 change, 1 loss; fairness | do shutdowns, disconnects, lockouts and commands end; is every delivery decided |
| `custody_exchange` | two Ends under a Host, a broadcast and a directed message, 1 change, 1 loss, 2 attempts, files and links | is custody taken once, owed onwards and confirmed truthfully; what may happen to a held or accepted row |
| `circuit_services` | nine instances of `CircuitLink`, `CircuitRestore`, `CircuitFiles`, `CircuitControl`, `CircuitCatalog` | one session per link, one answer per request, one history, files through every hand, restores accounted for |
| `board_services` | eleven instances of `InteractionHub`, `ConfigurationCommit`, `EventScheduler`, `EventTimes`, `FileCustody`, `Deployment` | consent in chat, saves that survive anything, no lost update, leases that agree with history, a catalog that is true, clean reports where nobody uploads, updates all or nothing |
| `mail_services` | eleven instances of `ArtifactCustody`, `OfflinePackets`, `OfflineReplies`, `BinkpSession`, `BinkpQueue`, `FtnMail` | artifacts whole, no mail passed over, replies once, both ends agree, work claimed once, echoes published once |
| `evidence_after_complete` | 1 session, no fault | finding 1 |
| `shutdown_fails_clean` | 1 session, 1 node, lockout, no fault | finding 2 |
| `lockout_misses` | 1 session, 1 node, lockout, no fault | finding 3 |
| `full_queue_stalls` | an End and its Host, room for one row, no change, fairness | finding 4 |
| `restore_duplicates` | two boards, 1 post, 1 restore | finding 5 |
| `report_races` | one name, one content, one caller and the network, no crash, no failure | finding 6 |

The three `...Services` modules put instances of components side by side in one
specification. Components in one of them share no state. A variable `part`
says which instance a behaviour is about; the variables of the others keep their
initial values. So the behaviours of the run are exactly those of the instances
one by one, and most of its properties are implications from `part`. Each of the
three modules extends one component, whose constants the cfg gives and whose
promise (`RequestsApplyOnce`, `SavesAreSettled`, `WorkIsClaimedOnce`) is checked
as the component states it: it also holds while its variables rest. `Parts` in
the cfg names the instances that are explored; one may be run alone by leaving
the others out. `MCLiveness` is built the same way.

`MCBoardSessions` extends `BoardSessions` and gives each behaviour a scope: which
sessions and callers come, how many nodes are in use, who may be locked out,
which session may be disconnected, how many daemon starts and failures there
are. A scope only leaves steps out, so every behaviour of the run is one of
`BoardSessions`, whose own properties are checked. There are four kinds of
scope, since one instance with all of it is too large to explore. A scope
is chosen for every session and caller alike, which is why both stay symmetric.

Why the bounds are enough for what they ask. A node is contended by two
sessions; the third takes what one of them left behind, and two daemon runs are
what a stale claim needs. One fault is enough to enter each error path, and
`ClaimsAreOwned` is about the states in which none was used. In the network, the
line of three boards is the smallest with a board that must forward and a
message that crosses two hops; two messages are the smallest batch with a
member to refuse and a member to harm. Two attempts give a first failure, a retry
and a ceiling. In the services, two rivals compete (two commands, two events of
one target, two contents of one name, two jobs for one artifact, two ends of a
link), one or two crashes reach each point of a chain of steps and each point of
its recovery, and one restore meets what its neighbor did since. Safety is
proved without bounds for the properties listed below.

### Fairness

`BoardSessions`: every thread that can run does. Each wait in the code is
bounded: the terminal polls every 100 ms, grace periods are three and six
seconds, workers have deadlines. Nobody has to call, lock out, shut down or
restart, and a caller never has to type: `EndByCaller` and `Admit` have no
fairness, and `EndByDispatch` stands for the next command or idle limit of an
online session.

`CircuitNet`: a recurring event polls each neighbor (`Scan`, `PollSend`), and a
session ends, since each frame has a deadline of 10 seconds and the session one
of 120 (`LinkFailed`). Neighbors never have to import or answer, and operators
never have to act.

`MCLiveness` asks each fairness where its component is the one the behaviour is
about; `BoardSessions` at rest enables nothing that its own fairness names.

## What is proved

Every theorem about a component holds for all values of its constants that satisfy
the component's named assumption. TLC evaluates each assumption in the runs: where
the run's module extends the component, and for the instances of the services
modules under the name `AssumptionsHold`. The assumptions say what type each
constant has and which bounds are positive; some say more:

- `TreeAssumption` (`CircuitNet`): between two boards there is one simple path.
  `Topology.validate` accepts nothing else. Only the two routing theorems use it.
- `CommitAssumption`: the authors `"initial"`, `"admin"` and `"edited"` of a file
  are not names of commands.
- `LinkAssumption`: no board polls itself.
- `CustodyAssumption` (`ArtifactCustody`): jobs and links write packets of different
  formats, in different threads.
- `RepliesAssumption`: the packets of a behaviour have finitely many members.
  `RetryPostsOnceHolds` assumes besides that no packet holds one record twice
  (`ReplyDistinctMembers`). It is needed: an import looks for the record in the receipts
  of other packets and submissions only, so that a packet with the same record
  twice posts it twice.
- `FtnAssumption`: links go both ways and never to oneself, a route leads over a
  link, a point is linked to no point (`downstream_valid` lets only its boss link it)
  and a node is one board that is not a point.
- `PacketAssumption` (`OfflinePackets`): the messages addressed to the caller are of the
  conference.
- `CustodyAssumption` (`FileCustody`): the import of the network and the operator's tool
  are no callers. `CatalogHasBytesHolds` assumes besides that `recover_file_operations` is
  not called, as the daemon does not call it, and `CleanReportHolds` that no caller
  uploads. With recovery, `NoForeignBytesHolds` says what remains of the first (the
  entry can go, the stored bytes stay and nothing replaces them); with callers,
  `BadIsNeverOfferedHolds` says what remains of the second (nothing that every
  inspection finds bad is offered), and `report_races` shows the rest fail.
- `CatalogAssumption` (`CircuitCatalog`) only types the bounds. `PeerNotAheadHolds`
  assumes besides that no child is rebuilt, which is what `PeerNotAhead` is checked on: a
  rebuilt board lacks what its parent saw it accept, until the next exchange.

The proofs have two layers. A *parts* module proves what each component promises,
with an inductive invariant, for any values of its constants; the definitions about a
component that is an instance there carry a prefix (`Commit`, `Area`, `Control`,
`File`, `Catalog`, `Line`, `Custody`, `Reply`, `Ftn`, `Packet`). A *services* module
proves the promise that the run checks, of the very specification that TLC
explores: a behaviour of `AllSpec` is about one component and stays so, and then it
is a behaviour of that component with the constants of the instance (the lemmas
`ChatBehaves`, `MixedBehaves` and so on), so that the general theorem applies.
`SavesAreSettled`, `RequestsApplyOnce` and `WorkIsClaimedOnce` are about components
whose constants the run's configuration gives; their theorems are about `Spec` and
hold for all values.

| Promise | Component theorems | Promise proved in |
|---|---|---|
| `ChatIsConsented`, `SavesAreSettled`, `NoSaveIsLost`, `CatalogIsTrue`, `SoleReportsAreClean` | `BoardParts_proofs` | `BoardServices_proofs` |
| `OneWholeSession`, `FilesPassEveryHand`, `RequestsApplyOnce`, `CatalogIsOneHistory`, `RestoreIsAccountedFor` | `CircuitParts_proofs` | `CircuitServices_proofs` |
| `WorkIsClaimedOnce`, `CustodyOfArtifacts`, `NothingIsPassedOver`, `RepliesPostOnce`, `EchoesAreServedOnce` | `MailParts_proofs` | `MailServices_proofs` (the first in `MailParts_proofs`) |

**BoardSessions_proofs.** `TypeInv` strengthens `TypeOK` with two facts about
leases (a thread at a position that holds a node has one) and about the caller
shown on a node. `Structure` adds `NodeOwnership`, which is inductive once the
lease is known: taking, clearing and losing a node are the only steps that touch
it. From `Structure`:

- `OneSessionPerCallerHolds` needs `Admitted`: an authenticated thread that has
  not settled is the one the durable claim names. Two such threads of a caller
  would be named by one claim.
- `ClaimsAreOwnedHolds` is about the states in which no failure was injected:
  `ClaimedInv` says that while the budget is whole and the daemon up, a claim
  names a thread between its admission and its settlement. A failure uses up the
  budget for good, so the steps that fail need no case of their own.
- `CorrelatedRequestsAreMetHolds` is about the window between release and
  finalizer: the exact match under the node lock is what keeps a request from being
  entered after its finalizer. `OpenTicketsAreLinkedHolds` says that the entry an
  unresolved ticket was issued for is still there; that somebody resolves it is
  liveness (`DisconnectIsMet`), and for an uncorrelated entry not so (finding 2).
- `OnlyTargetsAreCutHolds` is an action property: the steps that shut a transport
  are those of a grace period whose ticket names the session.
- `DisconnectReceiptIsTrueHolds` needs `ReceiptInv`: a completed ticket, of the
  worker or of drain, is about a settled session.
- `DrainSeesEverySessionHolds` is inductive with `Structure`, because admission
  reads the phase under the same lock.
- `CompleteIsCleanHolds` joins `CompleteInv` with `ReceiptInv`. It is about nodes,
  threads and the settlement of those drain asked to leave. A durable claim that a
  failure left behind before the drain began may outlive a clean shutdown; the next
  start recovers it.

**CircuitNet_proofs.** `ExchangeInv` says that a row, an offer and an import only
concern messages in the right custody (`RowsAreKnown`, `OffersAreKnown`,
`ImportsAreKnown`). The lemma
`RowsMove` reduces every handler to seven ways a row can move, and the invariant
and both action properties follow from those seven cases:
`AcceptedIsInCustodyHolds`, `AcceptedIsFinalHolds`, `HeldNeedsPolicyHolds`.

`RoutingInv` is about who owes a message to whom. A board comes to know a message
by writing it or from a neighbor's offer, and queues it for its targets either
way (`CustodyIsTaken`). What `ForwardingIsIntendedHolds` then needs of the tree
is `OneSideOfAHop`: the boards behind a hop are the same from either of its ends,
so a neighbor never owes the message back. `OnlyOverDossiersHolds` follows from
the dossiers every offer was made under.

`CustodyImplemented` is the refinement: under the mapping of `holds` to the
boards that know a message and of `done` to the accepted rows, a scan is a
`Publish`, an import a `Cross`, an acknowledgement a `Confirm`, and everything
else is invisible.

**InteractionHub** (`BoardParts_proofs`). That no slot is orphaned (`SlotsAreHeld`) is not
inductive: whether an end that leaves takes its slot along depends on what the
other end was told. `Inv` adds what waits in the channels. The ids in use are
old (`NumbersAreFresh`), a caller that still waits in a page that nobody answered
has an empty channel (`PagesWait`), and one whose slot is already chatting has
the answer at the head of its channel (`AnswersArrive`), which a full channel
cannot lose because the answer is the first thing sent. `ConsentAndOldEnds`
proves the two action properties from it: an invitation becomes a chat only by
its caller's acceptance, and the destructor of an old end never removes a newer
slot of the session.

**ConfigurationCommit** (`BoardParts_proofs`). `CommitInv` says which row may be open at each
step of a save, and what each file proves: a command's content never stands in a
file without the link that proves it (`CommitLinksAreWritten`), what is on the disk was
accepted, and what a loss of power would bring back is done or still current
(`CommitRowsFollowDisk`), whoever holds the gate has the row its next step relies on
(`CommitGateIsHeld`), and the gate's configuration is the file's but for the moment of
publication (`CommitPublishedFollows`).
`JournalMatchesFile` and `CompletionAndRevocation` follow from it, after every
crash, failing step and edit by hand. `RegisterImplemented` is a refinement:
without loss of power and without edits by hand, saving implements
`ConfigRegister`, a register under compare-and-swap, where a save takes effect
when its rename does and recovery only reports what happened.

**FileCustody** (`BoardParts_proofs`). Whoever creates the entry of the area owns it until
its row is there, and an entry has one owner (`AreaOwned`, `AreaOneOwner`), whatever became
of the lease: a row is inserted beside its own bytes. After that only the recovery of a dead
upload takes the entry away, and it runs while no worker does (`AreaTurns`); afterwards
nobody is on the way to creating the entry again (`AreaNobodyCreates`), so that
`NoForeignBytesHolds` needs no assumption about recovery. `RejectedStaysHolds` rests on
`AreaRefused`: while the daemon runs no worker admits a rejected file, because the check at
the lookup stays true until the tool runs. `BadIsNeverOfferedHolds` follows a result from
the inspection to the decision of the same worker (`AreaHonest`): the decision is by that
worker's own report, whoever stored another in between, and the bytes of a row never change.
That the report stored beside a file is the one it was decided by needs a single inspector
(`AreaAlone`, `CleanReportHolds`); with callers it is false.

**BinkpQueue** (`MailParts_proofs`). The invariant ties each claim to the session on record and,
while the daemon runs, to the thread of that session (`SessionsRun`,
`ClaimHeld`); an acknowledgement on its way, on record or in the copy means that
the peer has the work (`WasTaken`); and each offer is an attempt on record or the
one under way (`OfferTried`). A restore brings back an older board, so the
invariant says the same of the copy's rows as of the board's, and after a restore
it says which rows wait for review (`ReviewAwaited`). Without the copy's part the
invariant is not inductive. `WorkIsClaimedOnceHolds` is the whole promise.

**CircuitControl** (`CircuitParts_proofs`). A request acts at most once at the parent because a row
is answered anew only while it is absent or pending, and then has changed nothing
(`ControlOnce`); that is true of the parent and of the copy it may be restored from. The
child's record agrees because a final answer of the parent never changes, and
what travels, is on record at the child or in its copy came from there (`ControlTold`).
This fails when the parent itself is restored, which is why `ResultsAgree` is
claimed for `"parent" \notin Snapshots` only; an instance of `circuit_services`
checks what remains when the parent is restored. `ControlPendingIs` and `ControlToEndIs` say what
the operators on the child's order return: the batch is the first requests that
are not settled, at most `Limit` of them, and moving a request to the end keeps
who is in the order.

**CircuitLink** (`CircuitParts_proofs`). That a board has one session with a neighbor is not
inductive: it depends on the set of active neighbors being exact. `ActiveIsExact`
says that a neighbor is active exactly while a poll of it or a worker bound to it
is, and that only one of them is; `PermitsCounted`, that the permits in use are those
of the workers. A success is whole because the protocol is sequential: `Sound` says
what the number of the last frame means for what was offered, moved and acknowledged,
and a poll that succeeded saw the last one (`PollsSound`). `ReadIsFresh` is the
argument for the health row: between the read and the write of `Session::finish`
nobody else writes the row, since that worker would be a second session. The
exchange's steps change no permit, and `SteadyKeeps` disposes of them at once, from
what each frame makes of a sound connection; the steps that take and give permits
follow from `PermitTaken`, `PermitGiven` and what they bind. `ConnsCounted` bounds
the connections of a link by its tries, so that the sets `Sessions` and `Permits`
count are all of them.

**ArtifactCustody** (`MailParts_proofs`). A file is created exclusively and only recovery removes
one, while no thread runs (`CustodyNoneRuns`). So a thread that writes is alone with its
file (`CustodyAlone`), and what it knows of its row and file at each step stays true until
it acts on it (`CustodyThreadsKnow`). `CompleteIsWholeHolds` and `OnlyPendingRemovedHolds` follow
for any mix of jobs and links. Files of CircuitNET have no pending row, by design:
`PartialIsJournaledHolds` therefore speaks of the artifacts of jobs, and of all files
where no batch is stored, which is the instance `PartialIsJournaled` is checked on.

**CircuitFiles** (`CircuitParts_proofs`). A receipt the sender keeps is the importer's
because a session that brings it back holds what both ends have on record until it
breaks; the invariant therefore speaks of the session as well as of the rows. A file
has one publication because a number is drawn only by a board that admitted the file
and has none for it, and a delivery is owed only by a board that filed the
publication, away from its origin: from that `EachHandHasFiledItHolds` follows hop by
hop. `Min` of the offers that wait is one of them (`WFMin` on the natural numbers).

**CircuitCatalog** (`CircuitParts_proofs`). A revision commits to the ones before it, and
a board takes it only on top of what it has, so that what it has stays a published history
(`CatalogWhole`). A restore takes the board back to its copy; the invariant therefore says
of the copy what it says of the board (`CatalogSaved`). A revision verifies under the epoch
that covers its number: a new epoch begins at the last revision (`CatalogVerified` says that
no cutoff is ahead of the chain), so that enrolling a key disturbs no revision accepted
before. A session asks for no later revision than its parent has (`CatalogSpoken`), as a
stopped board has none under way. The parent's belief is inductive with what is on its way,
an answer or an acknowledgement, and with the copy it may be restored from (`CatalogAcked`).

**CircuitRestore** (`CircuitParts_proofs`). A backup was the board's database once, so the
invariant says of both that rows, batches and imports are of messages the database has
(`LineFits`). What a receipt covers, its giver has or forgot in its own restore
(`LineAcknowledged`), and that goes for what a sender calls accepted, now or in its copy.
The origin has one name for a post at a time and has each name it drew or forgot it
(`LineDrawn`), so that of two names one was forgotten. Steps that only move rows on are one
case (`LineQuietKeeps`). What remains of a restored parent's requests follows from the
theorem about `CircuitControl`.

**OfflinePackets** (`MailParts_proofs`). That the pointer passes nothing is inductive with
what a packet leaves out: every open message up to its high water is a member or
accounted for (`PacketCovered`). That stays true while requests overlap and the
caller sets the pointer, because messages are numbered in the order of their posting
(`PacketPostedInOrder`) and neither the pointer nor a packet is ahead of the last one
(`PacketBehind`): what is posted later lies above. `NothingSkippedHolds` needs no
comparison of `resets`. That comparison is what `PointerMovesKnowingly` rests on: a
request that is about to be confirmed has looked at the pointer since it was set, or its
transaction will find it moved (`PacketLookedAgain`).

**OfflineReplies** (`MailParts_proofs`). That a reply is posted once is a matter of
counting: a message is posted in the step that writes its receipt, so posts are
counted by receipts (`PostsHaveReceiptsHolds`), and the invariant says that what was
imported under one token is from one packet. Without `ReplyDistinctMembers` a packet has
two receipts of one record.

**FtnMail** (`MailParts_proofs`). An identity is one mail's (`FtnOneMail`), wherever it is
known: in publications, packets and copies. That needs `FtnSerialsAreNew`: a board that is
not held has given out only smaller serials than its next one; one that was restored has
the replaced root's serial in its evidence and is not held again before it is beyond it.
So `NoConflictHolds` for any number of restores. Where no board is restored (`FtnHomeInv`),
every identity is on record at the author's board, hence a mail has one, and whatever
way a copy comes it finds the earlier one (`PublishedOnceHolds`). What lists a node
as having seen a mail is then true (`FtnServedInv`): the node has an unfinished row for it,
or the row was accepted, and `FtnArrivedIsServed` goes through every outcome of a toss.
Restores take publications back, so these two theorems assume `MaxRestores = 0`, as does
the instance on which they are checked.

### What is only model-checked

- Liveness under fairness, and everything that depends on ENABLED: the provers
  installed do not reach it. The run `liveness` checks it.
- The promises of the service components that have no proof module, and the
  properties of `board_services`, `circuit_services` and `mail_services` about
  them.
- What a recursive or folded operator computes over its data, such as the daily
  slots of `EventTimes`: induction over data cannot be cited here.

## Findings

1. `evidence_after_complete`: a disconnect command enters its request before its
   worker is counted; drain in between declares the shutdown complete while the
   command's receipt, audit and event are outstanding.
2. `shutdown_fails_clean`: drain shares the ticket of a lockout's or the
   console's uncorrelated request; `session_ended` drops that request without
   resolving the ticket, and the shutdown is declared failed although every
   session settled.
3. `lockout_misses`: between the admission commit and `mark_online` the node
   table does not show the caller, and a lockout requests no disconnection. The
   next dispatch still ends the session (`LockedOutLeaves` passes).
4. `full_queue_stalls`: a session scans before it prepares and ends when the scan
   fails. Once one neighbor has 1000 waiting rows and one more message is posted
   for it, no session of the board offers anything to any neighbor, the full
   queue included. Exhaustion stops queued work, not only new work. With finding
   4, rows that failed for good are enough to bring a board there.

5. `restore_duplicates`: `docs/technical/circuitnet.md:250` says that restoring an
   old sender works "without duplicate import or transit". The identity of a post is
   drawn when it is scanned. A post that is older than the backup and was scanned
   after it has none in the snapshot, is scanned again under another, and is imported
   twice. `SecondNameNeedsRestore` says that this is the only way: not by replays,
   retries or the restore of another board.
6. `report_races`: `docs/technical/files-custody.md:32-34` says that scanning with
   errors "cannot publish" and that malware is quarantined "regardless of approval".
   `finish_admission` stores report and decision in two statements. Where the network's
   import and a caller's upload inspect one file at the same time and the scanner does
   not answer both alike, the earlier inspection may decide last: the file stays
   published beside a report that forbids it, which `validate_files_authority` refuses
   at the next backup. `SoleReportsAreClean` shows that without callers it cannot
   happen, `BadIsNeverOffered` that it takes a scanner that also said "clean".

### Disagreements that were read, not run

The modules state the following sentences of the documentation too. The code does not
keep them; no run shows it, so they are readings and not results.

| Property | What is said | What the code does |
|---|---|---|
| `CircuitNet!FailedCanBeReviewed` | the Host "caps delivery attempts at12 before operator review" (`circuitnet-ng-specification.md:317-318`) | `circuitnet_retry` takes no row in state `failed`, so there is nothing to review: only a late receipt moves it on, or an unsubscription to a state beyond retry |
| `CircuitLink!BusyIsTold` | "Hold/admission/concurrency" goes out as held or busy (`circuitnet-ng-specification.md:312`) | a refused permit or bind drops the connection without a frame |
| `FileCustody!JournalSettles` | commits are "explicitly reconciled across crashes" (`sfng-file-system.md:305`) | nothing in the daemon calls `recover_file_operations` |
| `FileCustody!OfferedArrives` | a crash before completion is "recoverable by rescan" (`files-custody.md:38`) | an entry linked before its row was written refuses every later import of its name |
| `FileCustody!CatalogHasBytes` | "No tested failure silently diverges catalog and managed bytes" (`m039-tranche-5-verification.md:74`) | recovering the row of a dead upload removes the entry of its path, whoever owns it by now; no board does so today |
| `InteractionHub!LeavingKeepsCaller` | the end of a chat "returns a connected caller to its previous menu context" (`operator-control.md:251-252`) | a line typed after the operator left ends the session with an error |
| `InteractionHub!DisconnectClosesInteractions` | "A single cooperative request ends chat" (`operator-control.md:261-262`) | a page entered after the request waits up to 30 seconds |
| `ConfigurationCommit!DoneIsDurable` | "The synced configuration commit link proves persistence" (`operator_control.rs:151-152`) | `recover` completes the receipt without syncing the directory |
| `EventScheduler!ImmediateResponds` | "Immediate responds to durable queue activity" (`events.md`) | `event_recover` leaves the generation the interrupted run had seen |
| `ArtifactCustody!CapacityHeld` | 10,000 files, pending reservations counted (`qwk-offline.md:175`); 20,000 for CircuitNET (`circuitnet.md:176-177`) | bytes of pending rows are counted, files are not; `retain` compares with 20,000 where the directory's limit is 10,000 |
| `ArtifactCustody!BatchRetained` | lost receipts are recovered "by importing the identical artifact again" (`circuitnet.md:124`) | a crash inside `retain` leaves a partial file that refuses the identical artifact |
| `OfflineReplies!RejectionIsDecided` | "retry resumes from committed receipts" (`qwk-offline.md`) | a caller lost in the review has the remaining replies rejected for good |
| `OfflineReplies!SubmittedOnce` | the token of a submission "must be reused for recovery" (`network.rs:787-788`) | the session draws one per upload and keeps none |
| `BinkpSession!NoQuarrel`, with work queued late | nothing is sent once both ends have closed their last batch (`session.rs:763-765`) | the recheck may claim and offer work to an end that has completed |
| `FtnMail!MailIsAccountedFor` | transit NetMail "cannot return to ingress" (`ftn-core.md`) | NetMail that comes back over a loop is recorded as a duplicate |

Of a codename mapped after messages were taken in transit, which makes them
ineligible and has them held, no document says what should happen; nor of two boards
that poll each other at once and refuse each other as busy. `OneWholeSession` says
that they never have two sessions, not that either poll succeeds.

## Not modelled

Transfers (`sf-core/transfer*.rs`: reservations of time and bytes and their
settlement) and the socket protocol of the operator journal are the two parts
with state that are still missing. QWK networking shares the artifact store and
the reply import, which are modelled; its hub side is not.

Of no interest to a model: wire codecs, transports, localization, displays,
observability, the configuration editor and the monitor, and the readers of
legacy formats. They are input and output without state that other parts rely on.
