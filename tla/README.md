# Verification of Codex Subscription Router

TLA+ modules of the multiplexer in `src/`: what it does with requests, answers,
chats and subscriptions when its goroutines, its app-servers, the desktop and the
user act at the same time. TLC checks the modules on small instances; TLAPS proves
the safety properties for all instances.

## The system

`codex-mux` stands between the desktop and a pool of Codex app-servers, one per
subscription. The desktop sees one JSON-RPC connection.

| Component | State | Operations | Interacts through |
| --- | --- | --- | --- |
| Request path (`internal/mux/mux.go`, `thread_list.go`) | `externalRoutes`, `children`, `inbound` | `HandleClient`, `forward`, `aggregateThreadList`, `handleInbound` | pipes of the children, shared channel, desktop output, Store |
| Server requests (`mux.go`) | `serverRoutes`, `serverSequence` | `forwardServerRequest`, `handleServerRequestResponse` | inbound channel, stdin loop |
| Handshake (`mux.go`) | `initializeParams`, `initialized` | `initialize`, `handleClientNotification`, `startChild` | `children`, Store |
| App-server child (`internal/backend`) | `pending`, `closed`, pipes | `Request`, `Send`, `readLoop`, `waitLoop` | process, inbound channel |
| State store (`internal/state`) | accounts, chat owners, `state.json`, homes | `Open`, `AddAccount`, `UpdateAccount`, `RemoveAccount`, `SetThreadOwner`, `SyncManagedConfig` | file system |
| Accounts (`internal/mux/accounts.go`) | none of its own | `AddAccount`, `RemoveAccount`, `chooseAccount`, `AggregatedRateLimits` | Store, children |
| Reset credits and previews (`rate_limit_resets.go`, `rate_limit_preview.go`) | `resetCreditsCache`, `resetPreviews` | lookup, read, redemption, preview | remote service, routing, events |
| Profiles (`combined_profile.go`, `profile.go`) | locals of a request, image cache | `CombinedProfile`, `AccountProfile` | remote service, Store |
| Request lanes (`quota.go`) | none | `classifyRequestLane` | `config.toml` of a home |
| Managed configuration (`state/config.go`) | `config.toml` of each home | `SyncManagedConfig` every two seconds, `addAccountLocked` | desktop and app-servers, which write the same files |
| Imports (`state/auth.go`, `import_auth.go`) | `auth.json` of each home | `AddAccountWithAuth` | Store, app-servers |
| Control server (`internal/control`) | event subscribers | HTTP around the above, event stream | multiplexer |
| Account menu (`ui/account-menu.js`) | accounts shown, login dialog | `refresh`, `addSubscription`, events, timers | control server |
| Installer (`scripts`), launcher, trace | files | | |

What is hard in it:

- **Concurrency.** The stdin loop, a goroutine per thread/start, thread/list and
  limits request, two loops per child, one inbound loop, the control server's
  handlers and a two-second loop share tables, each with its own lock. What one
  reads under a lock it often uses after the unlock.
- **Ownership.** A chat lives in the home of one subscription, or of several if it was
  handed over. Its owner is learnt from an answer, from a notification and from listings;
  a follow-up sent to a home without the chat fails.
- **Failure.** Children exit with requests in flight; saves fail; the program may be
  killed between any two steps of a file update.
- **Order.** Answers and notifications of different children come in any order; an
  account may be added in the middle of the handshake and removed in the middle of
  anything.

What makes each component correct: a request has one answer from the right place
(request path); a decision reaches the ask it was made for (server requests); each
child is initialized (handshake); a call returns and leaks nothing (child); memory
and file agree and a removal is final (store); a new chat goes where there is
known to be capacity, if anywhere (routing); a count the routing weighs is not older than what the user has
redeemed (reset credits); the menu ends up showing the accounts as they are (menu);
settings reach every home, and credentials and trust stay where they are
(configuration); a page counts what it says it counts (profiles).

`PROJECT.json` lists the components, the hazards with the properties that watch
over them, the lines of `src/` behind every definition, and the findings.

## The modules

An action is what one goroutine does between two points at which another can get
in: the release of a lock, or the use of a pipe or a channel. Names are those of the
code where TLA+ allows it.

| Module | Models | State and its counterpart |
| --- | --- | --- |
| `PooledSession` | The promise to the desktop: a request is answered once, by the subscription it was routed to or by the multiplexer; a chat belongs to a subscription that holds it until that is removed, or moves to another one that holds it too. | abstract |
| `Multiplexer` | The request path, chat ownership, adding and removing accounts; a chat may be in several homes at the start. | `routes` is `externalRoutes`; `pc`, `params`, `target` are the locals of the goroutine of a request; `handling` those of `inboundLoop`; `listing` those of `aggregateThreadList`; `accounts`, `owners` the Store; `process`, `stdin`, `stdout`, `home` an app-server; `answers`, `seen` what the desktop got. |
| `ServerRequests` | Requests of the app-servers and the desktop's answers. | `serverRoutes`, `sequence`; `open` what an app-server waits for. The number of an ask is history. |
| `Handshake` | initialize and initialized, for the first children and for those that `startChild` adds meanwhile. | `paramsSaved`, `initialized`; `sawParams`, `sawFlag` are what `startChild` read. |
| `ChildRpc` | `Child.Request`, `readLoop`, `waitLoop`. | `pending`; a `mailbox` is the one-slot channel of a call; `delivering` is the response between unlock and send. |
| `DurableStore` | The promise of the Store to its callers: a table of subscriptions and chat owners that changes by whole operations, and a saved copy a restart goes back to. | abstract |
| `SubscriptionStore` | The Store, its save protocol, homes, restarts. | `accounts`, `owners` in memory; `disk` and `temporary` the files; `update` the holder of the lock. |
| `QuotaRouting` | The choice for a new chat and the combined alert, with statuses that come without limits, the preview of used-up limits, and the second round of statuses for the alert. | `status` is what a subscription answered last; `snapshots`, `candidates`, `banked` are the locals of `chooseAccount`; times are minutes from now, scores integers. `Sorted` is the insertion sort that `sort.SliceStable` is on a slice of at most `SortBlock` (20) elements, because what it does with a comparison that is no order matters. |
| `ResetCredits` | The cache of reset counts, the redemption with lost answers and retries, the preview. | A count is the set of redemptions it accounts for; `fetches`, `redeeming` are requests under way with their locals. |
| `AccountMenu` | The event stream and the menu that follows it. | `version` stands for what `GET /v1/accounts` would answer; `stream` is the channel of `SubscribeEvents`; `requests` are the answers on their way, `shown`, `login` state of the component; `watching` is the account the present run of the event effect was rendered for. |
| `ControlPlane` | The two composed: a redemption changes the version, an acknowledged one is announced. | |
| `CodexHomes` | `config.toml` and `auth.json` of the homes: the loop, the imports, the other writers, and the lane read from them. | `configs`, `auth` are the files, the Primary's `auth.json` among them; `sync` the locals of `SyncManagedConfig`. A file is a sequence of lines, each a header or a setting; a filter is the set of the line numbers it keeps. |
| `CombinedProfile` | One request for the profile page: its sums, calendar and identity. | `waiting`, `arrived`, `partial` are the locals of `CombinedProfile`. |
| `Multiplexer_proofs`, `ServerRequests_proofs`, `Handshake_proofs`, `ChildRpc_proofs`, `SubscriptionStore_proofs`, `QuotaRouting_proofs`, `ControlPlane_proofs`, `CodexHomes_proofs` | Theorems about the module of the same name; those about `CombinedProfile` are in the second half of `ControlPlane_proofs`, with the control server's other reads. | |
| `MC…` | Instances for TLC. | |

`PooledSession` is instantiated by `Multiplexer` with a refinement mapping
(`asked` is the set of requests that were read, `assigned` is `owners`, and so on).
`SubscriptionStore` instantiates `DurableStore`: `table` is the memory, or the file while
the program is not running, `saved` is the file, `gone` the accounts whose removal was
acknowledged. Writing the temporary file, moving homes and failing saves are stutters.
`RemoveAccount` appears in three modules, each time with what the others of the
module see of it: children and routes in `Multiplexer`, files in
`SubscriptionStore`, lost decisions in `ServerRequests`. The choice that
`QuotaRouting` models is left open in `Multiplexer`, which covers every choice.
A removal whose save fails leaves the account out of memory in both.
`SyncManagedConfig` is in `SubscriptionStore` with the directories it creates and in
`CodexHomes` with what it writes. In `ControlPlane` each step belongs to one of the
two components, except the steps both see.

History variables and fields say how a state came about where a property needs it:
that a listing holds a chat as unowned for which somebody else has recorded an owner
since (`overtaken` in `Multiplexer`), that a child was between the map and the flag
while the stdin loop was between the flag and its entries (`overlapped` in `Handshake`),
who had left when the candidates were taken up (`departed`), that a fetch was overtaken
by an invalidation (`overlapped` in `ResetCredits`), that two critical sections met
(`raced`), that an event was lost (`missed`), that a project was trusted while its file
was being replaced (`overtaken` in `CodexHomes`), that a login came into a home past the
search for duplicates (`escaped`). No guard reads them, and each is set where the event
happens, not where the property would need it.

Each property has a fault that breaks it: operators whose comment begins with
"Slip:" are altered forms of the definition they precede, of the kind a change to
the code might introduce, and `PROJECT.json` pairs them with the property that
notices. They are not part of any specification.

## The runs

The runs of the store check for deadlock, as it can always go on. The others do not: a
program that has answered everything, or has lost all its children, may stop.

| Run | Question | Bounds, and why they are enough |
| --- | --- | --- |
| `mux_safety` | Is every request answered at most once and from the right place, does every chat stay with its holder, does the multiplexer implement `PooledSession`? | Two requests of all eight kinds (one can be a listing or a chat creation while the other is a follow-up, a fork, a routed plugin request), the Primary account and one that may crash and may be removed, one chat that is readable from both homes (owned by either or by nobody) and one that is created, a channel of two. Two listings, or a listing and an answer, race for the shared chat, so that owners do move as the property says. A violation needs two requests, or a request and a removal; the proofs cover the rest. |
| `mux_answered` | Does every request get its answer? | A channel of one slot, so that `readLoop` does block; kinds that leave the stdin loop and one that does not; an account that is added, may crash and may be removed. |
| `server_requests` | Does each decision reach its ask, once? | Three asks over two app-servers and two ids: an id is used again and is used by both. |
| `child_rpc` | Can a call hang, leak, or block a loop? | Three calls, one without a deadline: one waits, one gives up and one registers late. |
| `handshake` | Is every child initialized, and in order? | One child from the start, two added at any point; every child may fail. |
| `store_safety` | Do memory and file agree, is a removal final, does the Store implement `DurableStore`? | Three accounts, one chat, one failing save and one kill, at any step. |
| `quota_choice` | Is a subscription chosen that is known to have allowance left, if there is one; what does the close-result rule cost; does the order of answers matter? | Three subscriptions, because non-transitivity needs three, each of which may answer with seven quotas (close in a chain, by score and by share; about to reset; used up with a single window; past its reset; no ChatGPT login), with any of these without its limits, or with the preview; no banked resets, many or an unknown number; any of them may fail, come too late, or leave; the second round may find other quotas. |
| `control_plane` | Can the routing weigh a count that misses a redemption; can a preview lose one; does the menu converge, does the dialog close? | One account, one fetch, two redemptions, a preview of two credits, a channel of one slot (so that events are dropped), two changes of the accounts (so that answers can be out of order), one fault. Two redemptions may take the same credit of the preview, and one may overwrite a preview that is set meanwhile; both break the equation that `PreviewLostOnlyInRace` states for the other orders. `MaxNotices` stops a preview from changing while that many announcements wait, a bound of the model only; `MaxActivity` bounds changes and redemptions together. |
| `codex_homes` | Do settings reach every home and nothing else; is the lane the same everywhere; can trust be lost, or a login imported twice? | Two homes and the Primary's; one login, with which any of them may be logged in by an import, within the size limit or beyond it, or by its app-server, and be logged out again; four contents of the Primary's file, which between them hold a provider, a proxy, trusted projects, an MCP server, credentials, headers with a comment and a setting without spaces; one edit, one trust per home, one file that cannot be written. |
| `combined_profile` | Does the page add up, with whose identity, and with which streaks? | Three accounts, of which two may have adjacent days; four profiles; every set of readable accounts, every order, every failure. |
| `dangling`, `home` | Disagreements, below. | The smallest instances that show them. |

`Tolerance` in `quota_choice` is 2 of a thousandth of a percent per hour, the code's
is 0.000001 percent per hour, and `ShareTolerance` 5 percent, the code's 0.001: the model
scales them so that integers can be close without being equal. The properties are stated
for any tolerances.

The instances have between 100 and 1.6 million states; the largest, `mux_safety` and
`quota_choice`, are bounded by the number of requests and of subscriptions.

`Inv` names the type invariant of a module together with the one or two claims about
its tables that hold with it: that an undecided dialog has a route (`server_requests`),
that a response nobody waits for is late and a finished call leaves no entry
(`child_rpc`), that every child is asked (`handshake`), that a clean store is on disk
(`store_safety`), that the alert is never early (`quota_choice`).

### Disagreements

Each has a run that ends with a counterexample.

- `dangling`: a removed subscription can become the owner of a chat. The answer to
  thread/start is in the inbound channel, the removal drops the child and clears the
  owners, and then `learnThreadOwner` records the account.
- `home`: the config loop creates the directory of a removed subscription again.

Met while modelling, without a run of its own:

- "[N]ever let the listing decide ownership for a chat that already has an owner"
  (`thread_list.go:31`): the listing looks the owner up and records one in two critical
  sections (`thread_list.go:43-45`). Two listings, or a listing and an answer, that meet
  between them move an owned chat, if it is in both homes. `OwnerIsSticky` allows exactly
  this, and `mux_safety` without that disjunct has a counterexample.
- A removal whose save fails has removed the account from memory all the same
  (`store.go:248`), although `accounts.go:124` calls every step before the commit
  reversible.
- After a failed save the owner of a chat is in memory, so that recording it again
  returns at once (`store.go:269`) and the file does not get it until another save.
- The combined alert may be later than the next reset when a subscription has a
  single window, because windows are averaged by slot (`accounts.go:484`). That it is
  never early is proved for windows of which no first one is longer than a second one, as
  the service has them; the code takes the longest of a subscription whatever its slot,
  but the longest of the averages.
- At the deadline `accountSnapshots` returns what it has as it came (`accounts.go:91`), so
  that ties then go to whoever answered first; `ArrivalOrderIsIrrelevant` is about choices
  that all subscriptions have answered.
- The trust of a project that an app-server writes between `config.go:32` and
  `config.go:58` is lost, although `store.go:106` says that it remains. Checked is that it
  is lost in no other way (`TrustLostOnlyInOverlap`).
- A header with a comment behind it is no header for the filters, and a credential
  setting without a space before its `=` is none either: `SecretsStayLocal` excepts the
  names the Primary has in such a form (`Unfiltered`), and nothing else.
- An import within the size limit may be stored beyond it and is then not found by
  the search for duplicates; an app-server may log in to an account that the pool has.
  `ImportsAreDistinct` excepts these two (`escaped`), and nothing else.
- A subscription that is used up but whose `account/rateLimits/read` fails is one without
  limits (`accounts.go:272-280`), and takes the chat if no other has allowance left.
- A failed verification leaves an imported account in the pool (`import_auth.go:19`), so
  that the second attempt is refused.

`docs/ARCHITECTURE.md:28` says that the chat of
a depleted owner moves to another account, and `README.md:175` that it does not; the
code does not move it. `docs/ARCHITECTURE.md:15` says one child per enabled account;
`Start` starts one for every account. If `RemoveAccount` runs between
`store.AddAccount` and `startChild`, the child of an account that has left enters the
map.

## Fairness

- `Multiplexer`: the goroutines of a request, the inbound loop and the read loops are
  scheduled, which the Go runtime does; an app-server that runs answers what it
  has read. Nothing is assumed of the desktop, of exits or of the user.
  `EveryRequestAnswered` exempts a request whose child has exited: the code fails the
  multiplexer's own calls then, and leaves the desktop's unanswered.
- `ServerRequests`: the inbound loop and the stdin loop are scheduled; the desktop
  need not answer.
- `ChildRpc`: the calls and loops are scheduled, deadlines pass, the process answers
  as long as it runs. That the scanner stops, or that the process exits, is
  never assumed. Each loop step has its own fairness condition, as each is in its
  own goroutine.
- `Handshake`: what has begun goes on, and the desktop sends initialized after its
  answer.
- `ControlPlane`: the event source connects again, the menu is rendered after its state
  has changed, the handler of the stream and the goroutines that publish run on, the
  timer fires while the menu is open, and the local server answers. No fairness is
  assumed of the remote service, of a redemption or of the user. Events may be dropped and up to `MaxFaults` requests,
  snapshots or connections fail; that they fail for ever is excluded by that bound.
- `CodexHomes`: the ticker fires and a file is read and written in bounded time. Edits
  and faults end, by their bounds.

The other modules are checked for safety only and state no fairness.

## The proofs

`Multiplexer_proofs` proves for all constants allowed by `ConstantsAssumption` (any
number of accounts, requests and chats, any channel capacity) that every safety
property of `mux_safety` is an invariant and that the multiplexer implements
`PooledSession`.

None of the properties is inductive. `AnsweredAtMostOnce` needs to know that a
response on its way has no second one behind it, which holds because of the route
that is taken out before the answer is written; `FollowUpReachesHome` needs to know
that a chat the desktop has seen is known, which needs what is in the pipes to be
genuine. `IndInv` puts this together:

- `TrafficIsGenuine`: what is in stdout, in the channel or being handled is an answer
  of an account a request was sent to, or names a chat of its home; what is
  in the pipe of a child was sent to it;
- `OneTokenPerRequest`: from registration on there is the route, or the response being
  handled, or the answer, and never two of them;
- `ChatsAreKnown`: the owner holds its chat, listings hold what they found, and what
  the desktop has seen has an owner or had one until a removal;
- `RequestsAreRouted`, `RemovalsAreOfMembers`, `FollowUpReachesHome`, `TypeOK`.

There is one lemma per group of conjuncts and action, and `Invariance` combines them.
`OwnerIsSticky` and the refinement hold for any chats in any homes. That a listing which
moves an owned chat was overtaken is no matter of one step: `OvertakenListingsAreKnown`
says of every listing that holds a chat as unowned that it still has no owner, or that
the listing is among the `overtaken`, which every other step that records an owner has to
keep up.

`mux_safety` checks `IndInv` on its instance, and the conjuncts that the listed theorems
single out with it.

`ControlPlane_proofs` proves the two safety properties of the banked resets for any
accounts, fetches and redemptions, from `ResetsAssumption` (redemptions are finitely many,
previews are counts) and `NoEntryAssumption` (the value that stands for a missing entry is
none). `ResetsStep` reduces a step of the composition to a step of the resets.
`StaleOnlyFromOverlap` is not inductive: the cache takes what a fetch brought, so
`CountsAreAccounted` says the same of answers still to be stored, and a redemption
that becomes known must mark those as overtaken. `PreviewLostOnlyInRace` needs
`PreviewsAreExact`: without a race there is at most one redemption between its two
locks, and it still has the number the preview has. Both need `Typed`, in which
redemptions and fetches under way belong to an account. The instance of `control_plane`
has two redemptions and one fetch; the theorems cover any number of them.

`ServerRequests_proofs`: a decision reaches the ask it was made for, and no ask has two
answers, for any number of app-servers, ids and asks. An app-server uses an id again, so
that the table alone does not tell two asks apart. `Numbered` does: there is one channel
and one sequence, so the number in a fresh key is that of the ask at the head. `Awaited`
adds that the app-server still waits, under the original id, for what is in the channel,
in the table or being answered, and `Settled` that an ask is in one of these only.

`ChildRpc_proofs`: no loop blocks on a mailbox, no waiting call is forgotten, and no
finished call leaves an entry, for any number of calls. A mailbox has room for one message,
and `readLoop` and `waitLoop` both send: `SendersNeverBlock` rests on `Registered`, by
which a waiting call is in the table, or being delivered to, or has mail, and never two
of them. That the response which finds nobody is a late one needs `OneResponse`: the
process owes a call one response, and it is in one place.

`SubscriptionStore_proofs`: file and memory agree unless a save failed, a removal is final,
an account leaves the file with its chats until a save fails, and the Store implements `DurableStore`; for any
number of accounts, chats, failing saves and kills, from `StoreAssumption`. The last goes
by lemmas: `TableUpdates` for the operations, `RenameSaves`, `CrashRestarts`, and
`OthersStutter` for the rest. It says in particular that a commit is of the memory of
that moment, and that nothing is confirmed as removed before a commit without it. The
invariants speak of the file, but it is the temporary file that is renamed over it:
`SnapshotIsCurrent` says that it holds the memory as long as the lock is held,
`RemovalIsUnderWay` that the removal being saved is one the memory shows, and
`PrimaryStays` that it is never the controller's.
`ChatsLeaveTogether` is what a rename needs to let chats go with their account.

`Handshake_proofs`: every child that is ready was asked or will be, the first children see
initialize before initialized, and a child is told twice only if `startChild` was between
the map and the flag while the stdin loop was between the flag and its entries, for any
number of children, from `HandshakeAssumption`. The last needs both ways a second message
could come (`ToldByOne`): the broadcast after `startChild` is done with the child, and
`startChild` after the broadcast has passed. Whoever
sends to a child follows from how far three goroutines have come: `Phases` relates them,
`NobodyIsLeftOut` covers the gap between the map and the saved parameters,
`SentByInitialize` and `SentByNotification` say what an inbox holds at each stage.

`CodexHomes_proofs`: the managed homes get no credentials and no trust of the Primary,
keep the trust they were given unless it was overtaken, get no login twice by an import,
and give the lane of the Primary; for any number of homes and any contents, from `HomesAssumption`
(contents are sequences of lines). The loop writes lines it has had in its hands for a
while, so that `FilesAreIsolated` and `TrustIsThere` hold of these as well as of the
files. `LinesSelect` says what a filter returns: the lines it keeps, each once and in
their order. `ImportsAreDistinct` is inductive together with `LargeFilesEscape`, that what
a search would have skipped is in `escaped`.

`QuotaRouting_proofs`: the chosen subscription was there, and has allowance left unless
none that could be chosen is known to; it is beaten by at most one tolerance for each
other candidate; once all have answered the order of the answers does not matter; the
alert is never early. This holds for any pool of up to `SortBlock` subscriptions, as many
as `sort.SliceStable` sorts by insertion alone, and any windows, scores and tolerances,
from `RoutingAssumption`. The inductive invariant is short (`AnswersOnce`,
`CandidatesMay`, `Decided`); the work is in what the operators return. `SortedKeeps`: the
sort permutes, and no element of the result goes before its predecessor unless that one
goes before it as well (`Linked`), which needs nothing of the comparison. `Chain`
adds up what neighbours may differ by, and `OneOrderByAge` shows that there is only one
sequence in order of age. That known capacity comes first, although the sorted list may
begin with a candidate that is beaten, is because what has no known limits scores
`UnknownUrgency`, further below any score than `Tolerance` reaches, so that the chain of
close results never leads from one kind to the other. The alert needs `AverageIs`: the average of a slot resets with
one of its windows and is as long as the longest.

`ControlPlane_proofs`, second half: the page of the pool adds up, has the controller's
identity and the streaks of the merged calendar, for any number of subscriptions, from
`ProfileAssumption` and `BucketsAssumption` (the buckets of a profile are finitely many
dates with numbers of tokens). What the request contributes is `PageInv`: an account that
is listed is waited for, has answered or has failed, and a page that is there was made
from the profiles that came (`FetchesAreCounted`, `PageIsMade`). The rest is about sums and
calendars. A sum folds a set in an order that nobody knows. `SetRecursion` shows, by
induction on subsets (`SubsetInduction`), that such a definition by recursion over a finite
set has a value, and `SumRemove` that any element may be taken out first. `DoubleCount` then
turns the sum over accounts of their days into one over the days of the pool. For the
streaks, `WalkGoesOn` follows the loop over the sorted days: after each of them, `longest`
is the length of a run among the days passed, and none of those is longer.

Each inductive invariant was model-checked on the instance of the module's run before it
was proved.

Facts about sequences and sorts are proved by induction. `Induction` does it over the set
of the numbers for which the claim holds (from the least number of its complement,
`LeastNumber`), because the library's induction theorems take an operator, which the
provers cannot instantiate; `SubsetInduction` does the same over the subsets of a finite
set; `Recursion` gives a recursive function its value.

Only model-checked: all liveness (the prover has no support for fairness): `EveryRequestAnswered`,
`DecisionIsDelivered`, `CallReturns`, `EveryChildIsNotified`, `MenuConverges`,
`DialogCloses`, `EditsReachEveryHome`. Every safety property and every refinement of the
passing runs is stated by a theorem.

## What is left out

- Contents of messages, names of methods that are routed alike, formatting, traces.
- Writes to the stdin of a child and to the desktop do not block: the pipes are taken to
  be large enough. A call whose write blocks is therefore not held to its deadline.
- In `Multiplexer`, the requests of a listing do not go through the pipes: a page is read
  in one step, and a listing has any part of what the home holds, as when a later page
  fails. Waiting for the pipes would only let the home grow meanwhile.
- "No controller account is configured" (`mux.go:272`): `Open` makes the Primary and
  `RemoveAccount` refuses it, so there always is one.
- A chat owned by a removed account at the start: the `dangling` run shows how the
  file can get one; the multiplexer starts without.
- Whether an account is enabled, in `Multiplexer`: both outcomes are followed.
- In `AccountMenu`: the removal dialog, the list of reset counts and what is drawn;
  two logins of one menu after each other; that an event carries a snapshot, which
  the menu does not read.
- In `ResetCredits`: expiry dates of single credits, and accounts that are disabled
  while a lookup runs; nothing in the cache depends on either.
- In `CodexHomes`: removals (in `SubscriptionStore`), TOML beyond headers and settings,
  and the names of official models, which are constants.
- In `CombinedProfile`: the means, maxima and most-used lists of the page, and profiles
  whose dates do not parse.
- In `QuotaRouting`: what happens to the request after the choice, which is in
  `Multiplexer`; the choice cannot see allowance used up after a status was answered.
- The image cache of `profile.go`, the trace, HTTP decoding and the control token: reads
  and formats without state that anything else depends on.
- The installer and the checks under `scripts`: text patches of a package.
- The components that `PROJECT.json` marks as not modelled.

## Plan

Done: the modules above and the proofs of their safety properties. What remains:

1. `ResetCredits` composed with `QuotaRouting` through the count it sees.
