# Piotrack: verification project

Piotrack is a multi-tenant growth platform for managed service providers: a
Laravel application with a relational database, a job queue, an hourly
scheduler and a browser front end. This project keeps TLA+ models of the parts
of it that have a protocol (state that several actors change over time), checks
them with TLC and proves what matters most with TLAPS.

## Where concurrency comes from

There are no threads. A web request, a queued job, a scheduled command and an
incoming event each run sequentially in a PHP process of their own, and they
meet only in the database. Hardly any of them takes a row lock: an actor loads
a model object, decides, and later saves it. Eloquent's `save` writes only the
attributes that differ from the loaded ones, so two actors may interleave
their attributes in one row. Jobs are delivered at least once and retried;
commands can die between two rows; the transactions that exist cover one
operation each.

The browser adds the other half. A page is one JavaScript thread, so a handler
runs undisturbed up to its `await`; but requests that are under way are served
and answered in any order, timers fire meanwhile, and the state a handler read
before its `await` may be gone after it.

## Inventory

| Component | State | Operations | What makes it correct |
|---|---|---|---|
| Subscription lifecycle (`Services/SubscriptionService.php`, `Console/Commands/ProcessRenewals, ExpireTrials, EnforceGrace`) | `subscriptions`, `invoices` | trial, checkout, activate, renew, change plan or quantity, cancel, resume, retry, past due, suspend, expire | one current subscription per organization; a period is not renewed twice; unpaid access ends; what is due gets done |
| Payment providers (`Billing/Providers`) | none here | start, change, cancel, pay | decides whether an operation is immediate and an invoice collected |
| Billing events (`Services/BillingWebhookProcessor.php`) | `billing_events` | handle | an event is applied once |
| Usage, entitlements, coupons (`Billing/UsageMeter.php`, `Entitlements.php`, `CouponService.php`) | usage counters, redemptions | check, increment, redeem | limits hold |
| Organizations and members (`Services/OrganizationService.php`) | memberships, invitations | create, invite, accept, change role, suspend, remove | at least one owner; seats within the plan |
| Marketing workflows (`Services/Marketing/WorkflowEngine.php`, `Jobs/RunWorkflowStep.php`) | enrollments with a step pointer and `next_run_at` | enroll, process, dispatch | a step runs once, not before its delay, and every enrollment finishes |
| Campaigns and tracking (`Services/Marketing/CampaignService.php`, `EmailTrackingService.php`) | campaign status, one row per recipient | send, schedule, open, click, unsubscribe | once per recipient over crashes and retries |
| Chat flow engine (`Services/Chat/ChatFlowEngine.php`, `ChatFlowValidator.php`) | conversation with a cursor, its lines | start, handle, advance, current, validate | a reply answers the question it was given to; the interpreter stops |
| Chat handoff and inbox (`ChatHandoffService`, `ChatInboxController`, `ChatReplyMailer`) | who drives a conversation, how far the visitor got | request, reply, close, mail | what the team writes reaches the visitor |
| Chat widget (`resources/js/widget/embed.ts`, `retry.ts`, `PublicChatController`) | token, lines drawn, last id, question, timer, requests under way | open, close, begin, send, poll, render, restore, fail, retry | every line once, none skipped; nobody waits for ever |
| Conversation graph (`resources/js/lib/flow-tree.ts`, `components/chat-flow/step-settings.tsx`, `flow-canvas.tsx`) | a graph of steps, drawn as a tree | insert, remove, move, duplicate, answers, paths | the drawing is what visitors get; an edit strands nothing |
| Conversation builder (`components/chat-flow/conversation-builder.tsx`, `ChatFlowController`, `ChatWidgetController`) | per tab a draft with undo history and verdict; the widget row; versions | edit, undo, redo, check, save, publish, restore, pause | what is live is valid; what is replaced is kept; unsaved work is marked |
| Outbound deliveries (`Jobs/DeliverWebhook.php`, `PublishSocialPost`), API idempotency | attempts, cached responses | deliver, retry | bounded retries; one effect per key |
| Tenancy, CRM, content, SEO, analytics, advertising, delivery, AI, platform, privacy, front end | tables of their own | mostly sequential create, read, update | not protocols; left out, see `PROJECT.json` |

`PROJECT.json` lists every component with its status, every definition with the
lines it stands for, and the most important hazards of the code at the line where
they bite.

## Modules

| Module | What it is |
|---|---|
| `SubscriptionRows` | one row of `subscriptions`, what each operation writes into it, which rows each command selects, and `Save`, Eloquent's dirty-attribute write |
| `Subscriptions` | the state machine of one organization's subscriptions |
| `CurrentSubscription` | what the rest of the program relies on: at most one current subscription |
| `MCSubscriptions` | values of the constants for TLC |
| `SubscriptionsProofs` | theorems about `Subscriptions`: types, renewals, the current subscription, the access a row gives |
| `ChatFlowEngine` | what the server does with one reply, as functions of the conversation it loaded |
| `ChatWidget` | the widget, the network, the server and the agents: composes `ChatFlowEngine` with the requests under way |
| `MCChatWidget` | a small flow with every type of step |
| `ChatWidgetProofs` | theorems: the interpreter stops; what each action of `ChatWidget` does, its types, and that a line is drawn once |
| `ChatAnswersProofs` | theorems about what the visitor sees and says |
| `FlowGraph` | a conversation as a graph, and every edit of it; the validator |
| `FlowTree` | the tree the canvas draws and the places and blocks it hands to the edits (recursive, for TLC only) |
| `FlowEditing` | the state machine: each edit the canvas and the settings can make, computed from the tree drawn; how it is drawn is a parameter |
| `MCFlowEditing` | `FlowEditing` with the drawing of `FlowTree`, and that the drawing is what visitors get |
| `FlowEditingProofs` | theorems: edits of a graph of any size leave it connected, deleting undoes inserting; every conversation built is well formed, connected and without a loop |
| `ConversationBuilder` | tabs, their drafts and saves, against the widget row and its versions |
| `MCConversationBuilder` | a conversation that may go live, one that may not, and none |
| `ConversationBuilderProofs` | theorems about `ConversationBuilder` |
| `Workflows` | a marketing workflow: triggers that enroll, the tick that queues jobs, the workers that run them, the pages that edit the steps |
| `MCWorkflows` | steps, delays and places where a job may die, for TLC |
| `WorkflowsProofs` | theorems about `Workflows` |
| `Members` | the people of an organization: members, invitations, a team, seats, accounts |
| `MCMembers` | accounts, addresses and plans for TLC |
| `MembersProofs` | theorems about `Members` |

### Subscriptions: state and actions

`subs` is the table (`NoRow` for an id not yet used), `invoices` the invoices,
`now` the clock in days, `provider` the configured payment provider. `req[c]` is
the request or event client `c` has in progress with the row it loaded;
`batch[c]` holds the objects command `c` loaded and has still to process;
`crashes` counts processes that died. A new organization has its trial or no
row at all (`Created`: `OrganizationService::create` starts the trial in its
own transaction, if the plan catalogue is there).

A request is two steps, because that is where the code reads and then writes:
`LoadCheckout`, `LoadCurrent` or `LoadEvent` copies the row, and `Checkout`,
`ChangePlan`, `ChangeQuantity`, `Cancel`, `Resume` or `ApplyEvent` runs the
handler on the copy. `RetryInvoice` saves the invoice as paid and, for a
past-due subscription, goes on to `Settle`, a second save outside any
transaction. The rest of a handler is one step: what it writes to several
tables it writes at once. `RequestDies` loses a request between the two steps.
A command is `StartSweep` (its query) and then `Process` once per row, in id
order, on the object it loaded; `SweepDies` ends it early, for a renewal also
between saving the row and writing the invoice, which the code does not do in
one transaction. Every write goes through `Save`, so an attribute somebody else
changed meanwhile is overwritten only if this actor changed it too.

`Charge` is `generatePaidInvoice`. The manual provider settles every invoice;
Stripe settles only invoices with a provider id, which a new one never has, so
under Stripe the invoice stays open and the object is marked past due.
Events reach `BillingWebhookProcessor` from the signed operator endpoint,
whichever provider is configured. Stripe's own events carry none of the
identifiers its handlers look up and change nothing, so they are not modelled.

Left out: amounts, plans, seats, coupons, add-ons, notices and the audit log
(nothing above branches on them: whether a plan change costs more is a free
choice), the organization (organizations share no billing rows), and the
per-request entitlement cache.

### ChatWidget: state and actions

`w` holds the fields of class `ChatWidget` that decide anything: `token`,
`open`, `busy`, `live`, `shown`, `last` (`lastSeenId`), `node` (`lastNode`),
`timer`, what the message box is (`box`) and the log: `log` says how often each
line the server numbered stands on screen, `echoes` how many replies stand there
as the widget drew them, without a number. `calls` is the set
of requests under way; a request carries the arguments it was sent with and,
once served, the answer. `convs` and `lines` are the server's rows; a line's
place in `lines` is its id.

An action is one handler up to its first `await` (`OpenPanel`, `Send`,
`PollTick`, `Close`, `NewChat`) or what follows it (`BeginAnswered`,
`SendAnswered`, `SendRefused`, `PollAnswered`, `RestoreAnswered`,
`CallFailed`). `begin` is two of these, because the token is kept before the
pause in front of the first line (`BeginDrawn`). On the server a poll and a
start are one step; a message is two (`LoadMessage`, `ApplyMessage`), because
an agent may write between the load and the writes. `fetchWithRetry` is
`Attempted`: a request or its answer is lost (`LoseRequest`, `LoseAnswer`), is
sent once more, and the second failure goes to the caller (`CallFailed`).

`ChatFlowEngine` gives the result of a reply from the conversation as loaded:
which step the reply is recorded for, what is said, where the cursor stops, and
which question goes back to the widget; `Saved` is what a save of the row leaves
of a conversation somebody else wrote meanwhile. It assumes of the flow that
the steps that speak and go on do not lead round (`SpeakingStepsEnd`): with such
a round `advance()` would not return. The validator does not see to that
(finding 6, which `flow_endless` shows), so nothing said about the chat covers
such a flow. A booking step is a choice to it and
steps that neither speak nor wait are left out.

### FlowEditing: state and actions

`flow` is the graph. A step is a type and its exits in the order `edges()`
lists them: input, score, tag, assign, handoff and webhook steps are `message`
(they lead on), ai is `booking` (it has a fallback). Each action is one call of
the editor object or of the settings, and takes its place, block or main exit
from the drawing as the code does. `Slot` is the code's, with an answer group
and an exit as one kind.

The drawing is a parameter: `Canvas`, `PlacesOn`, `StepsOn`, `BlockFrom`,
`PlaceAfter` and `CarriesOn` are constants, for which every configuration takes
`Root` (`buildTree`), `Places`, `DrawnIn`, `BlockOf`, `AfterSlot` and `MainExit`
of `FlowTree`. The code's drawing is recursive, and nothing can be proved in a
module that reaches a recursive operator; this way the machine can be proved
about, from `DrawingHolds`: a place is somewhere and leads one way, a block
holds its step and is left for its exit, answers carry on further down. TLC
checks `DrawingHolds` of the code's drawing.

### ConversationBuilder: state and actions

`tab[e]` is the component's state: draft, undo and redo, the conversation last
sent down (`base`), the verdict shown, whether there are unsaved changes,
whether the check is due and whether a save is under way. `widget` is the row,
`versions` the rows kept. A save or restore is `Save` or `Restore` in the tab,
`LoadWidget` (the row is read, a refusal decided), `WriteFlow` (the version
kept, the row saved with the columns that changed), `SaveAnswered` or
`RestoreAnswered` (props read anew, flags reset). `Check` and `CheckAnswered`
are the draft's verdict; `Lost` ends a request. What an edit makes of a
conversation is `FlowEditing`'s subject; here it is any other one.

### Workflows: state and actions

`wf` and `steps` are the workflow and the positions it has steps at, `rows` the
enrollments (`position` is `current_position`, `next` tells whether
`next_run_at` is unset, still to come or past), `jobs` the queue. A job carries
the row it loaded and what it decided, because it acts on those and not on the
row. `promised`, `times`, `counted` and `died` are what the properties speak of:
the steps a contact was to get, how often it went through each, the completions
counted, and the jobs that died.

`Fire` loads the workflow (`MarketingTrigger::fire`), `LookUp` and `Enroll` are
the two statements of `enroll`, `Refuse` and `EnrollFails` its ways out. `Tick`
is the query of `dispatchDue`, `Dispatch` queues one job of what it found. `Load`,
`Run` or `Leave`, `Write`, `Count` are `RunWorkflowStep::handle` and
`processEnrollment`, split where a job may die; `Acknowledge` takes it out of the
queue, `Dies` delivers it again while it has tries. `Write` saves the columns
that changed, from the row as loaded. The pages are `AddStep`, `DeleteStep`,
`Toggle` and `Destroy`.

Left out: what a step does, which condition it has and whether it holds, and the
plan's executions (free choices), `enrolled_count`, `trigger_config`, and deleted
contacts, which take their rows with them as a deleted workflow does. A job that
overruns the queue's `retry_after` is delivered twice at once, which is what two
ticks do and is checked there. A delay belongs to a position (`Delayed`), also
of a step that is deleted and added again.

### Members: state and actions

`members` is `organization_user`, `invitations` the rows of that table (a row is
open until it is accepted, also when it has expired), `email` the accounts'
addresses, `team` one team, `limit` the member limit of the plan the organization
is on. `org` is there, deleted (the row stays, marked) or erased (the row went
with its creator's account). `requests[c]` is what client `c` has checked and has
still to write; `uses` counts how often an invitation let somebody in.

A request is checked in one step and writes in another: `BeginChangeRole` and
`ChangeRole`, `BeginLower` and `Remove` or `Deactivate`, `BeginAccept` and
`Accept` (whose transaction checks nothing again), `BeginJoinTeam` and
`JoinTeam`. An invitation is `BeginInvite`, `ClearInvite`, `Invite`: a check, a
delete and an insert that no transaction holds together. `Dies` ends a request in
between. `Reactivate`, `Resend`, `Revoke`, `LeaveTeam`, `ChangeEmail`,
`DeleteAccount` and `DeleteOrganization` write whatever they read and are one
step; `DeleteAccount` is also what the foreign keys do. `Expire` is seven days,
`ChangePlan` stands for what `Subscriptions` is about. Whoever asks is an active
owner or administrator; permissions are not told apart further.

Left out: names, tokens, mail and audit lines; which organization a user looks
at, since every request checks the membership again; deleting and creating teams;
and `DataPrivacyService::deleteUser`, which nothing calls.

## Runs

| Run | Bounds | Shows |
|---|---|---|
| `billing_manual` | manual provider, 1 client, 2 rows, intervals of 1 and 2 days, trial of 2, 3 days, 2 requests that bill, 1 crash; 1.5 M states | types; `OneCurrentSubscription`; `SweepNeverRevives`; refinement of `CurrentSubscription` |
| `billing_events` | manual provider, 1 client, 1 row, all events, interval 2, 3 days, weak fairness; 0.2 M states | `UnpaidAccessEnds`; `BoundaryHonoured` |
| `billing_hosted` | provider switches between manual and Stripe, 1 client, 1 row, activation events, 2 days; 1.1 M states | `RenewalsDistinct` when invoices are not collected |
| `chat_widget` | 5 steps, 2 replies, 1 agent line, 2 openings, 2 polls at once, 1 fault, agents write after a handoff; 0.09 M states | types; `DrawnOnce`; `NothingSkipped`; `AnswerFitsQuestion`; `EchoIsRecorded`; `SendSettles`; `AgentLineArrives` |
| `flow_editing` | messages, questions and endings put in, bookings by way of a meeting ending; up to 4 steps, 2 of them splits; 37 K states | types; `DrawnIsReachable`; `Connected`; `DrawingHolds`; `NoLoops`; `DeleteUndoesInsert` |
| `flow_endless` | messages, questions, conditions and endings, blocks that a path enters or leaves half way moved too | violated: a published conversation that never waits |
| `builder` | 2 tabs, 3 conversations, 2 edits, 2 saves or restores, 1 lost request, a history of one change and one version; 0.49 M states | types; `LiveFlowValid`; `CleanIsSaved`; `ReplacedIsKept`; `VerdictSettles` |
| `workflows` | 1 contact, 2 enrollments, 2 places in the queue, up to 3 steps, 1 death of each enrollment's jobs before the last write, the queue empty at a tick | `CompletedWhole`; `NotEarly`; `StepsOnce`; `CountedOnce`; `OneActive`; `NeverBack` |
| `workflow_progress` | 1 enrollment, 2 jobs of it at once, ticks at any time, up to 3 steps, 1 job that dies anywhere and for good, weak fairness; 0.5 M states | `StepsInOrder`; `EnrollmentsFinish` |
| `workflow_built` | no steps at first | violated: a workflow built on its page runs no step |
| `members` | 3 people, 2 invitations, plans of 2 and of 3 seats, 1 request at a time, nobody let in again past the check; 3.0 M states | types; `OwnerKept`; `MembersNotInvited`; `OneOpenInvitation`; `SeatsWithinPlan` |
| `members_moves` | 2 people who may change address and leave, 1 invitation, plans of 1 and 2 seats, 1 request at a time; 0.7 M states | `UsedOnce`; `TeamOfMembers` |

Each of the following configurations shows one more violation, by the same
modules under other constants. They are not among the runs of `PROJECT.json`; check
one with `tlc -config <name>.cfg <module>.tla`.

| Configuration | Module | What it lets in | Violated |
|---|---|---|---|
| `resume_unpaid` | `MCSubscriptions` | manual provider | `ActivationIsBilled`: a trial becomes active without paying |
| `stale_sweep` | `MCSubscriptions` | manual provider | `SweepOnlyPastBoundary`: a command acts on a row that is no longer due |
| `checkout_abandoned` | `MCSubscriptions` | Stripe | `UnpaidAccessEnds`: an abandoned checkout is an endless trial |
| `double_checkout` | `MCSubscriptions` | manual provider, 2 clients | `OneCurrentSubscription`: two checkouts at once make two current subscriptions |
| `chat_lost_line` | `MCChatWidget` | agents may step in at any time | `NothingSkipped`: an agent's line is never shown |
| `workflow_step_deleted` | `MCWorkflows` | 3 steps, one may be deleted | `EveryStepRuns`: the steps behind a gap do not run |
| `workflow_retried` | `MCWorkflows` | a death after the last write | `NotEarly`: the next step runs before its delay |
| `workflow_slow_queue` | `MCWorkflows` | 2 jobs, ticks at any time | `StepsOnce`: a step runs twice though no job died |
| `workflow_two_triggers` | `MCWorkflows` | 2 triggers at once | `OneActive`: two active enrollments of a contact |
| `owners_race` | `MCMembers` | 2 requests at once | `OwnerKept`: two owners lower each other |
| `owner_departs` | `MCMembers` | accounts may be deleted | `OwnerKept`: the last owner deletes the account |
| `owner_readdressed` | `MCMembers` | addresses may change | `OwnerKept`: the last owner accepts an invitation to a lower role |
| `creator_departs` | `MCMembers` | accounts may be deleted | `OthersKeepOrganization`: the organization goes with its creator |
| `invited_twice` | `MCMembers` | 2 requests at once | `OneOpenInvitation`: two open invitations of one address |
| `accepted_twice` | `MCMembers` | 2 requests at once | `UsedOnce`: one invitation lets in twice |
| `accepted_downgraded` | `MCMembers` | the plan may change | `JoinsWithinPlan`: acceptance exceeds the seats |

The bounds are chosen so that the interesting cases occur. Two rows are one
that ended and its successor, which is what a stale command could confuse; a
third adds nothing, since only the newest active row is ever current. Two
intervals let a plan change shorten or lengthen the period under a renewal that
has been loaded. Three days let a trial lapse, or a period be renewed twice.
`MaxInvoices` bounds only requests and events: the commands renew as often as
the clock allows. The bounded clock and invoices let the system stop, so
deadlock is not checked.

In the chat, one agent line and two replies are what an ordering needs: a line
before, between or after the bot's. Two polls overlap each other, a reply and a
transcript; one fault meets every request in turn, on its way there and (except
a reply) on its way back. Two openings close and restore the panel, or start a
new chat after an ended one. Four steps hold a split whose paths meet in a
fourth, a split inside a split, a path of its own, and a step in front of and
behind each; the split bound keeps out only graphs made of three splits. There
deadlock is checked: an editor can always do something. In the builder a tab
and a competitor are enough for every race of the row, one save and one restore
(or two saves) for every order of writes, and bounds of one for the history and
the versions are reached at once. Of an organization, three people are an owner,
a member and one who is invited, or two owners and one; two invitations are one
and the one that replaces it, or two that take the last two seats. There deadlock
is not checked, because a deleted organization has nothing left to do.

Fairness: weak fairness of `StartSweep(c)` and `Process(c)` for each command.
The scheduler starts each command every hour unless its previous run still
goes on (`routes/console.php`), and a run goes through its rows. Nothing is
assumed of customers, staff, events or the clock: time may stop, but what is
already due must be handled. `BoundaryHonoured` is claimed for the manual
provider, where no call throws; with Stripe one row whose call always throws
stops its command every hour.

Of the chat widget: weak fairness of the timer, of the server and of acting on
answers. `setInterval` fires as long as nobody clears it, and a request that is
not lost (a free choice) is served and answered. Visitors, agents and the
network owe nothing. Of the builder: weak fairness of each tab's check timer
and the same for requests; nobody has to edit or save.

Of the workflows: weak fairness of the tick, of queueing each enrollment a tick
has loaded, of every delay and of every worker. The scheduler starts the tick
every five minutes, without overlapping (`routes/console.php`); jobs die a bounded
number of times (`MaxDeaths`), and an enrollment whose job ran out of tries is left
to the next tick, which is what `workflow_progress` is about. Triggers and editors owe
nothing. Deadlock is not checked: when the workflow has been deleted and the
last job is over, nothing is left to do.

What the code does not promise, and the passing runs therefore do not claim.
Two checkouts at once make two current subscriptions (`double_checkout`), and
so does an `activated` event for an old row; `OneCurrentSubscription` is
checked, and proved, where neither happens: one client, no events. With one
client the requests of an organization do not overlap, which leaves the
commands as its competitors. `RenewalsDistinct` needs no such restriction: it
is checked with one client, where the state space is small enough to be
exhausted, and proved for any number. A renewal that dies before its invoice
loses that invoice.

The chat, builder, workflow and members models name their deployment by constants, most
of them Boolean. The runs that check the properties named on the right set them to `FALSE`, which
leaves out behaviour the code allows and does not survive; set to `TRUE`, TLC shows
the violation:

| Constant | What it lets in | What then fails |
|---|---|---|
| `Takeover` (chat) | an agent writes while the script drives | `NothingSkipped`, `AnswerFitsQuestion`, `EchoIsRecorded` (finding 5) |
| `Hasty` (chat) | the visitor closes, or starts anew, while answers are due | `NothingSkipped`, `AnswerFitsQuestion`, `EchoIsRecorded`: what arrives late is drawn into the next log |
| `"send"` in `Lossy` (chat) | the answer to a reply is lost | `AnswerFitsQuestion`: the reply is sent again and answers the next question |
| `Loops` (graph) | "Go to" leads back | `NoLoops`, by intent; and deleting a step that leads to itself leaves exits to it (`Connected`) |
| `Orphans` (graph) | a meeting ending is put where paths meet at an open end | `Connected`: its picker is left out of reach |
| `Ragged` (graph) | a block is moved that a path enters or leaves half way, that is, one that is not `Sealed` | `NoLoops`, `ValidFlowsPause` (finding 6) |
| `Careless` (builder) | the widget list publishes an invalid draft | `LiveFlowValid` |
| `Interleaved` (builder) | two writes of the row overlap | `LiveFlowValid`, `ReplacedIsKept`, `CleanIsSaved` |
| `Hasty` (builder) | edits while a save is under way | `CleanIsSaved`: they are lost or shown as saved |
| `Overtaken` (builder) | verdicts arrive out of order | `VerdictSettles` |
| `Backlog` (workflows) | a tick finds jobs of the one before still queued | `StepsOnce`, `CountedOnce`, `NeverBack`, `NotEarly` (finding 10) |
| `"done"` in `Deaths` (workflows) | a worker is killed between a job's last write and its acknowledgement | `NotEarly` (finding 9) |
| two `Triggers` (workflows) | two requests fire for one contact | `OneActive` (finding 11) |
| two `Clients` (members) | two requests about one organization at once | `OwnerKept`, `OneOpenInvitation`, `UsedOnce` (findings 12, 16, 17) |
| `Readdresses` (members) | users change address | `MembersNotInvited`, and with it `OwnerKept` (finding 14) |
| `Departures` (members) | users delete their account | `OwnerKept` (finding 13) |
| `Reseats` (members) | deactivated members come back, expired invitations are sent again | `SeatsWithinPlan`: neither looks at the limit, and nothing says it does |
| `Replans` (members) | the plan changes | `SeatsWithinPlan`, by intent, and `JoinsWithinPlan` (finding 18) |

Three more places where the code and its words differ, without a run:
`restoreVersion` reaches the visitors of a live widget at once, although
`ChatFlowController.php:167` and the dialog (`conversation-builder.tsx:708`)
call it a draft; a save empties the undo history, although
`conversation-builder.tsx:671` says that every change can be undone; and the
line "X joined" of a handoff is not among what the reply carries and lies below
what the widget has seen, so polling never shows it.

Each `Faulty...` operator is a plausible bug in the definition it precedes.
Substituted for it, it makes a run fail; nothing else refers to it.

### Findings

The run or configuration in parentheses shows it. `PROJECT.json` lists findings 6
and 7, which are the two violated runs.

1. `resume` sets `active` whatever the row was, so cancelling a trial at its
   end and resuming it gives an active subscription nobody paid for
   (`resume_unpaid`).
2. The commands act on objects loaded earlier without looking again, so a
   customer who checks out while `expire-trials` runs pays and is expired
   (`stale_sweep`).
3. A hosted checkout nobody completes leaves a `trialing` row without
   `trial_ends_at`, which no command finds (`checkout_abandoned`).
4. Two checkouts served at once, when there is no current subscription, insert
   one each (`double_checkout`).
5. `lastSeenId` is the largest id drawn. An agent's line that is numbered while
   the bot handles a message lies below the lines the bot then writes; once the
   widget has drawn those it never asks for the agent's, and the reply mailer,
   which goes by the same number, does not send it (`chat_lost_line`).
6. A split without a join is moved as if nothing could follow it, although one
   of its paths may. The move can close a round of messages and conditions,
   the validator passes it, and the engine goes round it without end
   (`flow_endless`). A split with a join can do the same, in conversations of
   six steps and more, when a path leaves it for a step behind the join or
   comes into the middle of it; the attempt to prove `NoLoops` found these.
7. The page numbers the first step of a workflow 1, the engine starts at
   position 0 and takes a position without a step for the end: an enrollment in
   a workflow built on its page completes at once (`workflow_built`).
8. Deleting a step leaves a gap, at which enrollments complete
   (`workflow_step_deleted`).
9. A job does not look at `next_run_at`. One that is delivered again after it
   has moved the pointer runs the next step at once (`workflow_retried`).
10. A tick queues an enrollment that has a job waiting; both jobs then run the
    same step (`workflow_slow_queue`).
11. `enroll` checks and inserts in two statements with no unique index behind
    them (`workflow_two_triggers`).
12. Whether somebody is the last owner is asked before the write and without a
    lock: two owners who demote, deactivate or remove each other leave none
    (`owners_race`).
13. The profile page deletes an account without asking what it owns
    (`owner_departs`).
14. Accepting an invitation writes over a membership that is there. An owner who
    takes an address that has been invited loses the role by accepting, the last
    owner too (`owner_readdressed`).
15. With the creator's account goes the organization, whoever else owns it or
    works in it (`creator_departs`).
16. An invitation deletes and inserts in separate statements; two at once for
    one address both stay (`invited_twice`).
17. The pending invitation is read outside the transaction that accepts it; two
    requests accept it twice (`accepted_twice`).
18. Acceptance looks at no limit (`accepted_downgraded`).

## Proofs

`SubscriptionsProofs` proves, for every value of the constants (any number of
rows, any intervals of at least a day, both providers, all events, any number
of crashes), from `DaysAssumption` and `BoundsAssumption`:

- `TypeCorrect`: `Spec => []TypeOK`. One lemma per group of actions; `Ledger`
  is the part of the type a write can disturb, so `Store` and `Charge` are
  proved once each and cited.
- `OneCurrentWhenSerial`: `Spec => []OneCurrentSubscription`, and
  `SlotImplemented`: `Spec => SlotSpec`, under `Serial` (manual provider, no
  events, at most one client; the commands are unrestricted). `SerialInv` adds
  that nothing is past due, that a command holds only rows it found in the
  state it looks for, and that a request in progress holds the only row that
  can be active. A command's write lowers a row or keeps its status, which is
  where dirty-attribute saving matters: a renewal of a row loaded as active
  does not write the status. A request's write stays within its row.
- `RenewalsBilledOnce`: `Spec => []RenewalsDistinct`. That property is not
  inductive: it says nothing of the objects a renewal command still holds,
  which decide the next invoice. `RenewalInv` adds that every renewal began
  before the end of its row's period, in the table and in every loaded object,
  and no later than now. A step that renews nothing moves a period end only
  into the future (`EndsKept`) and adds no renewal (`RenewalsKept`), and
  `QuietStep` shows once that such a step keeps the invariant; `RenewalStep`
  is the remaining case, a renewal or a renewal that died half way.

It goes on to the access a row gives:

- `CommandsReviveNothing`: `Spec => SweepNeverRevives`, under `Manual` (an
  invoice is collected at once). A command's write leaves a row in its state or
  ends it, except that of a renewal: a renewal marks a row active only if it
  was loaded in another state, and `RenewsActive` says it never is.
- `UnpaidAccessIsDated`: `Spec => []UnpaidAccessEnds`, under `OneAtATime`
  (`Manual`, and one request or event at a time; the commands are
  unrestricted). `DatesInv` adds that an existing row has a period end, that a
  command holds only rows there are, and that a row a request has loaded is as
  it was or has ended, with every date the loaded object has (`HeldFresh`): a
  save then leaves no status without its date.

`ConversationBuilderProofs` proves, from `BuilderAssumption`, for any number of
tabs, conversations, edits, requests and losses:

- `HistoryBounded`: `Spec => []TypeOK`, the undo history and the versions among
  it. Inductive as it stands.
- `LiveConversationsValid` and `NothingReplacedUnkept`: `Spec => []LiveFlowValid`
  and `Spec => ReplacedIsKept` under `Serial` (`~Interleaved /\ ~Careless`).
  Neither is inductive: a write is decided from the row as it was loaded.
  `SerialInv` adds that at most one write is between its load and its answer
  (`Sole`), that the row it loaded is still the row (`LoadedFresh`), and that
  what was just written is what is there (`JustWritten`).
- `UnsavedWorkIsMarked`: `Spec => []CleanIsSaved` under `Patient` (`Serial`, and
  nobody edits during a save). `CleanInv` adds that while a tab has a write
  under way, its draft is what it sent or what the server last sent down
  (`Sent`); that is what makes it safe to
  drop the mark when the answer comes.

`ChatWidgetProofs` first proves of the engine `WalkStops`: from every step `advance()` comes to a
stop that does not go on by itself. What the recursive function `Walk` is for
every step cannot be had by induction over an operator; instead the set of the
steps for which it tells something is taken as large as it can be, and
`SpeakingStepsEnd` applied to the rest shows that nothing is left out.

It then has one lemma per action, which says what the action does to
the fields the invariants look at, and proves with no assumption about the
deployment:

- `WidgetTypes`: `Spec => []TypeOK`, in particular that an answer names only
  lines there are and that only a start is without a conversation.
- `LinesDrawnOnce`: `Spec => []DrawnOnce`. Inductive with the types: `renderAll`
  skips what is in `shown`, and the log is emptied together with it.

`ChatAnswersProofs` proves the other three, for any number of replies, agents'
lines, polls at once and faults:

- `AgentLinesAreDrawn`: `Spec => []NothingSkipped`, under `Patient` (`~Takeover`
  and `~Hasty`). What an answer may leave out was decided when it was served, so
  the property says nothing of the answers still to be drawn; `Ordered` does. It
  needs `Solo` (a start and a restore are alone, replies come one at a time, a
  closed panel waits for nothing) and `Rows` (between load and write nobody
  else wrote the conversation).
- `AnswersAreToTheQuestion`: `Spec => []AnswerFitsQuestion`, under `Once`
  (`Patient`, and the answer to a reply is not lost). `Fitted` says which
  question the widget, the row and the answers on their way agree on.
- `EchoesAreRecorded`: `Spec => []EchoIsRecorded`, under `Once`. `Voiceless` and
  `Known` say that no visitor's line comes in by polling while the widget knows
  its own replies, `Echoed` counts replies drawn against replies recorded or on
  their way.

`Patient` and `Once` are what the properties need and not what the proofs do:
with `Takeover` or with `Hasty` TLC violates all three, and with a lost answer
`AnswerFitsQuestion`. Only for `EchoIsRecorded` with a lost answer does TLC find
no violation where the theorem says nothing.

`FlowEditingProofs` first proves, from `IdAssumption`, about graphs of any size, that an
edit of a `WellConnected` graph gives one: `ChoosePathConnects`,
`RemovedConnects` (of a step that does not lead to itself), `InsertConnects` and
`MoveConnects`; and `InsertUndone`, that deleting a step just put in gives the
same graph back. All but the first two take a place that satisfies `PlaceIn`,
and a move takes a block that carries on at a step or nowhere. Reachability is
defined as membership in every closed set, so that the argument is set
inclusion, not induction: to show that an edit keeps a step in reach, a set
closed in the new graph is extended to one closed in the old (`ClosedFollows`,
`ReachableLeast`).

It then proves of the machine, from `IdAssumption` and
`StepsAssumption`, for any number of steps and splits (a question has up to
three answers, as everywhere in the model), all types of block and any drawing:

- `ConversationsTyped`, `ConversationsConnected`, `ConversationsGoForward` and
  `DeletingUndoesInserting`: under `Tame` (`~Loops`, `~Orphans`, `~Ragged`),
  `Spec /\ []DrawingHolds` implies `[]TypeOK`, `[]Connected`, `[]NoLoops` and
  `[]DeleteUndoesInsert`. Each of the three constants is needed: set to `TRUE`
  it lets in a violation (above). `[]DrawingHolds` is a hypothesis about the
  drawing, which the run `flow_editing` checks of the code's.
- `MoveAcyclic`, the hardest step: a move of a `Sealed` block closes no loop.

The invariant is `Sound`: well formed (`Typed`), connected and acyclic. They
hold only together. A deletion keeps a graph connected only if no step
leads to itself, which acyclic gives; a question whose answers are turned off
carries on further down, which is no loop only because what it carries on to
comes after it (`After`); a block that has been moved can close a loop only
through steps nothing reaches, which connected excludes. One lemma for each edit
(`InsertSound`, `MoveSound`, `QuickRepliesOffSound`, ...) and one for each
action on top of it. `Acyclic` says that every set of steps has one that nothing
in the set leads to, and `After` is membership in closed sets, so here too
nothing needs induction.

The proof attempt is what found the rest of finding 6: `MoveAcyclic` does not
hold of a block with a join unless the block is `Sealed`. The examples are
larger than the bounds of `flow_editing`.

`WorkflowsProofs` proves, from `WorkflowsAssumption`, for any number of contacts,
enrollments, triggers, places in the queue, steps, tries and deaths:

- `TypesHold`: `Spec => []TypeOK`.
- `StepsRunInOrder` and `CompletionIsWhole`: `Spec => []StepsInOrder` and
  `Spec => []CompletedWhole`, with no assumption about the deployment. However
  many jobs work on one enrollment from rows loaded long ago, a position that is
  written is one more than a position gone through. `Ordered` says so of every
  row and of every copy a job holds; `Sound` adds which promised steps lie
  before the pointer (`Kept`) and that a job decided to complete where nothing
  promised follows (`Known`).
- `EnrolledOnce`: `Spec => []OneActive`, when one request at a time fires the
  trigger (`OneTrigger`).
- `StepsRunOnce`, `CompletionCountedOnce` and `PointerAdvances`:
  `Spec => []StepsOnce`, `[]CountedOnce` and `NeverBack`, when the queue is empty
  at a tick (`Drained`, that is `~Backlog`). `Alone`
  says that an enrollment has one job or is waiting in `due`, `Fresh` that the
  job's copy is the row up to the write, `Once` and `Uncounted` how far the
  history may be ahead of what the job has done.
- `DelaysPass`: `Spec => []NotEarly`, under `Drained` and when no worker is killed
  between a job's last write and its acknowledgement (`Acknowledged`).

`workflow_progress` is why the two theorems without a hypothesis matter: it is the
deployment in which the others fail. What `Drained`, `Acknowledged` and
`OneTrigger` exclude does happen, and findings 9 to 11 show each of them. The
types of `Workflows` are proved (`TypesHold`) and no run checks them again.

`MembersProofs` proves, from `MembersAssumption`, for any number of accounts,
addresses, invitations and requests, and all plans:

- `MembersTyped`: `Spec => []TypeOK`, however requests overlap.
- Under `Serial` (one request at a time; everything that is one step may happen
  between its check and its write): `InvitationsDoNotPileUp`
  (`OneOpenInvitation`), `InvitationsAreSingleUse` (`UsedOnce`) and
  `TeamsFollowMembership` (`TeamOfMembers`), also where accounts, addresses and
  plans come and go. `Cleared` says that an address whose rows were deleted has
  none open, `Unspent` that an invitation about to be accepted has let nobody in,
  `Joining` that whoever is about to join a team is still a member or gone for
  good.
- `MembersAreNotInvited` (`MembersNotInvited`), where addresses stay as well.
  `Apart` joins it to `Asked` (whoever is about to be invited is no member) and
  `Entering` (whoever is about to accept is none either, and no other invitation
  is open for the address); `Settled` says the addresses are the first ones.
- `AnOwnerIsKept` (`OwnerKept`), where in addition nobody deletes an account.
  `OwnerSafe` says that a request about to lower somebody leaves another owner;
  that acceptance lowers nobody is `Apart` again, which is why the two belong to
  one invariant.
- `SeatsStayWithinPlan` (`SeatsWithinPlan`), where nobody is reactivated or
  invited again past the check and the plan stays. It is not inductive: who
  accepts takes a seat at the end, and the invitation gives its up, perhaps
  earlier, because it expires or is revoked meanwhile. `Reserved` says that such
  a seat is free until then, and so is that of an invitation still to be inserted.

Each hypothesis is needed: findings 12 to 14, 16 and 17 and the table above are
what happens without it.

Only model-checked: `DrawnIsReachable` and `DrawingHolds`, which are about the
recursive drawing; `EchoIsRecorded` where the answer to a reply may be lost; and
`BoundaryHonoured`, `SendSettles`, `AgentLineArrives`, `VerdictSettles` and `EnrollmentsFinish`, since
liveness under fairness is beyond this prover.

## Not modelled

- The rest of the front end (`resources/js/pages`, `marketing`, `components`),
  some forty-eight thousand lines: pages that lay out what the server sent and
  post a form. They keep no state that anything else relies on, so there is
  nothing in them for a model to say; the share of the code the models stand
  for is small for that reason and is not widened by naming such lines.
- In the chat: attachments, rating, the teaser, consent, scores, tags, captured
  leads, booking slots, the assistant, webhook steps, presence and the mail.
- In the builder: panels, selection, test chats, and `applyTemplate`, which no
  page calls. A webhook step's fallback is left out because `edges()` leaves it
  out, too.
- Redelivery of billing events, add-ons, coupons, usage counters, campaigns,
  deliveries and idempotency keys. Their hazards are listed in `PROJECT.json`
  with what would go wrong; they are check-then-write races of two requests or
  at-least-once effects of a job, and would be the next modules, in this order:
  campaigns, billing events, deliveries.
- Everything `PROJECT.json` calls sequential: create, read and update
  operations, reports, generators and calls of third parties.
