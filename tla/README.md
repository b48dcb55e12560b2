# A specification of Supremely

TLA+ modules, model-checking configurations and machine-checked proofs for
Supremely, a multi-tenant community platform: a Flask application served by
several web processes, one or more background workers, and a SQLite or
PostgreSQL database between them. Paths below are those of the repository.

Nothing in Supremely talks to anything else except through database rows, so
nearly every hard question is the same one: a process reads rows, decides, and
commits later; what may other processes, and crashes, have done in between?
The modules cut every operation at its commits (and at the reads whose result
is used after another process may have run) and let everything interleave.

## Contents

1. [The system](#the-system) - components, state, interactions, what is hard
2. [Modules](#modules) - what each module models and how it maps to the code
3. [Runs](#runs) - what TLC checks, with which bounds, and what it shows
4. [Fairness](#fairness)
5. [Theorems](#theorems) - what is proved, from what, and how
6. [Where the code and its documents disagree](#where-the-code-and-its-documents-disagree)
7. [Observations](#observations) - limits of the code met while modelling
8. [Not modelled, and limits](#not-modelled-and-limits)

## The system

| Component | State | Operations | Hard behaviour | What makes it correct |
|---|---|---|---|---|
| Job queue (`platform/jobs.py`, `models/job.py`) | job rows: status, run_at, attempts, locked_at, finished_at | enqueue, claim, run, fail with backoff, recover zombies, reschedule, cleanup, retry | several workers; a worker dies at any point; slow handlers; recurring jobs that fail after booking their successor | one runner per job; bounded attempts; recurring jobs neither multiply nor vanish; due jobs are claimed |
| Newsletter sending (`platform/newsletter.py`, `models/newsletter.py`, `manage.py`) | delivery, recipient rows | create a delivery (three commits), send a batch, close or book the rest | crash between mail and mark; two jobs about one delivery; content or subscriber removed under the handler; provider unset | done owes nobody; sent was mailed; no duplicate without a fault; sending ends |
| Newsletter subscription (`models/newsletter.py`, `controllers/newsletter.py`) | one row an address | subscribe, confirm, unsubscribe, remove | links that stay good; requests that read the row earlier | who left stays out until somebody subscribes him again |
| Memberships and roles (`models/membership.py`, `manage.py`, `admin.py`, `platform/authz.py`) | membership rows: role, status | add, change role, suspend, unsuspend, remove, transfer ownership | guards on rows loaded at the start of a request; the count of owners and the change are separate statements | an owner remains; nobody acts above his rank; suspensions stand |
| Accounts, sessions, reset links, invitations (`models/user.py`, `password_reset.py`, `invitation.py`, `auth.py`, `members.py`, `admin.py`) | accounts, links, invitations, cookies nothing revokes | sign up, accept, issue, redeem, change a password, deactivate, promote, demote | several commits a request; one link in two hands; links issued and redeemed together | a link works once; issuing retires; dead cookies stay dead; accepted means joined; an administrator remains |
| Tiers and visibility (`models/tier.py`, `platform/authz.py`) | ladder of ranks, the tier a member holds | add, move, retire, restore; can_read, the listing filter | a request plans on a ladder another changes; ranks tie | what is listed can be read and the reverse; a move moves; a tier remains |
| Content (`models/content.py`, `platform/content.py`, `organization.py` settings) | items, blocks, slugs, gates, section settings | create, edit, publish, move, delete; save a section | section addresses and page slugs share one space; the settings are one column | settings are not lost; ranks and parents stay valid |
| Public site and feeds (`controllers/site.py`, `feeds.py`) | none of its own; copies in shared caches | pages, archives, lessons, feeds, sitemap, cache headers | lists and addresses decide separately; a cached feed outlives what it was built from | what is listed opens; what a cache hands out was open to everybody less than `CACHE_MAX_AGE` ago |
| Discussions (`models/discussion.py`, `discussions.py`) | groups, posts, replies, reactions, follows, flags | post, reply, moderate, react, gate, move, delete | counters recounted from rows; one post per content item; deletion under a reply; seven lists | threads keep their shape; a count is put right; hidden stays hidden; what is listed opens, but for the profile |
| Notifications (`platform/notify.py`, `models/notification.py`) | rows, read marks, mail jobs | fan out a reply, mail, read | one commit a person; mail before its mark | told once, the writer never |
| Rate limiting (`middleware/ratelimit.py`) | counters of one process | hit, fail, forgive, sweep | windows, sweep and its cap | no burst above twice the limit |
| Tenancy (`platform/tenant.py`, `models/domain.py`) | `g.org`, domains, the session's rows | resolve a host, make a link, filter, stamp | rows from before a change of scope; labels reserved | rows of one's own only; links land |
| Uploads (`models/upload.py`, `platform/storage.py`) | files, rows, settings that point at rows | upload, make variants, delete, replace the logo | no commit spans the three | a row has its files until it is deleted |
| Plugins (`platform/plugins.py`, `models/org_plugin.py`) | directories, pins per organization | install, upgrade, disable, boot | requirements between plugins, one commit each | an enabled plugin has what it requires |
| Setup (`controllers/setup.py`, `platform/install.py`, `config_store.py`, `cli.py`, `demo_seed.py`) | config file, scratch file, installation | the wizard's steps, reset, the command line's seeds, which also mark the installation | six writes; files read, merged, replaced; several writers of one mark | complete means administered; complete by a wizard means what he asked for is there |
| Update check (`platform/updates.py`) | one row | ask, record, dismiss | checks that overlap; a thread that is walked away from | the banner stays until something answers it |
| Themes (`platform/theming.py`) | packages, a registry in each process, theme and settings | install, uninstall, choose, preview | files replaced one by one; two commits a save; registries that are behind | settings are worn by their own theme, and a lone save mends what an overlap broke |
| Event RSVPs, navigation, mail, content types and fields, seeds, shell, analytics, export | rows and tables | - | straight-line code, I/O, formatting | - |

How they meet:

* Web requests write rows and enqueue jobs (`enqueue` commits). Workers claim
  jobs and run handlers, which commit as they go and may enqueue more.
* The newsletter handler relies on the queue for exclusive claims and for
  being run again after a crash. `JobLease` is that contract: the queue is
  shown to implement it, and `Newsletter` is built on it.
* `resolve_tenant` reads the caller's membership when a request begins; every
  permission check of that request uses that copy. `Ownership` models the copy.
* One ladder of tiers and one `can_read` decide about items, sections and
  discussion groups: `Content`, `Site`, `Feeds` and `Forum` extend `Tiers`.
* An accepted invitation and the platform console add memberships; deleting a
  content item deletes its delivery with the recipient rows; removing a
  subscriber deletes his recipient rows.

Facts about the database that the modules use: statements read what is
committed when they run (PostgreSQL at READ COMMITTED, SQLite in autocommit);
the ORM serves a row a session has loaded from memory, and its UPDATE writes
the columns that changed; an UPDATE by primary key that matches no row raises,
a DELETE that matches none only warns.

## Modules

| Module | What it is |
|---|---|
| `JobLease` | what the queue promises: at most one holder per job, the holder's verdict alone, only orphans reclaimed |
| `JobQueue` | the queue as written, cut at its commits |
| `JobQueueProofs` | theorems about `JobQueue` |
| `Newsletter` | one delivery from the request to the last batch, over `JobLease` |
| `NewsletterProofs` | theorems about `Newsletter` |
| `Ownership` | memberships of one organization and the requests that change them |
| `OwnershipProofs` | theorems about `Ownership` |
| `Thread` | discussion posts, replies, counts, marks and the one thread of an item |
| `ThreadProofs` | theorems about `Thread` |
| `Accounts` | accounts, sessions, reset links and invitations |
| `AccountsProofs` | theorems about `Accounts` |
| `Tiers` | the ladder, members on it, and the one rule of who may read |
| `Content` | extends `Tiers`: items, blocks, addresses, section settings |
| `Site` | extends `Content`: what the site lists and what its addresses answer |
| `Feeds` | extends `Site`: the feed in a cache that strangers share |
| `Forum` | extends `Tiers`: discussion groups and every surface that shows a post |
| `SiteProofs` | theorems about `Tiers`, `Content`, `Site`, `Feeds` and `Forum` |
| `Setup`, `Themes`, `Updates`, `Plugins` | the first-run wizard; packages, registries, theme and settings; the update check; plugins |
| `InstallationProofs` | theorems about these four |
| `Tenant`, `Uploads`, `Notices` | hosts, links and the scope of work; files, rows and the logo; who is told of a reply, and the mail |
| `Audience`, `RateLimit` | one subscriber; attempt counters |
| `PlatformProofs` | theorems about these five |
| `MCJobQueue`, `MCNewsletter`, `MCOwnership`, `MCForum` | symmetry sets for TLC |
| `MCThread`, `MCAccounts`, `MCSite`, `MCPlatform` | instances explored in parts, chosen in the initial state |

Definitions whose comment begins "Fault:" are not the program. Each is the
mutated form of the definition after it - a dropped guard, a wrong comparison,
a missing reset - and shows that some property would notice.

### JobQueue

`job` is the table (a row for every id, `none` before it is inserted and
`deleted` after a purge); a worker is a `pc`, the candidate or job it has
(`cur`), the `now` it read when it selected it (`at`) and the names it has
still to seed (`todo`); `loaded` is the failed job an operator's retry has in
memory. The clock is `now`, in model units. `revived` is history: the rows an
operator has put back by hand.

| Action | Code |
|---|---|
| `StartWorker`, `SeedCheck`, `SeedEnqueue` | `run_worker`: `recover_zombies`, then `_seed_recurring_jobs` as a look and an insert |
| `StartInline`, `EndInline` | `run_pending_jobs` (`flask jobs work-off`): no recovery, ends when nothing is due |
| `ClaimSelect`, `ClaimWon`, `ClaimLost` | `_claim_next`: the select, and the conditional UPDATE by its row count |
| `BookCheck`, `BookEnqueue` | `reschedule`: the look for a pending row and the insert, each its own step |
| `Purge` | the delete in `_cleanup` |
| `RunOk`, `RunFail` | `_run`: done; pending with a backoff or failed; a row purged meanwhile |
| `Crash` | the process dies anywhere, including between two commits |
| `EnqueueTask`, `RetryLoad`, `RetrySave` | a request; `Job.retry` as the load with its check, and the save |
| `Tick` | time |

What a handler does for its own purposes is abstract: it may raise at any
point where control is outside its last commit. `UPDATE_CHECK_ENABLED` is
chosen anew at every read, because workers restart under changed settings.
On PostgreSQL the candidate select skips rows another worker has selected
(`Candidates`). Ids are not reused.

### Newsletter

One organization, `Deliveries` each of its own content item. The request is
three steps with its audience in memory between the first two (`web`,
`snapshot`); the handler has a step for every read that is used later and
every commit (`step`, `seen`, `batch`, `hand`); `mails` counts the messages
the provider took. Claim, verdict, orphan and recovery are the actions of
`JobLease` joined to the handler's own variables; attempts are kept here
because a delivery is abandoned by them. Readers, managers and the provider's
configuration change at any time. `faults` bounds crashes and failed commits.

### Ownership

`row` is the table; a request has a `place`, a `caller` (a membership, or
`Console` for `/admin`, where no membership is asked for), the rows its session
loaded (`seen`) and the rows as it will commit them (`want`). A route loads
what is not yet loaded, checks, stages its change, then - when it takes an
owner away - counts owners (`CountOwners`) and commits. `Written` is what the
ORM writes: the columns that differ from what was loaded. `CommitFails` is the
unique key and the vanished row. `Refuse` stands for every early return; it is
always possible and changes nothing. `overtaken` is history: whether another
request has changed the table since this one arrived.

### Thread

`post` and `reply` are the tables of one organization (`none` before an id is
given out, `gone` after the row is deleted), `marked` the posts and replies that
somebody's reaction or flag names, `live` the content items. A request has a
place (`at`) and what its session holds in memory: the row it is about, the
count it loaded, the count it took, the switch it saw.

| Action | Code |
|---|---|
| `NewPost` | `new_post`: one commit |
| `FindThread`, `OpenThread` | `start_content_discussion`: `for_content`, then `start_for_content` under the unique key and the foreign key |
| `BeginReply`, `SaveReply` | `reply`: the post with its gate; `validate` and the insert |
| `BeginDelete`, `DeleteReply` | `delete_reply`: the load, and the delete with its cascade |
| `Refresh`, `CountReplies`, `WriteCount` | the end of both: the post expired by the commit is loaded again, `recount_replies` counts, the UPDATE writes the count if it differs from the one loaded |
| `DeletePost`, `DeleteItem` | `delete_post` (or the deletion of its group), `delete_content` with SET NULL |
| `BeginToggle`, `SaveToggle` | `hide_post`, `lock_post` |
| `BeginMark`, `SaveMark` | `react` (both ways), `flag` |
| `Die` | the process dies, or a statement of the request fails |

`validate` and the insert are one step: a parent's own `parent_id` never changes,
and a parent deleted in between fails the foreign key, which ends the request
as the validation would. `alone` in a request is a history variable: whether
another request has run since it began. It never guards an action. `MCThread`
explores replies (three, so that an answer to an answer could exist), the thread
of an item with two replies, and switches and marks with one, in turn.

### Accounts

Accounts with their digest, membership of one organization, reset links,
invitations, and every cookie ever handed out (nothing revokes one; a cookie
resolves while the stamp in it is that of the account's password). A request
reads what it needs at its first step and goes on in the commits of the route:
`issue` retires what it saw outstanding and inserts; `redeem` is the one
conditional UPDATE and then the password; sign-up by a link is the account, the
membership and the mark, one after the other. Where a route hands out a cookie
after its commit (`Committed`), the cookie is a step of its own (`SignIn`): the
row was expired by the commit and is read again, and `login_user` refuses an
account that has been deactivated meanwhile. A password is changed on the page
of the account or, for oneself, at the console. Deactivation, reactivation,
promotion and demotion are the console's. A request may end (`Leave`) between any two
steps, because a crash leaves what was committed and nothing else.
`MCAccounts` explores the console, reset links and invitations in turn; they
meet in the accounts only.

### Tiers, Content, Site, Feeds

`Tiers` holds the ladder and what a request has planned to write to it: `add`
reads the greatest rank, `move_to` plans the whole new order, `retire` counts.
`Visitors` are the anonymous visitor, signed-in strangers, members on every tier
and the roles that read everything. A request asks the ladder once (`ranks_of`)
and keeps the answer, the memo, while the ladder may change under it; the rank a
member holds comes from his own row. `CanRead` is `authz.can_read` on a memo,
which may be of an earlier ladder than the row; `Listed` is the filter
`visible_query` builds.

`Content` adds items and the settings column. A request loads a row and writes
the columns it changed; positions of blocks are read and then written. A slug
is made unique among the addresses its type shares, and refused where it is the
base of a section. `IsPostgres` says where ids come from: a sequence (`numbered`
is the last one given out), or the highest id there is, as SQLite does.

`Site` has no state: it computes permalinks, lists (archives, feeds, the sitemap,
children), and what an address answers each visitor: a page, an archive, a gate,
a feed (`FeedAnswer`, for a path whose second part is `feed`), or nothing.

`Feeds` adds a shared cache with one copy of the feed of an organization. It is
external and does what HTTP lets it do: keep an answer that `_xml` marks public,
whoever asked, and hand it to everybody for `CacheLife` ticks. `missed` is
history: for how long an anonymous visitor has not found an entry at its address.

### Forum

Groups with their gate and order, the area's one setting, the group chosen for
discussions of content, posts with their hidden and pinned marks, and which of
two posts moved after the other (`activity`, a relation). Every surface that shows a post is an operator: `Directory`,
`GroupPage`, `Rail`, `LatestForSite`, `Home`, `Profile`; `Opens` is what the
address of a post answers. All but the profile filter by the groups a visitor may
read, so `PostsOpen` speaks of the profile only where he may read the group, and
`AsksFirst` says of all of them what the docstring of `readable_ids` says. `Thread` covers what concurrent requests do to one post.
`MCSite` explores the ladder, members on it, authors, blocks, sections,
concurrent saves, the cached feed, and the forum in turn.

### The parts of MCPlatform

Nine components that share no state, explored one at a time (`part`): a product
of them would show nothing more and could not be explored.

| Module | State and steps |
|---|---|
| `Setup` | `config.env` as its domain and its mark with who wrote it (the code asks only whether it is there), the scratch file of each wizard, administrator, whether the command line made one (`staff`), and organization; the gate, the read of the file and the six writes of the wizard's last step, each of which a crash, a refusal or another wizard may follow; `flask seed supremely` and `flask seed demo`, which mark the installation too; `flask setup reset` as a read and a replace |
| `Plugins` | majors on disk, pins of one organization; install as the stack of its calls, each of which calls itself for what the plugin requires (`Require`) and then commits a row of its own; upgrade, disable, removal from disk as far as boot allows it (`check_stranded_pins`) |
| `Tenant` | status and domain rows, what a host resolves to, the link an organization is given; a session with what it loaded, made, changed and deleted, the loader filter and the write stamp |
| `Uploads` | files, rows, the logo that points at one; writing before the row, variants later, deletion row by file, serving to whom the row's visibility or his membership admits |
| `RateLimit` | the dictionary of one process, as its entries and the order they were put in: fixed windows, expiry, the sweep and its cap, failures that are forgiven on success |
| `Notices` | follows, the fan-out of a reply one person and one commit at a time, rows, the mail job with its attempts and the order of its commits |
| `Audience` | one subscriber; requests that read the row and write what they made of it; confirmation mail as sent or not |
| `Updates` | the image that runs, the row of the last answer, checks that may overlap and are told any date or nothing, a thread that answers after it was walked away from, what a browser dismissed |
| `Themes` | files on the volume, the registry of each process, the organization's theme and the theme its settings were saved for; install, uninstall, and a save as its load, the commit of the theme and the commit of the settings; restarts |

In all of these `alone` and `orderly` are history variables: they record whether
another request ran beside one, and guard nothing. `alone` is of one request and
starts anew with the next. `orderly` is of the theme: a save or removal that meets
another, a registry that is behind, or a stop between two commits clears it, and
the next save that runs by itself sets it again.

## Runs

Every passing run is exhaustive within its bounds.

| Run | Instance | States | Shows |
|---|---|---|---|
| `JobQueueClaims` | 2 workers (one inline), 2 jobs, 1 operator, 2 attempts, 1 crash, clock to 5, timeout 2 | 832,855 | `OneRunner`, `AttemptsPaidFor`, and that the queue implements the lease (`ImplementsLease`) |
| `JobQueueSchedule` | 1 worker, 1 operator, 1 crash, 4 cleanup ids and 1 of the update check, 2 attempts, clock to 3, day 2 | 1,514,673 | `NoFlood`; `ScheduleNeverLost` |
| `JobQueueServed` | 2 supervised workers, 2 jobs, 1 operator, 1 crash, handlers of any length, no backoff, clock to 2 | 144,146 | `DueIsClaimed` |
| `NewsletterSafety` | 2 workers, 3 jobs, 2 readers, batches of 1, 2 attempts, 1 fault | 52,382 | `DoneOwesNobody`, `SentWasMailed`, `ExtrasPaidFor` |
| `NewsletterEnds` | 1 supervised worker, 3 jobs, 4 attempts, 1 fault | 183,780 | `SendingEnds` |
| `OwnershipPairs` | 3 memberships, 2 requests | 915,475 | `LastOwnerStays`, `RankRespected`, `SuspensionStands` |
| `ThreadPairs` | 2 posts, up to 3 replies by the part, 1 item, 2 requests, the hide switch, marks on posts | 341,681 | `ThreadShape`, `OneThread`, `RecountHeals`, `HiddenStays` |
| `AccountsPairs` | 2 accounts, 2 links, 1 invitation, 2 requests, 3 digests | 1,424,062 | `LinkOnce`, `OneOutstanding`, `StaleStays`, `AcceptedJoined`, `AdminKept` |
| `SitePublic` | 3 tiers, 3 items of 3 types, 3 slugs, 2 groups, 2 posts, 2 requests, a cache that keeps for 2 ticks | 179,535 | `ContentOK`, `ListingAgrees`, `ListedOpens`, `CachedWasOpen`, `PostsOpen`, `LastTierKept`, `MoveMoves`, `SettingsKept` |
| `Platform` | nine components in parts, 2 of everything that can be concurrent | 1,164,170 | `CompleteIsSeeded`, `LinksLand`, `TenantKept`, `FilesBehindRows`, `BurstBounded`, `HeardOnce`, `OwnSettings`, `RequirementsKept`, `UnsubscribeStands`, `BannerKept` |
| `OwnershipRace` | 2 memberships, 2 requests | violation | `OwnerKept` fails |
| `ForumProfile` | 2 tiers, 2 groups, 1 post | violation | `AsksFirst` fails |

Why the bounds are enough for the cases that matter:

* *Claims.* Two workers and a timeout of two units give every order of select,
  update, verdict, death and recovery, and the clock reaches past a recovery
  and the run after it. A second runner, had it been possible, needs two
  workers and one timeout. One worker is inline because inline workers do not
  recover orphans and a job must survive that. `MaxAttempts` 2 shows both sides
  of the comparison. Claims of any number of workers are proved.
* *Schedule.* A day of two units, a backoff of one and a clock to three let a
  cleanup fail, be retried beside its successor, fail for good, be orphaned by a
  crash, brought back, put back by the operator and be purged. `NoFlood` allows one
  worker that may die once three rows that wait; four cleanup ids are one more, and
  an update check shares the worker with them. Any number of workers is proved.
* *Served.* A job that fails is due again at once (no backoff), and one that has
  given up is put back by the operator, without end: claims of one job are
  unbounded, and a select that preferred it would leave the other waiting for ever.
  The clock stops at its bound and the workers do not, so a row whose time has
  passed stays so (`Overdue`, strictly: of rows due at the same instant the select
  takes any); `DueIsClaimed` is about claims, not about time.
* *Newsletter.* Batches of one with two readers make a delivery take two jobs;
  three job ids leave one for the handler that is retried beside the job it had
  booked. One fault is what an at-least-once handler has to survive;
  `ExtrasPaidFor` counts them.
* *Ownership.* A race needs a caller and a target, of which one may be the other's
  target; a suspension undone by a stale page needs the suspended member, his
  manager and a third who saves. Three memberships come to be any of these.
* *Thread.* A second thread of an item needs two posts and two requests that both
  saw none. A reply that loses its parent, or gets one from another post, needs
  two replies and a post beside; an answer to an answer needs three. A wrong count needs two requests that count in
  one order and write in the other; the run reaches such states, and
  `RecountHeals` says what the next request on its own does about them. The lock
  behaves as the hide switch does and guards the same action, and marks on
  replies as marks on posts, so one of each is in the run.
* *Accounts.* A race about a link needs two requests and two links (one of them
  newer); three digests give an account a password, a reset and a change after
  it. One invitation is enough for two people to open it.
* *Site.* An address is contested by two items or by an item and a section: two
  items of authors, three with a lesson in an event, slugs of which one is a
  section's. Blocks are added to one item or to either of two, and a parent is
  deleted beside. Three tiers give a move both directions; a retired one between two
  others is a retired rung. Two groups are one that is readable and one that is
  not, a rail of one is full or has room. The feed is
  kept while the item in it and its section are opened, gated and closed; a life of
  two ticks tells a copy that was good a tick ago from one that is too old.
* *Platform.* Two wizards, uploaders, administrators or requests are every race
  there is about one file or row. Three plugins make a chain of requirements;
  three labels one that is reserved; a reader besides the writer and the author
  is told in every way there is. A limit of two and a window of two units pass a
  window's edge, with two counters more than the cap of the sweep. One theme beside
  the one every installation has is a theme that comes, is chosen and goes; one base
  domain is enough where the question is who wrote the mark.

`CHECK_DEADLOCK FALSE` stands in every configuration: the clock, the ids and the
faults are bounded and requests may all be over,
so an instance may come to rest.

What the runs leave out deliberately, and what is known of it:

* `PromptHandlers` (no claim and run outlives the fifteen minutes of
  `ZOMBIE_TIMEOUT`) holds in `JobQueueClaims`. Without it a worker that starts
  takes a slow handler for an orphan, the job runs twice at once, and the later
  verdict overwrites the earlier. A newsletter batch of 200 slow messages can
  take that long.
* One operator in `JobQueueClaims`. `Job.retry` checks the status it loaded and
  saves by primary key, so of two retries at once the second can move a row
  that is already running.
* Rows an operator put back are not counted by `NoFlood`: he may put back as many
  as he likes. Two workers that start together, or run two rows of a recurring job,
  can each book one; that is why the bound grows with the workers.
* `LastOwnerStays` is about commits that no other has overtaken since their request
  arrived, and `RankRespected` about a caller's and a target's row that still are
  what was loaded. Without that both fail: ownership may pass to a member between
  the check of his rank and the commit, and owners may step down together
  (`OwnershipRace`).
* `ThreadPairs` gives ids out once, as PostgreSQL does. SQLite gives the highest
  id out again when its row has gone (the primary keys are plain rowids), so a
  new post may there inherit the reactions and flags of the newest one, if that
  was deleted; and `RecountHeals` fails there, when the post a request is counting
  for is deleted and its id taken by another before the count is written.
* `SitePublic` gives ids out once too. On SQLite the parent that `add_block` has
  loaded may be deleted and its id taken by a block of another item; `validate`
  finds a row of that id and asks the object in memory whether it is a block, so
  that blocks nest. `ContentOK` fails there, and `ContentSound` and
  `WhatIsListedOpens` are about ids from a sequence.
* "A reply count equals the rows" is not a property of this code: two replies at
  once can leave it one short until somebody replies or deletes again.
* `OneOutstanding`, `AdminKept`, `LastTierKept`, `MoveMoves`, `SettingsKept` and
  `RequirementsKept` speak of a request that nothing overlaps, although others do
  overlap in the run and leave behind what they leave: each fails for two that
  overlap, because the code checks and writes in separate statements. They say what
  one request by itself does about whatever state it finds: a lone issue retires
  all that overlapping ones left, a lone move puts its tier where it was sent over
  tied ranks, and the others do not do what overlapping ones may. What an overlap
  itself does is in no property; the hazards say where.
* `OwnSettings` speaks of the time since a save last ran by itself, as long as
  nothing met it, and `UnsubscribeStands` of the steps at which every request
  under way has had the row to itself: see Observations for what happens otherwise.
* `SendingEnds` needs fewer faults than attempts. A job that fails for good
  leaves its delivery on `sending` until an operator retries the job.
* `AttemptsPaidFor` and not "at most `max_attempts`": attempts are counted when
  a job is claimed, and recovery does not look at the count, so a job that kills
  its worker is tried once more for every worker it kills.

## Fairness

Only `JobQueueServed` and `NewsletterEnds` use fairness, and only weak fairness
of processes:

* `WF(Loop(w))`: a worker process that runs keeps running. Its loop polls
  without end (`run_worker`), and every step of it is always enabled until
  taken.
* `WF(StartWorker(w))`: a dead worker is started again. The deployment
  documents run the worker with `--restart unless-stopped`
  (`docs/deployment/manual.md`), and the installer's watchdog restarts stopped
  containers (`docs/deployment/install.md`). The repository's
  `docker-compose.yml` states no restart policy; an installation that relies on
  it alone does not have this.
* `Newsletter` uses the queue's own promise in place of its protocol:
  `WF(Claims)` is what `JobQueueServed` shows. Nothing is assumed of the recovery
  of orphans, because a worker looks for them only when it starts and may start
  too early (Observations). So `SendingEnds` excepts a delivery one of whose jobs
  is `Lost`: it says running, and nobody runs it.

No fairness is assumed of requests, operators, readers, the clock or faults.

## Theorems

Checked by TLAPS for every value of the constants that satisfies the `ASSUME`s.

| Theorem | Hypotheses | Says |
|---|---|---|
| `JobQueueProofs!TypeCorrect` | - | `TypeInv`: the domains, and a busy worker has a row and a claim time |
| `JobQueueProofs!ClaimsExclusive` | `PromptHandlers`, `OneOperator` | `[]OneRunner` |
| `JobQueueProofs!AttemptsBounded` | the same | `[]AttemptsPaidFor` |
| `JobQueueProofs!QueueIsLease` | the same | `Spec => ImplementsLease` |
| `JobQueueProofs!ScheduleSafe` | the same, `DoneRetention >= ZombieTimeout` | `ScheduleNeverLost`, for any number of workers |
| `JobQueueProofs!FloodBounded` | - | `[]NoFlood`, for any number of workers, crashes and operators |
| `OwnershipProofs!TypeCorrect` | - | `[]TypeOK` |
| `OwnershipProofs!SuspensionHolds` | - | `SuspensionStands`, for any number of requests |
| `OwnershipProofs!OnlyOvertakenLoseTheOwner` | - | `LastOwnerStays`, for any number of requests |
| `OwnershipProofs!RankKept` | - | `RankRespected`, for any number of requests |
| `ThreadProofs!ThreadTyped` | - | `[]TypeOK` |
| `ThreadProofs!ThreadWellShaped` | - | `[]ThreadShape` |
| `ThreadProofs!ThreadUnique` | - | `[]OneThread` |
| `ThreadProofs!HiddenUntilSeen` | - | `HiddenStays` |
| `ThreadProofs!CountsHeal` | `IsPostgres` | `RecountHeals` |
| `NewsletterProofs!DoneIsDone` | - | `[]DoneOwesNobody` |
| `NewsletterProofs!MarkedWasMailed` | - | `[]SentWasMailed` |
| `NewsletterProofs!OnceButForFaults` | - | `[]ExtrasPaidFor` |
| `AccountsProofs!LinkSetsOnce` | - | `[]LinkOnce` |
| `AccountsProofs!OneLinkOutstanding` | - | `OneOutstanding` |
| `AccountsProofs!StaleCookiesStay` | - | `StaleStays` |
| `AccountsProofs!AcceptedMeansJoined` | - | `[]AcceptedJoined` |
| `AccountsProofs!AdministratorKept` | - | `AdminKept` |
| `SiteProofs!ListingIsThePageRule` | - | `ListingAgrees` |
| `SiteProofs!ATierIsKept` | - | `LastTierKept` |
| `SiteProofs!MovesLand` | - | `MoveMoves` |
| `SiteProofs!ContentSound` | `IsPostgres` | `[]ContentOK` |
| `SiteProofs!OnlyWhatWasAsked` | - | `SettingsKept` |
| `SiteProofs!WhatIsListedOpens` | `IsPostgres` | `[]ListedOpens` |
| `SiteProofs!WhatIsCachedWasOpen` | - | `[]CachedWasOpen` |
| `SiteProofs!WhatIsShownOpens` | - | `[]PostsOpen` |
| `PlatformProofs!KeepsToItsOwn` | - | `TenantKept` |
| `PlatformProofs!LinksAlwaysLand` | - | `[]LinksLand` |
| `PlatformProofs!FilesThere` | - | `[]FilesBehindRows` |
| `PlatformProofs!HeardAtMostOnce` | - | `[]HeardOnce` |
| `PlatformProofs!UnsubscriptionStands` | - | `UnsubscribeStands` |
| `PlatformProofs!BurstsBounded` | - | `[]BurstBounded` |
| `InstallationProofs!CompleteMeansSeeded` | - | `[]CompleteIsSeeded` |
| `InstallationProofs!SettingsFit` | - | `[]OwnSettings` |
| `InstallationProofs!BannerStays` | - | `BannerKept` |
| `InstallationProofs!RequirementsStay` | - | `RequirementsKept` |

The hypotheses are not conveniences. `PromptHandlers` and `OneOperator` are the
two things `jobs.py` relies on without enforcing; each is needed, as the section
above says. Retention is seven days and the timeout fifteen minutes in the code.
`IsPostgres` is needed because on SQLite an id may be given out again while it is
counted, or while a block is added to what had it.
The specifications the theorems of `SiteProofs`, `PlatformProofs` and
`InstallationProofs` are about (`TiersSpec`, `ContentSpec`, `FeedsSpec`, `ForumSpec`,
`TenantSpec`, `PluginsSpec`, ...) stand in the component's module; a part of `MCSite` or
`MCPlatform` takes the same steps with its own instance, some of them with fewer
arguments.

**Exclusive claims.** `OneRunner` is not inductive: a state in which a holder's
row says pending satisfies it, and the next claim breaks it. `LeaseInv` adds that
a holder's row says running under the holder's own claim time, that no claim is
older than the timeout (so `recover_zombies` resets no holder's row), and that a
retry in progress is about a row nobody can claim. Then a claim, which needs a
pending row, is of a row nobody holds.

**Attempts.** A row that can still be claimed must have an attempt left:
`AttemptsInv` says so of rows that are pending, and of rows that run without a
holder. The second kind arises only by a crash, which raises the bound.

**Refinement.** The mapping takes a row's status for the phase and the worker
that is handling the row for the holder. Each action is one step of the lease or
a stutter; `LeaseInv` gives what `Take`, `Decide` and `Reclaim` ask for, and
lemmas on `Holder` (who holds what after a step of one worker) do the rest.

**The schedule.** A cleanup that has looked after its successor and is on its way
to done would take the last row with it if that successor could vanish. Several
workers may be at that point, some having booked and some having only seen a
pending row. `ScheduleInv` says one row stands in for all of them: pending,
failed too recently for any of their purges, or running under a worker that has
not yet looked. `Carried` is what a step may do to that row; `NextSchedule`
shows every step either carries it or books another, `KeepsSchedule` that the
row is then enough.

**No flood.** A recurring job that runs may leave two rows, its own retry and the
successor. What has to be counted with the rows that wait are those that run and
the workers that have looked and are about to book: `FloodInv` says that together
they are at most two a worker and one for every crash. A booking is decided on while
no row of the name waits: every other one is then in some worker's hand, or an orphan,
of which there are no more than crashes, and there are no more bookings than workers.
After that each booking turns a booker into a row. Rows in `revived` are left out.

**Ownership.** `OwnerInv` (`Careful`) says of a request that nothing has overtaken
that the rows it loaded are the rows there are, and that what it is going to write
leaves an owner if there is one; the count in `CountOwners` gives that, or that it
takes nobody's ownership. `RankInv` (`Modest`) is about the session alone: what it
is going to change, compared with what it loaded, is within the rank of the caller
it loaded; whatever overlaps it leaves that alone. `SuspensionHolds` needs neither: an
UPDATE that brings a member back must have changed that column, hence seen the
suspension.

**Threads.** `ThreadShape` is inductive but for one thing: a deletion takes the
replies whose parent is the one it names, and would take every top-level reply
if it named none (`DeletesReply`). A deletion then removes a reply with all
its answers, because answers have no answers; an insert is of an id that is not
there, so it becomes nobody's parent (`IdsAreNew`, on either engine). `CountInv`
says what being alone is worth: no other request is under way, so what was loaded
and counted still is so when it is written, provided no post id is given out twice.

**Newsletters.** `ExtrasPaidFor` counts messages, and what has to be counted with
them is who may still send one: `Owes` says it of a job (the recipient is in its
batch, in hand before the mail, or unmarked and to be selected again), and `Paid`
bounds the messages, the jobs that owe one and the job a request is about to book
by one more than the faults. A mail turns a job that owes into a message; the job
for the rest owes instead of the one that booked it; only a job that fails or
dies owes again, and that is a fault. A raise without a fault (the row has gone)
owes nobody, since the row does not come back. `MarkedWasMailed` needs what a
worker about to mark has done, and that it is still about the job it holds
(`Held`, `WhatRuns`).

**Uploads.** A row is only as good as what its writer did before: the invariant
says of each request which files are there by the step it has reached, and of
each row that variants it names were written before it named them. A file is
removed only for an upload in `doomed`.

**Notices.** A second row is avoided by what the request remembers of whom it has
told (`Remembers`), a second mail by where the job is: `Agree` counts the mails of
a notice as those lost with a run, and one more when it is marked or the job
stands between the message and the mark.

**Setup.** The config file is replaced by what was read of it earlier, so
`SetupInv` speaks of the copies in hand as of the file itself (`Honest`, `Backed`): a copy that says complete has behind it what its mark promises. A wizard's mark
promises an administrator, and an owner where the wizard of that administrator was
asked for an organization; the mark of the command line promises an administrator
and no more, because it is also set after a wizard that died. The slug being free when the organization is
committed gives the case of a wizard that had asked for one.

**Tenancy.** `KeepsToItsOwn` needs that what a session adds was not there when it
was added and cannot be there yet: only commits change rows. `LinksAlwaysLand`
needs that no organization has a reserved label, and that the only active
organization is the one the base domain serves (finite sets of one element).

**Themes.** `SaveSound` says of a save or a removal that what it decided by is still
so, `Settled` that the theme in use has its files and the settings were saved for it
unless a save is between its two commits. While the history is orderly both hold; and
a save that is alone is sound whatever it found, so that its second commit makes the
rest true again.

**Accounts.** A digest is a number that is never used again, so that a stamp that
does not match never will (`Numbered`). `Spent` counts the passwords a link has set
and says that one that has is used; nothing writes an unspent one over it, because
the retirement and the redemption both write "used". A request that is alone knows
what it needs at its commit: the issuer every link outstanding, the administrator
that he is one and is not his own target (`Sound`, `Apart`). An invitation is marked
by a request that has already committed the membership. A cookie handed out after a
commit has the stamp of the row as it is then, so it is no way back for an older one.

**A subscriber.** `AudienceInv` remembers what a request is going to write of what
it has read (`Minded`): a confirmation changes a pending row only, and one that is
alone has read what still is so.

**Tiers.** Ranks tie; primary keys do not, so the places of a ladder are an exact
numbering (`Numbered`), and what a move writes is one again (`Renumbered`). A plan made
alone is the plan one would make now (`Planned`). The listing filter is the page rule
because both go by the same memo of ranks, and a retired tier keeps its rank.

**Content and the site.** `Addressed` carries `AddressOK` of every row: no two items
of one type and parent share a slug, and no slug of a page is the base of a section.
So an address answers with the one item it was made of, and it opens because the
filter the list asks and the rule the page asks agree (`ListingAgrees`). Blocks need more: `Loaded` says that the
parent a request has loaded has not become a block, and that rests on ids being
given out once (`Issued`). `SettingsKept` rests on the copy of the settings
column that a request alone has in memory being the one in the table.

**Cached feed.** Who is not inside reads with the eyes of the anonymous visitor, signed
in or not (`StrangersAlike`), so a copy is what an anonymous visitor found when it was
built, by `ListedOpens` at that moment. `FeedsInv` says that no entry of the copy has
been missed for longer than the copy is old, and a copy is dropped before it is
`CacheLife` old; `Watch` keeps that through every change of the ladder and the items.

**Discussions.** Every surface but the profile filters by the rule the address of a
post asks; of a profile the statement asks it itself. Only `Rail` and `LatestForSite` cut the list, and the cut is by `activity`, which is a
strict order among the posts there are (`Ordered`). So a rail that is not full has
left nothing out (`NewestFull`).

**Rate limits.** One counter at a time (`Kept`): what was let through since its window
opened is counted and within the limit, and in the length of one window before that
no more than the limit was either (`Counting`). A span of one window's length reaches
into two windows at most, because a new one opens only after the old one has passed,
and a sweep drops an entry only then, or with what was let through (`passed` is
forgotten with it).

**Updates.** A banner is a matter of the row, the image and the settings. Only a check
that was told a date writes the row, and a date newer than the image keeps a banner
up; no answer, and a thread nobody waits for, leave the row as it is.

**Plugins.** An installation is a stack of calls. `CallsMet` says that what a call has
come to is enabled or is the plugin of a call inside it, so when the stack is down to
the call that saves its row, all it requires is enabled. A request that is alone
still has the row it has read; what is enabled is on disk, so that `install` never
refuses a requirement.

Model-checked only: the two liveness properties, `DueIsClaimed` and `SendingEnds`.
Liveness under fairness and `ENABLED` are beyond the prover. Every invariant and
every action property of a passing run is a theorem, under the hypotheses above. No
module has a recursive operator.

## Where the code and its documents disagree

* `OwnershipRace`: "An organization must always have at least one owner"
  (`models/membership.py`). Two requests at once count two owners and take one
  away each.
* `ForumProfile`: "Post titles are gated content, so anything that queries posts
  across groups asks this first rather than filtering afterwards"
  (`models/discussion.py:155`, of `readable_ids`). `recent_by_author`
  (`discussion.py:337`) does not ask; a member's profile (`members.py:208`,
  `community/member.html:40`) shows the titles of his posts in groups that are
  gated above whoever looks, whose addresses refuse him.

## Observations

Limits of the code that the models show or take into account. Most are windows
between two commits; a reader may judge which of them matter.

* `jobs.py:116`, `:216`: `recover_zombies` runs once, when a worker starts. A
  worker restarted within the timeout of its own crash, which is what
  `--restart unless-stopped` does, skips its own orphan, and nothing looks again
  until the next start.
* `platform/newsletter.py:141`: the message leaves before its mark is committed,
  so a crash between the two sends one message twice; `ExtrasPaidFor` bounds it.
* `models/newsletter.py:123`: a delivery whose request dies before its job is
  enqueued stays `pending`.
* `membership.py:118`, `tenant.py:85`: a suspended owner counts as an owner, and
  grants nothing.
* `manage.py:1212`: deleting an upload resets the logo and leaves other settings
  that name it; a crash between row and settings leaves a logo without a row.
* `plugins.py:281`: re-enabling a pin whose major has left the disk stops the next
  boot until it is removed.
* `ratelimit.py:172`: a renewed counter keeps its old place in the dictionary and
  is the first to be evicted at the cap.
* `cli.py:115`, `docs/deployment/manual.md:195`: after a reset the wizard's last
  step is refused when an administrator is there already.
* A confirmation that read the row before an unsubscription writes `subscribed`
  over it; `add_subscriber` of the console subscribes without a confirmation.
* Two first follows of one post race for the unique row; the loser's request
  fails after its reply is saved, and nobody is told of that reply.
* The routes that write to a group do not ask whether it may be read
  (`discussions.py:52`).
* `app/__init__.py:192` says that an initialized installation never serves the
  wizard again. A second wizard that was past the gate writes back the `config.env`
  it read before the first one's mark, and a process that had not noticed the mark
  serves the wizard after that. No run is about it.
* `cli.py:266`, `demo_seed.py:41`: `flask seed supremely` and `flask seed demo` mark
  the installation complete, also after a wizard that died between its administrator
  and the owner of his organization. `CompleteIsSeeded` promises less of their mark.
* `feeds.py:74` says that a signed-in reader's feed is private; `_xml` asks for a
  membership, so a signed-in stranger's is marked public. It is what an anonymous
  visitor gets.
* `content.py:441`, `manage.py:391`: on SQLite a block may be saved into a row that
  has taken the id of the parent its request had loaded, and is a block itself.
* `orgs.py`: the dashboard's latest items do not go through `visible_query`. That
  surface is not in `ListedOpens`.
* `theming.py:303`: theme and settings are two commits; an installed theme is known
  to the process that installed it until others restart; an upgrade leaves files
  of the earlier version in place; uninstalling checks and then removes.

## Not modelled, and limits

* Event RSVPs are one row per reader and event under a unique constraint, toggled
  in one commit. Navigation keeps positions that may tie; the list breaks ties by
  id. Neither has a second piece of state to disagree with.
* Payloads, texts, `last_error`, `sent_count` and `failed_count`: data no property
  here distinguishes. Fields, fragments, categories, tags, pagination and search
  of content are left out of `Content` and `Site`.
* The limit of 100 jobs in `work-off`: ending earlier is a crash between jobs.
* `Ownership` begins with an organization that is provisioned; the two commits of
  provisioning are in `Setup`, the tier a member holds in `Tiers`.
* `Thread` leaves out edits of texts and hiding a reply; `Notices` leaves out what
  kinds of notices other than those of replies say.
* Clock skew between hosts: one clock.
* Lock contention on SQLite is a failed commit: `RunFail`, `HandlerFails`, `Die`.
* Mail providers, object storage, image decoding, connection tests and the
  registry are answers that come or do not.
* Rendering, shell, content types and fields as tables, seeds of starter content,
  analytics and export are formatting or straight-line code.
* Components that share no state are explored separately (`part`): effects that
  need two of them, such as a job that runs while its organization is suspended,
  are in no run unless one module has both.
