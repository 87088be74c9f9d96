# Verification of the aircraft audit backend

The repository is the NestJS backend of an application with which airline station
staff record audits: cabin quality, lavatory safety, security searches, hidden
object drills, shift reports, plus chat, flights, dynamic forms and administration.
Its state is a PostgreSQL database reached through Prisma (`prisma/schema.prisma`),
a Redis cache and mail queue, and a little process memory. Several server processes
and many clients act on it at once. This directory holds TLA+ models of its
operations, the TLC runs that check them, and proofs checked by TLAPS.

Service paths below are relative to `src/modules/` of the repository.

## Inventory

| Component | State | Operations that change it | What is hard |
| --- | --- | --- | --- |
| Hidden object audits (`hidden-object-audits`) | `hidden_object_audit_sessions`, `_locations` | create, confirmLocation, activate, markFound, close | every check is a read and every write is by id, in a later statement; no index backs "one open audit per ship" |
| Cabin security search trainings | training rows, and the audit's rows | create | closes an audit whose status it read outside its transaction; one statement of many can fail; reports by areas, not by places |
| Authentication (`auth`), users | `auth_sessions`, `users`, `account_recovery_requests` | login, refresh, logout, forgot password / uid, updateMyProfile | rotation without compare-and-set; hashing awaits between check and write; single-use codes and tokens |
| Stations, guards | `user_station_access`, active station of a session | selectStation, getActiveStation, default-access repair | access withdrawn between check and write |
| Access control | users, roles, `role_module_access`, station access | createUser, assignUserRole, assignUserStations, createRole, updateRole, updateRolePermissions, start-up defaults, module catalog | row-by-row updates that race; seven flags read by three pieces of code |
| Chat | conversations, messages, receipts, votes, presence in memory | createDirectConversation, createGroup, sendMessage, markDelivered, markRead, votePoll, connect / disconnect | receipts and unread counts under concurrency, single-answer polls, two sockets of one user |
| Email notifications | `email_notifications`, the mail queue | queueAndSendEmail, sendEmailNow, the worker | crash between row, queue and provider; retries; fallback |
| Flights | Redis and memory caches, fetches in flight | getActiveFlights, forced refresh | stale levels of the cache, coalesced fetches |
| Dynamic forms | templates, submissions | createTemplate, updateTemplate, archiveTemplate, createSubmission, the seed | lost version increments, dates through drafts, archives and returns |
| Cabin quality audits | audit rows with a stored score | create; scoring | rounding, weights of 0, all answers N/A |
| Shift context | shifts and occurrences, which the seed writes | resolveCurrentShiftOccurrenceId | midnight, shifts over it, the runtime's hour 24 |
| Master data | gates, clean types, fleet, stations, checklist items, seat maps | create, update, delete of each; saveSeatMap | deletion against reports that are being filed; what a seat map offers to an audit |
| LAV observations, end of shift reports, one on ones, feedback | one table each | a validated insert | the reference rows may change between validation and insert |
| Admin dashboard | none | none: overview, records, detail | the same audits counted by several rules |
| Files, platform | files table; none | upload; none | external stores; nothing |

Interactions: a security search training reads and closes a hidden object audit, which
hid its objects on a seat map of master data; both, and the other audits, resolve
their shift through the shift context and their station through the session's active
station; authentication and feedback send email through the notification service;
access control decides what the guards let pass; reports refer to rows of master data
that clerks change and delete; the dashboard computes from the rows of all audits.

Correctness, per component: an audit keeps its hiding plan and its verdicts and a
ship has one open audit; a training credits only what was hidden and its report is
backed by the audit; a password reset ends the sessions, a code and a token work
once; a saved permission form is what the guard enforces and what is shown; a
withdrawn access is not used; a receipt never goes back and an unread count is what
is unread; an email accepted is eventually sent or reported failed; a cache never
replaces newer flights by older ones; a version of a form names one list of questions
and its dates tell its status; what a report refers to exists as long as the report;
a report is filed in the shift of its moment; a stored score is the average that the
weights promise; an administrator's drawing offers the places it shows; the numbers
of the dashboard agree with each other and with its lists.

`PROJECT.json` lists every component with its status, and under `hazards` what is
hard to test, each at its line.

## Modules

### How requests are modelled

All the handlers run under PostgreSQL's READ COMMITTED (no handler asks for
another level). A handler that reads, checks and then writes is therefore modelled
as one step per read and one step for its commit, and any number of requests, each
in a slot of the constant `Requests`, interleave their steps. `findFirst` with
`include` is two queries in Prisma, hence two reads. What a handler keeps in local
variables is a field of its request record. The commit step writes what the handler
writes; it uses only what the handler has read, never a fresh check, unless the code
has the condition in the WHERE clause of the update. Rows an uncommitted update holds
are the field `locked`: others wait for them. Two updates that wait for each other
are a deadlock that PostgreSQL breaks by failing one request, which is `Abandon`,
as are rejections, crashes of the server and timeouts of a transaction: it rolls back.

Row ids are drawn from a finite pool. Timestamps, snapshots of names, photos and
texts are left out; a timestamp that only says whether something happened is a
boolean.

### HiddenObjectAudit, CabinSecuritySearch

`HiddenObjectAudit.tla` models all five operations of
`hidden-object-audits.service.ts` over its two tables. `CabinSecuritySearch.tla`
extends it with the submission of a training linked to an audit
(`cabin-security-search-trainings.service.ts`), so that both services' requests
interleave on the same rows.

| Code | Actions |
| --- | --- |
| `create` | `BeginCreate` (open audit check, choice of locations), `CommitCreate` |
| `confirmLocation` | `BeginConfirm` (session), `ConfirmReadLocation`, `ConfirmCommit` |
| `activate` | `BeginActivate` (session), `ActivateReadLocations`, `ActivateReadOthers`, `ActivateCommit` |
| `markFound` | `BeginFound` (session), `FoundReadLocation`, `FoundCommit` |
| `close` | `BeginClose` (session), `CloseMarkMissing` (`updateMany`), `CloseCommit` |
| training `create` | `BeginSearch` (audit status), `SearchReadHidden` (BLUE rows, the results), `SearchMark` (both `updateMany`), `SearchCommit` (unique index, rows, CLOSED) |

The two `updateMany` of a training are one step: the first locks the rows it
credits, so what other requests commit between the two touches other rows and could
have been committed before the first. The unexpected finds are inserted in between
and are checked against the unique index at the commit: rows are never deleted, and
a concurrent insert of the same code makes one of the two wait and fail.

What survives every interleaving (run `search_interleaved`, and by proof):

- `HuntOnlyConfirmed`: no unconfirmed object enters the hunt;
- `ReportBacked`: the audit's rows bear out every accepted training;
- `FoundNeverReportedMissing`: no step turns a location from GREEN to RED, since a
  closing turns RED only what is BLUE when it gets the row. It speaks of single
  steps: a late confirmation may turn a find back to BLUE, and a closing after that
  reports it missing, which is what `race_report_covers_missing` shows.

Proved as well, though they follow so closely from single writes that no run spends
time on them: `SearchTypeOK`, `VerdictHasEvidence` (every verdict has its
confirmation, finder and activation), `CountMatchesPlan`, `PlanFixed` and
`CreditOnlyHidden`.

What does not survive: that a ship has one open audit (run `race_one_open_audit`), that
GREEN and RED are final (`race_finalized_stays`), and that the results of a training
include whatever its closing reports missing (`race_report_covers_missing`: a late
confirmation turns a find back to BLUE after the search has read the BLUE rows), each
with a finding. For the same reason, a check and a write in separate statements, two
audits of a ship can become active together, and an audit that was closed can be
activated again by a request that read SETUP. Run `records`, whose part `audits` serves
one request at a time on two audits and two ships, shows that it is the races alone: the
service implements the abstract `AuditLifecycle.tla` (`ImplementsLifecycle`).

`AuditOverview.tla` looks at the same rows as the dashboard does. `OverviewAddsUp`: the
two counts of audits that need attention, by what is displayed and by the verdict,
are the same, and a closed audit passes exactly when its score is full.

Bounds: three requests suffice for the longest race (a read, an overtaking operation
and a third that depends on its result), two codes for a location inside and one
outside of a report. `MaxTrainings` bounds the trainings accepted for one session.

Proofs (`CabinSecuritySearchProofs.tla`): what survives every interleaving, for any number
of sessions, ships, codes, requests and any `MaxTrainings`. The properties are not
inductive: what a commit writes depends on what its request read earlier. `IInv` therefore
adds to the type invariant the shape of the rows (`RowsOK`) and, for each request in
flight, the facts it has read that nobody can undo any more (`Sound`): a planned location
stays planned, an activated audit stays activated, an audit seen without ORANGE rows has
none later, and a row that is held stays BLUE. `LocksExclusive` says that two requests
never hold the same row. `Monotone` is the frame of every commit: what it never undoes.
Each commit is shown to satisfy it, and `CommitKeepsRequests`, `CommitKeepsReports` derive
from it that other requests stay sound and accepted reports backed. The assumptions are
that codes are finitely many and that `None` is not an id.

The second part of the module proves what holds when requests are served one at a time
(`OneAtATime`: there is at most one request slot, the instance of `records`), for any
number of sessions, ships and codes: the refinement `ImplementsLifecycle`,
`OverviewAddsUp`, and two of the properties that the races break, `OneOpenAuditPerShip`
and `FinalizedStays`. The third, `ReportCoversMissing`, would say little of requests
served one at a time, where no row changes between a read and a write. The invariant is
`AloneIInv`: `IInv`, one open audit per ship, the colours each phase may have (`InPhase`),
and, of the request in flight, that the guards it has passed still stand (`UpToDate`),
which is more than the `Sound` that survives interleaving. Each commit is then one operation of the lifecycle
(`CreateAlone`, `OneRowAlone`, `ActivateAlone`, `CloseIsClose`), a confirmation of a location
that is BLUE is a stutter, and so is every other step. `OverviewAddsUp` is proved for fewer
than 200 locations: beyond that 199 finds of 200 round to 100 percent.

### EmailNotifications

`notifications/notifications.service.ts` and `notifications.processor.ts`: for each
mail the row of `email_notifications`, the call that requested it, the job of the
queue and the two senders (the request's own and the worker's), which may both run
`sendEmailNow`. The queue and the provider are external; the queue retries a job that
threw until its attempts are used up and a stalled job `MaxStalls` times.

| Code | Actions |
| --- | --- |
| `queueAndSendEmail` | `Create` (row), `Enqueue` or `FallBack` (the queue fails, perhaps after it took the job), `Return` |
| `sendEmailNow` | `HandOver` (provider), `Record` (SENT or FAILED), `RecordSentFails`, `DirectThrows` / `WorkerThrows` (the update to FAILED fails, too) |
| worker | `Take`, `Complete` |
| process death | `Crash`, of any set of calls and jobs |

`email_faults` has two mails and a crash, two failing updates and a lost answer of
the queue in any order: two mails let one crash hit a call and a job, and `MaxStalls`
crashes and `Attempts` failing updates are what the queue forgives. It shows that
SENT is never said wrongly, that copies of a mail are bounded by the faults, and that
a call that returned leaves a mail that is settled in the end. The attempts of a job are
used only when the update to FAILED fails: `sendEmailNow` catches the provider's
error, so that a refused mail completes its job and is never tried again. Fairness: a call and a
worker go on unless their process dies, which is `Crash`.

`EmailNotificationsProofs.tla` proves the three safety properties for any set of mails
and any bounds on the faults. Its invariant counts, for each mail, the copies sent
and those that the row, the senders and the job may still send, against the faults so
far; `CopiesNeedFaults` alone is not inductive, since it does not say that a mail
that was accepted is not due again.

### StationAccess

The stations of one user: `stations.service.ts` (selectStation, getActiveStation,
getMyStations and the repair of the default they begin with) against
`access-control.service.ts` (createUser, assignUserRole, assignUserStations) and the
closing of stations in master data. The transactions are modelled row by row: an
`updateMany` takes its rows from a snapshot (`Snapshot`), locks them one after the
other and checks its WHERE clause again on each (`LockRow`), and rows that a
concurrent transaction inserts are not in the snapshot.

| Code | Actions |
| --- | --- |
| `ensureSingleDefaultAccess` | `RepairRead`, then `RepairOnly` or `Snapshot`, `LockRow`, `RepairCommit` |
| `selectStation` | `BeginSelect`, the repair, `SelectRead`, `SelectWrite` |
| `getActiveStation` | `BeginGetActive`, the repair, `GetRead`, `GetCheck`, `GetClear` |
| `createUser` | `BeginCreateUser`, `CreateUser` |
| `assignUserRole` | `BeginAssignRole`, locks, `AssignRole` |
| `assignUserStations` | `BeginAssignStations`, `AssignStationsCheck`, locks, `AssignStations` |
| `updateStation`, `updateStationStatus` | `UpdateStation` |
| errors, deadlock, crash | `Answer`, `Victim`, `Abandon` |

`StationGrants.tla` is the promise: a set of stations, one role at all of them, and
sessions that work at one of them. Run `accounts` checks that the services implement
it one request at a time (`ImplementsGrants`), while stations close and open between the
steps of a request. `access_interleaved` has two requests whose locks cross: every
request ends, deadlocks included, and once the assignments are over the repair restores
one default (`DefaultConverges`). `race_active_is_granted` is a finding: selectStation
writes a station whose access was withdrawn after its check.

Bounds: two stations make every crossing of two locks; one role suffices where the
property does not speak of roles. No station closes in `access_interleaved`: the
repair under closures is in `accounts`. `Served` gives the operations
each request may be: in `access_interleaved` the first is any but getActiveStation, the
second assignUserStations, selectStation or getActiveStation (assignUserRole locks like
the first of these, getMyStations is the beginning of the others), and creations that
begin once the user exists are left out. `Closable` names the stations that close.
Fairness: requests that wait for a row are served in turn and the database breaks
deadlocks, hence strong fairness of `Work`.

Proofs (`AccountsProofs.tla`): `ImplementsGrants` and `ActiveIsGranted`, of requests served
one at a time (`OneRequest`, the instance of `accounts`), for any stations, roles, rows and
sessions, while stations close and open between the steps of a request. `AccessIInv`, which
survives every interleaving, says that an operation in flight writes by key only rows that
exist and that a row is held only by a transaction that is taking its rows. Alone, a
request adds three things (`GrantsIInv`): all rows of the user carry one role (`OneRole`), a
session works at a station of the user (`ActiveIsGranted`), and what the request in flight
has checked still holds (`StillTrue`): the station of a selection is still granted when it is
written, and the rows that an assignment holds or has yet to lock are all those its WHERE
matches. Then a repair is a stutter whatever it finds,
the commits are the operations of StationGrants, and a selection selects what is granted.
With two requests `StillTrue` is what fails first, as `race_active_is_granted` shows.
Assumed is only what the module assumes: `None` is no station, request, role, row or
operation, and the stations that close are stations.

### AuthSessions

Sessions and the recovery of one account: `auth/auth.service.ts`, `jwt.strategy.ts` and
the address of the profile in `users.service.ts`. Every statement is a step, those of
the one transaction, the reset, included: its caller keeps what it has written
(`UserHeld`, `HeldSessions`, `HeldRecoveries`), which shows at its commit, and whoever
writes such a row waits. The insert of a session does not: its foreign key shares the
key of the user, which the reset does not change.

| Code | Actions |
| --- | --- |
| `login` | `LoginRead` (user row, bcrypt), `LoginTouch` (lastLoginAt), `LoginOpen` |
| `refresh` | `RefreshRead` (by token hash), `RefreshRotate` (by id) |
| access token strategy, `logout`, `updateMyProfile` | `Admit`, then `Logout` or `UpdateMyProfile` |
| `forgotPassword`, `forgotUid` | `ForgotExpire`, `ForgotCreate` |
| `verifyForgotUid` | `UidVerify`, `UidComplete` |
| `verifyForgotPassword`, `confirmForgotPassword` | `PasswordVerify` (signs a reset token), `ConfirmRead`, `ConfirmPassword`, `ConfirmSweep`, `ConfirmFinish`, `ConfirmCommit` |
| seed, errors | `SeedUsers`, `CallFails` |

None of the obvious promises holds without exception, since no write repeats the check
it rests on, and the properties say exactly what is left: a session that was there when
a reset ended the sessions does not survive it, whoever refreshes, logs in or out
meanwhile (`ResetEndsSessions`). A session that is inserted later survives, also one
that a login opens with the old password: between that statement and the commit, while
the old password is still the current one, or after the commit, having verified the
password before. The seed sets passwords and leaves sessions alone. A token is exchanged
twice only by refreshes that overlapped, and a recovery sets the password twice only by
confirmations that overlapped (`SpentOnce`, whose second part is `ResetOnce`). `opened`,
`swept`, `firstReset`, `reused` and `again` are history for that.

Expiry needs no action, since a token that nobody presents again behaves like one that
is refused. Wrong passwords, wrong codes and the log of logins leave nothing behind that
a later step reads. Bounds of `accounts`: two handlers, as every race is between two;
one row of sessions, as sessions touch each other only through a reset, which treats
them alike; two tokens, two recoveries, two addresses and two passwords, the least at
which one can follow, expire or overtake another.

Proofs (`AccountsProofs.tla`): the three properties, for any number of handlers,
rows, tokens, recoveries, addresses and passwords. What makes them inductive: a token is
held by one session at most and by none once it was exchanged (`TokensHeldOnce`), so a
second exchange needs a handler that had read it before; a reset that has
ended the sessions has among them all that were open then (`Sweeping`), so that its commit
leaves younger ones only; a recovery that set a password is completed
(`Consumed`), so whoever is about to reset with it again has read a password older than
the first it set (`Presenting`). Assumed is only that the bounds are numbers.

### RolePermissions

Roles and their `role_module_access` rows: createRole, updateRole (`BeginCreate`,
`BeginRename`, `ResolveCode`, `WriteRole`, `RefuseRole`), updateRolePermissions
(`BeginSave`, `Upsert` per module in the order of the client, `CommitSave`), the
defaults of the start-up (`StartUp`), the seed (`SeedRole`, `SeedPermission`), and
failures, which roll back (`HandlerFails`). A row has seven flags: four that the forms
tick and three that older clients know. Three pieces of code read them by rules of their
own: the guard (`IsAllowed`), the permission page (`Shown`) and the list of roles
(`Counted`).

`SavedStands`: until the seed runs, the guard decides by whole forms, the ones saved
last, and by no mixture of two saves, defaults and older flags. `ShownIsEnforced`: page
and list agree with the guard whoever wrote the row. Bounds: two forms that overlap, on
two roles whose codes compete, with one module of the app and one of the dashboard;
a form withdraws everything or grants to write without to read, the two cases in which
a flag left behind or added would be seen. Whether a role is active, and the
synchronisation of the module catalog, are left out.

Proofs (`AccountsProofs.tla`): both properties, for any roles, modules, forms and
handlers. `ShownIsEnforced` needs no invariant, only the rules themselves. `SavedStands`
does: transactions that save keep their rows from each other (`Exclusive`), have written
them as their forms say (`WritesItsForm`), and what is committed of a row that was ever
saved, the row kept by the transaction that holds it or else the row itself, is the
row of the form saved last (`SeenAsSaved`). Locks are what makes this inductive: without
them the failure of one transaction could restore a row over the commit of another. The
start-up finds a row and leaves it. Assumed is that modules are finitely many.

### ChatMessages, ChatPolls, ChatPresence

`ChatMessages.tla` is one conversation of `chat/chat.service.ts`: its creation
(`CreateGroup`, `BeginDirect`, `CreateDirect`), sendMessage (`BeginSend`, `SendStamp`
takes createdAt, `SendInsert` the row, `SendCommit` the receipts and lastMessageId),
markDelivered (`BeginMark`, `MarkDelivered`) and markRead (`BeginMark`, `ReadStamp`,
`MarkRead`). `Unread` and `Status` are what listConversations computes. The clock
moves on with every timestamp: two in one millisecond are left out. Participants
never leave (nothing sets `leftAt`). `lastMessageId` is a unique key, so its update
waits for the share of the conversation's row that the insert of a concurrent
message holds: two sends deadlock and one fails, which is `Abandon`.

In run `chat` status never goes back (`StatusNeverBack`), and a message that a
participant has read counts as unread only while an older mark of the participant stands
over a younger one (`ReadNotUnread`; `furthest` remembers the youngest, `Overtaken`).
`ImplementsTimeline` says exactly when counting by timestamps is right: it implements the
counters of `ChatTimeline.tla` as long as sends and reads commit in the order of their
timestamps; `reordered` records when they do not. Bounds: two messages, a
conversation of two with three requests at a time, since three marks of one user are
needed to see one overtake another and be overtaken, and one of three with two
requests at a time. Time and messages run out in this run, so it does not check for
deadlock. `MaxTime` leaves every request in flight its stamp.

Proofs (`ChatProofs.tla`): the three properties of messages, the refinement included, and
`ShownAsConnected`, for any users, requests, messages, sockets and times. The invariant
says of each request what it has taken and checked and nobody can undo (`Sound`: the
message of a mark is posted and older than its stamp), that no two stamps are the same
(`Distinct`), that nothing is stamped in the future (`Stamped`), and that what a
participant has read is no younger than the furthest mark (`ReadBefore`). The refinement
then goes step by step: `CreateGroup` and `CreateDirect` open the timeline, `SendCommit`
sends, `MarkRead` reads, and everything else is a stutter. Assumed is that messages are
finitely many and that `None` is no row, mark or request. `ReadNotUnread` once excepted
the participants one of whose marks had come in late at the moment it was written; the
proof of that failed. With three marks of one user, committed out of order, a mark that
was never late itself can leave a message unread that was read, and `furthest` is what
the exception has to be about. The bounds of the run were wide enough for two marks only.

`ChatPresence.tla` is `chat.gateway.ts` and `chat-realtime.service.ts`:
handleConnection in its steps (`Connect`, `TokenVerified`, `SessionRead`, `Refuse`),
the end of a socket (`Close`, `HandleDisconnect`) and `Restart`. `ShownAsConnected` says
exactly when the set of online users is wrong: a user is shown offline only after
another socket closed, and online without a socket only when a socket had gone before
its handshake ended. One server process is assumed, as the set is in its memory. The
two parts share no state; `MCChat.tla` runs one of them in each behaviour of `chat`.

`ChatPolls.tla` is votePoll, row by row: `DeleteVotes` finds the voter's rows,
`DeleteRow` locks them, `Upsert` waits for whoever holds its row, `Commit`. In run
`polls` three votes of one voter over two options make every overlap of delete and
upsert; votes of other voters touch other rows. The last answer that committed
counts, whatever the others delete (`LatestStands`), votes that wait for each other
end, and a poll with a single answer counts two only when the voter's last vote had
another one beside it (`OneAnswer`, with the history variable `raced`): nothing
serialises the two transactions, and the next vote that is alone repairs it.

Proofs (`ChatPollsProofs.tla`): both safety properties, for any voters, options and votes
at a time. A request keeps rows of its own voter only (`Own`), so that a commit leaves
the other voters alone; a request that has had no other of its voter beside it has all
votes of the voter in what it has yet to lock and what it has deleted (`Alone`), so that
its commit replaces them. Assumed is that a poll has finitely many options.

### FlightsCache

`flights/flights.service.ts` for one station: `Begin` (getActiveFlightsForStation),
`RedisHit`, `RedisMiss`, `MemoryHit`, `MemoryMiss` (getCachedFlights), `LoadForced`
and `Load` (loadFreshFlights: join the fetch there is or begin one), `ProviderAnswers`
(normalise, write memory), `ProviderFails`, `RedisStore`, `RedisStoreFails`
(setCachedFlights), `Settle` (everybody who waits is served), `Answer`, and `Tick`
and `Crash`. Fetches are numbered as they begin and a payload is the number of its
fetch. Memory belongs to one server process; another process with the same Redis is
left out.

Run `flights` has three requests (one that fetches, one that joins, one that comes
late), three fetches, and time for an entry to expire and another to be written.
Every await ends: the provider's by its timeout, Redis's after one retry.

`FlightsCacheProofs.tla` proves type correctness and the four safety properties for any
number of requests and any time to live. The invariant relates the numbers: the last fetch that was
finished is a lower bound of what memory holds and, unless a write failed, of what
Redis holds (`Recent`); between the answer of the provider and the end of the fetch
memory holds the fetch in flight (`Written`); memory keeps its entry until the time
it was stored for is over (`Kept`); and a request that has an answer has one that is
no older than what had been finished when it began (`Sound`). The assumption is that
`None` is none of the values it stands beside.

### DynamicForms

Templates and submissions of one station (`dynamic-forms.service.ts`) and the forms of
the seed: `CreateTemplate`, updateTemplate (`ReadForUpdate`, `WriteUpdate` by id with the
version read plus one), `ArchiveTemplate`, createSubmission (`ReadForSubmission`,
`WriteSubmission`), and the seed that finds its form by title, writes it without
counting a version, and answers it (`SeedFinds`, `SeedUpdates`, `SeedCreates`,
`SeedSubmits`). `DatesTell`: after any drafts, archives and returns the dates agree with
the status, and a form that was answered keeps its date of publication.
`VersionNamesQuestions`: a version names one list of questions. Both except for what
overlapping updates and the seed do, which the history variables `overlaps` and
`disturbed` record exactly. A submission stores no version, so that nothing can be said
of which questions it answered. Bounds: one template (no step reads two), one question
that must be answered, two editors and two versions.

Proofs (`RecordsProofs.tla`): both properties, for any templates, editors,
questions and versions. The invariant says what a request knows: an update that nothing
has overlapped has the version and the date of the row as it is, so that counting from
what was read is counting from what is there (`EditorKnows`); a form that was found
published keeps its date until the template is disturbed, however long the answer takes
(`Dated`); and the version of a row is the youngest that was named (`VersionsGrow`), so
that the next one is new. Assumed is that the seed is not an editor.

### StationReports

The reference rows of `master-data.service.ts` (stations, gates, clean types, aircraft
types, ships and checklist items) and the reports filed against them: LAV observations,
cabin quality audits, end of shift reports, one-on-ones, feedback. A clerk's request
reads (`BeginInsert`, `BeginUpdate`, `BeginDelete`, which counts the answers to an item)
and writes later (`Insert`, `Update`, `Deactivate`, `Delete`); a filing validates
(`BeginFiling`) and inserts later (`File`). The database refuses a reference to a row
that is gone and the deletion of one that is referred to. `AnsweredStays`: what a report
refers to exists as long as the report. The answers of a LAV observation are compared
with the items that were active when it was checked; by the time it is stored they may
be others, and nothing stored tells which were asked. No filing asks whether a station or
a gate is active; only the seed writes the checklist of cabin quality audits. Who files
and reads a report and the fields that must come together are left out. A draft may
answer an item twice, or one that is not asked.

Proofs (`RecordsProofs.tla`): `AnsweredStays`, for any rows, requests and number of
reports: whatever a clerk has counted before, the foreign keys are checked when the row
goes. And `AcceptedAnswersAll`, of the check of the answers: the service compares their
number with that of the items, looks for one given twice and for a strange one, and
never asks whether every item is answered; it follows all the same, by counting, which
takes the assumption that the checklist is finite.

### PagedLists

A reader pages through a list while records are filed. Audits and reports read a page and
its count by two queries (`ReadItems`, `ReadTotal`), the dashboard by one
(`ReadRecords`). `PagesMissNothing`: at the end the reader has seen every record that was
there at the beginning, unless one was filed between a count and its page, and none
twice unless the list has grown. Six records on pages of two let the last page be
empty, half full and full.

Proofs (`RecordsProofs.tla`): for any size of page and number of records. Records
are inserted in front or in between and move the others down (`InsertMovesDown`), so
that what the reader has not seen is on the page or ahead of it (`StillToCome`); a count
that was not overtaken says whether anything is ahead (`CountIsRight`); and while nothing
is filed the reader has seen the beginning of the list, in its order (`InOrder`), from
which it follows that nothing came twice.

### ShiftContext

`shift-context.service.ts`: the shift of the moment by the station's clock (`FindShift`),
then its occurrence on the calendar day (`FindOccurrence`), against the seed, which
writes shifts and occurrences (by the server's date, `ServerDays`), and the clock
(`Tick`). Time is the station's. The hour after midnight may be written as 24 by some
runtimes (`LocalMinutes`). `FiledInShift`: a report belongs to an occurrence that covers
its moment (`Covers`). That is an occurrence that lasts at the moment, with two
exceptions, both of shifts over midnight. After midnight the code looks the shift up
under the new day, and the report goes to the occurrence of the next evening (the second
disjunct). And a runtime that writes 24 takes the first hour of a day for the last of a
shift over midnight that has ended in that hour or at its beginning (the third).
The shifts of the seed do not cross midnight, and nothing else writes shifts, but the
handler provides for shifts that do. A day of three moments, one of them the hour
after midnight, has every order of start, end and midnight; `OldShifts` adds to the
shifts of the seed a night over midnight, one that ends at midnight, an inactive shift
and one that lasts round the clock.

Proofs (`RecordsProofs.tla`): `FiledInShift` for any shifts within a day, any
length of day and hour and any number of filings. `FoundShiftCovers` does the
arithmetic: what `IsWithinShift` finds covers the moment. The invariant carries it from
`FindShift` to `FindOccurrence`, between which the clock moves on and the seed replaces
shifts. The third disjunct comes from this proof: the property was stated without it and
could not be proved, and TLC agreed as soon as `OldShifts` had a night that ends at
midnight.

### CabinQualityScoring

`cabin-quality-scoring.util.ts`: the group of an area, the division of its group's weight
among the areas that have an applicable item, the rounded points of an area, and the
summary that detail, list and dashboard compute from what was stored. `VerdictStands`: an
audit fails exactly when an item failed; only then may it miss the full score, however its
points were rounded, and no score is above it; an audit in which nothing counts scores 0.
Weights need not be whole: they are given in units of 1/`Fraction` points, so that any
set of rational weights is an instance. A weight so small that the points of its areas
round to 0 counts as if nothing applied. Weights of more than fifteen digits, where the
code's numbers lose their own, are left out.
`ScoreStands` compares the score with the score by groups, computed in units that make
every division exact: they differ by the rounding of the points at most. Products are
exact where the code multiplies binary fractions. `Precision` is 100 instead of 10^4,
because TLC's integers have 32 bits; the allowance for rounding is the wider. Up to
three areas, of two items at most, in three groups, one of them known by its words, with
a group of weight 0 and one of a weight that rounds away (`Fraction` is 300), cover the
edges.

Proofs (`ComputationsProofs.tla`): `VerdictStands`, for forms of any length, any weights and
any precision. An area earns at most what is possible for it, and all of that when none of
its items failed (`AreaScored`): the share is rounded once, after it is multiplied, and
rounding is monotone. So a form that passes earns all that is possible in every area,
`TotalGrows` bounds the sum of the points by the sum of what is possible, and the
percentage of equal sums is rounded twice to 100 (`ScoreOfTotals`). A score is 0 for a form
that passes only if every area's points were 0, which is when the summary counts no area as
applicable (`TotalZero`). Assumed is that forms are sequences of areas with counts and
that weights are multiples of 1/`Fraction` that are not negative (`ScoringAssumption`).

### SeatMaps

The seat map of an aircraft type: `SaveSeatMap` (validation and normalisation, master
data), `SeedSeatMap`, and the places it offers to an audit (`Candidates`, hidden object
audits and trainings). A place is what the services read from its code, [kind, zone,
side]. `OffersWhatWasDrawn`: validation and normalisation neither lose nor invent a place.
The drawings have one section with seats, a skipped row and an empty column, and every
combination of icon, place and label on one amenity.

Proofs (`ComputationsProofs.tla`): the property, for drawings of any number of sections,
rows, columns and amenities. What a drawing offers is the union of what its sections offer
(`Flattened`), dropping duplicates loses no place (`PlacesPushed`), a valid amenity is its
own normal form (`ValidAmenity`) and a section and its normal form have the same seats
(`ValidSection`). The invariant says of the saved drawing that it is the one that was sent
or its normal form. Assumed is that drawings have the fields the DTO checks
(`MapsAssumption`).

### DashboardScores, AdminDashboard

Percentages and verdicts of the four kinds of audit as `admin-dashboard.service.ts`
computes them from rows, and its overview, records and detail over the audits that were
filed at all stations. `OverviewAgrees`: the overall score lies among the scores of the
kinds that have audits (it is the average of audits, not of kinds), the trend counts
the records that the list returns, and each record opens at its station and at no other.
Three audits over two kinds, two stations and two days.

Proofs (`ComputationsProofs.tla`): `OverviewAgrees`, for any audits, stations, days and
periods. Sums and counts of scores add up over places that are apart (`SumsApart`), and the
four kinds are apart and make up a period (`KindsApart`). A rounded average lies between two
integers exactly when its sum lies between two multiples of its count (`AverageLies`), which
adds up as well (`LiesTogether`), so that bounds of the kinds are bounds of the whole. That
the days of a trend add up to the records is `CountedByGroup`: a sum over groups, taken in
any order, counts everything once. Assumed is that what is filed has a score of 0 to 100 and that
`Unfiltered` is neither a kind nor an audit (`DashboardAssumption`).

### Modules for TLC

`MC*.tla` instantiate the specifications. Components that share no state are checked by
one run that picks one of them per behaviour (`MCAccounts`, `MCRecords`, `MCChat`): a
variable `part` says which one moves, the others stay as they began. Their header lists
the instance of each part. These runs do not check for deadlock: every request may end
unheard, and tokens, versions, pages and time are bounded, so that a behaviour may
stop.

## Runs

Every property is stated in words above its definition. A run that is violated shows a
defect of the code: its counterexample is the race its section describes.

| run | configuration | result | properties |
|---|---|---|---|
| `search_interleaved` | `SearchInterleaved.cfg` | passes | `HuntOnlyConfirmed`, `ReportBacked`, `FoundNeverReportedMissing` |
| `race_one_open_audit` | `RaceOneOpenAuditPerShip.cfg` | violated | `OneOpenAuditPerShip` |
| `race_finalized_stays` | `RaceFinalizedStays.cfg` | violated | `FinalizedStays` |
| `race_report_covers_missing` | `RaceReportCoversMissing.cfg` | violated | `ReportCoversMissing` |
| `email_faults` | `EmailFaults.cfg` | passes | `SentWasAccepted`, `CopiesNeedFaults`, `ReturnedIsCovered`, `ReturnedIsSettled` |
| `access_interleaved` | `AccessInterleaved.cfg` | passes | `RequestsEnd`, `DefaultConverges` |
| `race_active_is_granted` | `RaceActiveIsGranted.cfg` | violated | `ActiveIsGranted` |
| `accounts` | `Accounts.cfg` | passes | `ResetEndsSessions`, `SpentOnce`, `SavedStands`, `ShownIsEnforced`, `ImplementsGrants` |
| `polls` | `Polls.cfg` | passes | `OneAnswer`, `LatestStands`, `VotesEnd` |
| `chat` | `Chat.cfg` | passes | `ReadNotUnread`, `ShownAsConnected`, `StatusNeverBack`, `ImplementsTimeline` |
| `flights` | `Flights.cfg` | passes | `OneFetch`, `ForcedIsFresh`, `NeverOlder`, `FetchesSpaced`, `RequestsEnd` |
| `records` | `Records.cfg` | passes | `VersionNamesQuestions`, `DatesTell`, `AnsweredStays`, `PagesMissNothing`, `FiledInShift`, `ScoreStands`, `VerdictStands`, `OffersWhatWasDrawn`, `OverviewAgrees`, `OverviewAddsUp`, `ImplementsLifecycle` |

## What is not proved, and what is not modelled

Proved, for every value of the constants: every safety invariant and every action
property of the runs but the ones below.

Model-checked only, and why:

- `RequestsEnd` of `access_interleaved` and of `flights`, `VotesEnd`, `DefaultConverges`
  and `ReturnedIsSettled` are liveness: fairness and ENABLED are out of the prover's reach;
- `ScoreStands` compares with a reference that is exact only where `Unit` can be divided by
  the items and areas of a group, hence for small forms such as those of the run; what it
  says for all forms about the verdict and the ends of the scale is `VerdictStands`.

Folds and flattened sequences are defined by recursive functions, which the provers cannot
unfold by themselves and for which the library's induction theorems, with an operator
as parameter, are of no use. `ComputationsProofs` goes by sets instead: the
recursion of a fold has a solution (`FoldDefined`), so the function that CHOOSE takes solves
it, and a set of numbers that holds 0 and with each number the next is Nat (`NatSets`, from
the well-foundedness of <). Every induction is the latter for a set of its own.

The four properties of the violated runs are false of the code; `OneOpenAuditPerShip`,
`FinalizedStays` and `ActiveIsGranted` are proved of requests served one at a time.

Not modelled: texts, photos, file contents, names and labels; codes of reference rows and
their unique indexes; the fields of flights; favourites and mutes of conversations; the
module catalog; uploads; the platform code.

Met on the way and outside of every property: the seed overwrites a seat map that an
administrator has edited; a cabin quality audit has its ship and flight number
read back from its notes, where a later line of the author's that begins with "Ship
Number:" wins (`cabin-quality-audits.service.ts:283-302`); a shift occurrence
that the client names is not checked against the moment or the station; an audit to
which nothing applies scores 0 and passes; a training fails when a hidden
object was missed, while the dashboard scores it by its areas alone.

## Plan

In this order.

1. The module catalog: its synchronisation at start-up beside saves of permissions.
2. Files: uploads and the records that name them.
3. `ScoreStands` against a reference in fractions, for forms of any size.
