# VIZITUM in TLA+: visits, offline queues, photos, routes, accounts, tenants

VIZITUM is a multi-tenant field-sales application: a NestJS API over Postgres
(Prisma) and an S3-compatible bucket (`src/`), a worker process
(`src/worker.ts`) and a Next.js app (`apps/web`) that field representatives use
on a phone, often without signal. This directory holds TLA+ models of the parts
in which ordering, retries and interruptions decide whether it is correct, the
TLC instances that check them, and TLAPS proofs. Paths below are relative to
the repository's root; `visits.service.ts` is
`src/modules/visits/visits.service.ts`, `report-outbox.ts` is
`apps/web/lib/report-outbox.ts`, and so on. `PROJECT.json` gives the source
lines of every definition that models code, every run, and every hazard.

## 1. Inventory

| Component | State it keeps | Operations | Interacts with | What makes it correct |
| --- | --- | --- | --- | --- |
| **Visits** (`visits.service.ts`, `visit-identity.ts`) | `Visit`, `VisitClientAlias`, `Report` rows | create (idempotent by `clientVisitId`, links or adopts a route stop), update, cancel, confirm a report (idempotent by `clientRequestId`) | route items, tasks, storage objects | a start ends on one visit however often it is sent; cancelled is terminal; a replayed confirm changes nothing; visit and stop close together |
| **Routes** (`routes.service.ts`) | `RoutePlan`, `RouteItem` | get or create a plan, its status, add, reorder, edit, delete a stop; delete a draft plan | visits (foreign key `SET NULL`), templates | positions stay unique; a reorder is what was asked for; a visited stop and a started plan stay |
| **Route templates** (`route-templates.service.ts`) | templates, their stops, plans made from them | move a stop, assign to dates, copy a week or a month, delete | routes | one plan per date and template; a batch leaves no hole |
| **Imports** (`imports.service.ts`) | import jobs and rows | preview, confirm, apply | locations, products, users, routes | applied once, whole or not at all |
| **Problem photo** (`visits.service.ts`, `storage.service.ts`) | `StorageObject` rows, bucket objects, presigned URLs | register, re-sign, upload, claim by a confirm | form, worker | one in flight; a claimed photo stays; the rest is collected |
| **Storage and worker** (`storage.service.ts`, `worker.ts`) | same, plus the worker's batch in memory | cleanup of expired objects, AI job sweep, tenant purge | bucket, AI jobs, tenants | every due object goes in the end; nothing referenced is deleted |
| **Platform: tenants and purge** (`platform.service.ts`, `tenant-purge.service.ts`) | tenant status, archive and purge marks, sessions | status, archive, unarchive, request a purge, auto-archive, purge | every tenant-owned table, bucket | a purge can start over anywhere; a rescued tenant stays; nothing is left behind |
| **Users and invites** (`users.service.ts`, `auth.service.ts`) | `User`, `UserRole`, `Invite` | invite, resend, accept, roles, statuses, delete, replace the superadmin | imports, platform | one superadmin; somebody can always manage the tenant; an invite makes one account; the admin limit |
| **Start outbox** (`visit-start-outbox*.ts`, `start-visit-control.tsx`) | IndexedDB entries: refused, remote id, resolved id | start without signal, flush, rekey, resolve, refuse | `POST /visits`, report outbox, drafts | a start settles; its work is moved to the right visit |
| **Report outbox** (`report-outbox*.ts`, `field-visit-report-form.tsx`) | one queued confirm per visit id | save, eager send, flush, rekey, refuse | `POST /visits/:id/report` | the last confirm signed off is never lost |
| **Abandon** (`abandon-visit-start.ts`) | none of its own | deletes from four stores | both outboxes, drafts | nothing is left that can never settle |
| **Offline drafts, pending media** (`offline-drafts.ts`, `use-field-report-persistence.ts`) | IndexedDB drafts, forwarding addresses, captured bytes and their registration | write, rekey, sweep, discard | form, start outbox | typed text and captures follow their visit |
| **Cancel dialog** (`cancel-visit-modal.tsx`) | none of its own | discard unsent work, then cancel | both queues | no confirm outlives the visit it was for |
| **AI** (`ai.service.ts`) | `AiJob`, temporary transcripts | transcribe, extract, cancel, retry, confirm a draft, expire | providers, storage, reports | a late result does not undo a cancel; only tests run the jobs |
| **Sessions, password reset, MFA, rate limits** (`auth/`, `platform-mfa.service.ts`, `rate-limit/`) | sessions, tokens, recovery codes, counters | log in, refresh, reset, verify, back off | users | a token is used once; a reset ends every session |
| **Tasks, announcements, locations, products, chains, settings** | one row each | maintenance | - | simple row updates |
| **Audit, email, health, operations, pilot review** | trails and reports | - | - | no protocol of their own |

What is hard here: API handlers read rows, await, and only later open the
transaction that writes, often with no row lock or conditional write on what
they read; the device's queues are durable but the code sending them is not, and
several pieces of it run at once; every request may be carried out with its
answer lost; the two ids of a visit (minted by the device, given by the server)
both stay in use; the worker acts on a list it read earlier; unique indexes are
checked row by row, in the middle of a reorder.

## 2. Plan

Done in this order, so that what everything else relies on comes first:

1. `VisitServer`: the visit endpoints, one action per database round trip.
2. `VisitLedger`: what those endpoints promise, without handlers; refinement.
3. `VisitServerProofs`: types, resolution of answered starts, stops and visits;
    the refinement of the ledger.
4. `FieldSync`, `FieldSyncProofs`: the device's two queues composed with
    `VisitServer`.
5. `PhotoStore`, `PhotoStoreProofs`: registration, upload, claim, collection.
6. `TenantPurge`, `TenantPurgeProofs`: the end of a tenant's life.
7. `RouteOrder`, `RouteOrderProofs`: the stops of a list and their positions.
8. `RoutePlanning`, `RoutePlanningProofs`: plans, templates, copies.
9. `Membership`, `MembershipProofs`: accounts, invites, roles.
10. `OfflineDrafts`, `OfflineDraftsProofs`: what the phone keeps of a visit
    before its report is confirmed.

Next, should the code around them change:

11. Sessions: a login that overlaps a password reset, the platform owner's
    recovery codes (read, then written back as a list), challenges.
12. The cancel dialog's delete of a queued confirm, composed with `FieldSync`.
13. `PhotoStore` with the worker's bounded, oldest-first batch, shared with the
    AI sweep.
14. Pure functions against reference definitions: applying a shelf check to an
    assortment (`shelf-check.ts`), visit periods.

Most of the repository's lines are screens, forms, formatting, request
validation and row-at-a-time maintenance over Prisma. A model of those would
restate them, so the lines these modules stand for stay a small part of all:
the part where two actors, a crash or a retry meet.

## 3. Modules and the code they model

### VisitServer

Variables are the columns the handlers decide on: `visitStatus`, `routeItemId`,
`clientVisitId`, `alias` (`VisitClientAlias`), `reportToken`
(`Report.clientRequestId`), `reportRev` (which write `confirmedAt` and the
tasks come from, so that a rewrite with the same token is visible), `itemStatus`.
`req[r]` is a request in progress: `pc` is the round trip it makes next and the
other fields are its local variables, stale by as much as the interleaving
allows. `invalid` and `late` are what validation reads from elsewhere (deleted
location, deactivated representative, a visit date out of its window).
`answers` is history: the visits each client id was answered with.

| Code | Actions |
| --- | --- |
| `createVisit` | `CreateBegin` (validation), `CreateLookup` (replay), `CreateSlot` (`resolveRouteItemLink`), `CreateAdopt`, `CreateInsert`, `CreateInsertConflict` (P2002) |
| `confirmReport` | `ConfirmBegin` (visit, cancelled check, replay, window), `ConfirmTx` (`confirmOnce`), `ConfirmTxFails`, `ConfirmRaced` |
| `cancelVisit`, `updateVisit` | `CancelBegin`, `CancelTx`; `UpdateBegin`, `UpdateTx` |
| `deleteRouteItem`, `updateRouteItem` | `RemoveBegin`, `RemoveTx`; `EditItem` |
| around them | `Invalidate`, `WindowCloses`, `HandlerFails`, `Release` |

`Spec` lets handlers overlap in any way. `SerialSpec` is the same without
overlap: while a handler is between two of its round trips (`Running`), no other
gets under way and nobody else writes a row, but answers are lost, handlers
fail, clocks go on and requests are refused (`Serial`).

Abstractions. `draft` and `in_progress` are both "open": no modelled guard
tells them apart. The representative on a slot's visit always matches the one
of the start, because both were checked against the stop, so the branch of
`resolveRouteItemLink` for a foreign visit is not reached. The column and alias
lookups of a client id are one step, as are `confirmReport`'s visit read and
replay lookup, and `updateRouteItem`'s read and write. Starts without a
`clientVisitId` (an older app) are left out. Tasks, shelf lines, notes and audio
inside a confirm share its transaction and add no guard that the properties see.

### VisitLedger

The abstract specification: a start is tied to one visit for good (`Open`,
`Adopt`), a visit closes by the allowed transitions (`Update`, `Cancel`), a report
is written once per confirm (`Write`). `VisitServer!LedgerSpec` instantiates it
with `visitOf[c]` as `Resolve(c)`. The server implements it when handlers do not
overlap (run `visit_seq`, theorem `ImplementsLedgerWhenSerial`); when they do, it
does not, in the ways section 4 lists.

### FieldSync

Extends `VisitServer` with one device. `queued`, `refused`, `remoteVisitId`,
`resolvedVisitId` are the start outbox's entries; `outbox` (by visit id) and
`outboxRefused` the report outbox. `flow[f]` is a piece of running code: the
handler of a button or a flush's work on one entry, with the copy of the entry
it read. Entries survive; flows do not.

| Code | Actions |
| --- | --- |
| `start-visit-control.tsx` | `TapStart`, then `SendCreate`, `HearCreate`, `MarkResolved` or `ForgetStart` |
| `flushVisitStartOutbox` | `PickStart`, `SendCreate`, `HearCreate`, `RecordRemote`, `Rekey`, `MarkResolved`; `RefuseConfirm`, `RefuseStart` |
| `field-visit-report-form.tsx` | `PressSave`, `SendConfirm`, `HearConfirm`, `ForgetConfirm` |
| `flushReportOutbox` | `PickConfirm`, `SendConfirm`, `HearConfirm`, `ForgetConfirm` or `RefuseEntry` |
| `abandonVisitStart` | `Abandon`, `DropStart`, `DropConfirm` |
| killed tab, thrown or timed-out send, 401 | `Stop`: the request already made runs on |
| `runOnFieldDatabase` answering with its fallback | `StorageFails` |
| other devices, managers | `OthersStep` |

`FieldSpec` composes the two; `SerialFieldSpec` adds `Serial`.

Abstractions. A flow works on one entry; the order of a flush's loop is covered
by the order of picks. A 401 ends the flow like any other interruption. Attempt
counters and timestamps are left out. A flush's draft and media rekeys are
`OfflineDrafts`'s: here only the confirm's rekey moves what the properties are
about. A start the device could not keep is sent anyway (`TapStart`); a confirm
it could not keep, and a queue entry that lands after the deadline, are not
modelled.

### PhotoStore

One visit's problem photo. `status`, `expiry`, `deleted` are the
`StorageObject` row; `bytes` the bucket; `urls` the presigned PUTs still good;
`reg` the registration handlers; `batch`, `erased` the worker's memory; `held`,
`attached` the form's state and `pending` the photo of the queued confirm;
`reportPhoto` what the report points at. Registration is two steps because
`updateMany` inside the transaction chooses its rows from what is committed
when it starts, waits for their locks and looks at them again.

Abstractions. A batch takes every due row (the code: 100 oldest). A PUT can
complete at any moment its URL is good, and a URL's life and the row's 24 hours
are independent clocks, except that no row expires during the request that
creates it. Confirms without a photo are left out; a photo superseded by the
re-confirm of another stays claimed, as in the code.

### TenantPurge

`status`, `byAge` and `due` (archivedAt: its order, and whether the retention
has elapsed), `requested` and `started` (the purge marks) are a tenant's row;
`rows[t]` the tables it has rows of; `open` whether it has live sessions;
`object`, `bucket`, `url` its storage objects. `req[r]` is a request of the
platform owner between its read and its write, and `pc`, `list`, `marked`,
`left`, `erased`, `failed`, `next` are a run of the worker: the list its last
query returned, the objects it still has to visit, the next table.

| Code | Actions |
| --- | --- |
| `updateTenant`, `archiveTenant`, `unarchiveTenant`, `requestTenantPurge` | `UpdateBegin`/`UpdateTx`, `ArchiveBegin`/`ArchiveTx`, `UnarchiveBegin`/`UnarchiveTx`, `PurgeBegin`/`PurgeTx` |
| `autoArchiveStalePilots` | `StartRun`, `ReadActivity`, `AutoArchive` |
| `purgeEligibleTenants`, the claim of `purgeTenant` | `ReadEligible`, `Claim`, `EndRun` |
| `deleteAllTenantObjects` | `ReadObjects`, `EraseObject`, `EraseFailsSilently`, `EraseFails`, `MarkObject`, `ObjectsDone` |
| `tenantOwnedDeletionOrder`, the tenant's delete | `DeleteTable`, `TablesDone`, `DeleteTenant` |
| use of the tenant, clocks, faults | `Login`, `PilotGoesStale`, `Presign`, `Put`, `UrlExpires`, `RetentionElapses`, `HandlerFails`, `Crash` |

Abstractions. A table is its name and whether it holds rows of the tenant. The
order, and the foreign keys that restrict or cascade, are constants (`Order`,
`Restricting`, `Cascading`), so the theorem speaks of any order, and the instance
takes the four tables around the constraint that matters. The pages of a query are
one query. Candidates of a run are a list without repetitions: the oldest first
for a purge, in any order for stale pilots, where the query states none. What a pilot's activity query answers is `stale`.

### RouteOrder

One list of stops: a template's or a day's plan (`kind`). `seq` is each stop's
position, `visited` its status, `job` and `file` the initial-plan import. A
request reads positions (`snap`) and writes by id later; `Updated` carries a
transaction's writes out one row at a time, `Update` being what the last of them
leaves, and fails at the first position that is taken, as Postgres checks a
non-deferrable unique index. That two transactions deadlock in the database is one more
way to fail that leaves no trace, and is left out.

| Code | Actions |
| --- | --- |
| `moveRouteTemplateItem` | `MoveRead`, `MoveWrite` (three writes through a free position) |
| `reorderRouteItems`, the template's reorder | `ReorderRead`, `ReorderWrite` (two passes) |
| create, edit, delete a stop | `CreateItem`, `UpdateItem`, `DeleteRead`, `DeleteWrite`; `SetVisited` |
| initial-plan import | `CreateJob`, `ConfirmRead`, `ConfirmTx`, `ConfirmFails` |

### RoutePlanning

The plans of one representative. `tpl` is each template's life; `day`, `of`,
`draft` a plan's row; `asked`, `todo`, `occupied`, `known` what a batch is to
fill, has left, and saw when it began. `lost` is history: slots that lost a plan
while a request ran.

| Code | Actions |
| --- | --- |
| `createRoutePlan` | `CreateFind`, `Create`, `CreateRaced`, `Refetch` |
| `updateRoutePlan`, `deleteRoutePlan` | `SetStatus`; `DeleteFind`, `Delete` |
| `createRouteTemplate`, `deleteRouteTemplate` | `CreateTemplate`, `DeleteTemplate` (`SET NULL`, refused by the index on plans without a template) |
| `assignRouteTemplate`, `assignRouteTemplateToDates` | `Assign`, then `Materialize` or `Skip` per date, `Fail`, `Finish` |
| `copyRoutePlans`, `copyRouteWeek` | `Copy`, `CopyReadsSource`, `CopyReadsTarget` (in either order), `CopyReadsTemplates`, then as above |

Abstractions. The statuses other than draft are one. A plan's stops come and go
with it. `Shift` names the copies asked for: where each date goes, `None` for a
date its target month does not have.

### Membership

The accounts of one tenant, by address. `status`, `roles` are the user's rows,
`state`, `to`, `grants` an invite's ("overdue" is pending with its `expiresAt`
passed). What touches a user is one serializable transaction, and one action;
what touches invites is not, and is split where the code awaits. `accepted` and
`revived` are history.

| Code | Actions |
| --- | --- |
| `updateUser`, `addRole`, `removeRole`, `deleteUser` | `UpdateUser`, `AddRole`, `RemoveRole`, `DeleteUser` |
| `inviteUser`, `resendInvite`, `createInvite` | `InviteUser`, `ResendRead`, `ResendRevoke`, `CreateRevoke`, `CreateInvite` |
| `promoteToSuperadmin`, `inviteOrReplaceTenantSuperadmin`, `inviteSuperadmin` | `PromoteToSuperadmin`, `ReplaceSuperadmin`, `InviteSuperadmin` |
| `acceptInvite` | `AcceptRead`, `AcceptExpired`, `AcceptTx`, `AcceptRefused` |
| users import; clocks, faults | `ImportUser`; `InviteExpires`, `HandlerFails` |

An account of the import may begin without a role: a roles cell of separators
passes the preview and is an empty list (`parseRoleCodes`). Invites always carry
roles (`Grants`).

Abstractions. Invited and suspended accounts are both "inactive": no modelled guard
tells them apart. Names, phone numbers and the last role chosen are left out;
`rep` stands for the roles no limit and no guard looks at. A serialization
conflict that is retried is the retry; one met three times is `HandlerFails`.

### OfflineDrafts

What one phone keeps of one visit that was started offline, under its two ids.
`draft` is the draft store by id (a text, or an address left by a rekey or an
abandon), `bytes` and `registered` the media store's two records; `mounted`,
`loaded`, `stored`, `closed`, `typed`, `timer` are a form's refs and its debounce;
`step`, `owner`, `at`, `shot`, `object`, `kept` an upload's local variables; `start`,
`toMove`, `mediaMoved`, `dropped`, `toDiscard` the flush and the abandon.
A storage operation is heard, lands after its caller gave up, or is lost (`Ends`).

| Code | Actions |
| --- | --- |
| `use-field-report-persistence.ts` | `Load`, `Type`, `Fire` (the debounce), `Hide`, `Unmount`, `Close` |
| `handlePhotoSelected`, `handleTranscription`, `usePendingCaptures` | `Pick`, `Restore`, `Retry`, `Register`, `ObjectGone`, `Hold`, `Sent`, `Discard` |
| `visit-start-outbox-flush.ts` | `Make`, `Hear`, `RekeyDraft`, `RekeyMedia`, `Resolve`, `MoveAgain` |
| `abandon-visit-start.ts`, `cancel-visit-modal.tsx` | `Abandon`, `DiscardDraft`, `DiscardMedia`; `Cancel` |
| sweeps by age, sign-out, a killed tab | `SweepDraft`, `SweepMedia`, `SignOut`, `Kill` |

Abstractions. Texts and captures are model values. The confirm's own rekey is
`FieldSync`'s. A photo and a recording follow the same protocol, so one kind of
capture stands for both.

## 4. Runs

Instances are small because the hazards need few actors: two attempts of a
start, two requests on one list, one worker against one tenant.

| Run | Instance | Distinct states | Shows |
| --- | --- | --- | --- |
| `visit_seq` | 2 starts of one stop, 2 visits, 1 confirm, 2 requests whose handlers do not overlap | 131 k | without overlap a start has one visit, and the visits follow the ledger: cancelled is final, a report is written once per confirm |
| `visit_overlap` | the same, handlers overlap | 1.7 M | what survives overlap: an answered start resolves, stops follow visits |
| `sync_one` | 1 start, 1 confirm, 2 flows | 1.5 M | the confirm is never lost |
| `sync_adopt` | 2 starts of one stop, one of another device; 1 flow | 2.4 M | work ends on the visit the start resolves to, also when it was adopted |
| `sync_settles` | 1 start, 1 confirm, 1 flow, fairness | 91 k | starts and confirms settle |
| `photo_all` | 2 registrations, one at a time, fairness | 41 k | a photo stays for its 24 hours, for good once claimed; unclaimed ones are collected |
| `drafts_all` | 1 form, 2 texts, 1 capture, 1 upload | 1.8 M | text and captures follow the visit through lost and late storage operations |
| `purge_all` | 1 tenant, 2 objects, 4 tables, 1 owner's request at a time, 1 run of the worker, fairness | 406 k | nothing is left behind, and an unblocked purge ends |
| `purge_blocked` | the same | violation | a tenant with a route template is never purged |
| `planning_all` | 2 dates, 2 templates, 3 plans, 2 requests | 1.7 M | one plan per slot, no hole behind a batch, no conflict without a cause |
| `order_all` | 3 stops, positions to 3, 2 requests, 1 imported row | 527 k | moves and reorders succeed or were overtaken; an import is applied once |
| `members_all` | 2 addresses, 2 invites, 2 requests, a limit of 1 admin | 1.6 M | one superadmin, always a leader, no account twice, the limit, no account loses its last role |

Two visits suffice because a start can end on at most an adopted and a created
one, and a second start makes the visit it adopts; two registrations because a
photo meets at most the one that supersedes it; one stop because visit handlers
relate visits through the stop they share only; one confirm because two are a
different question (below). With one request at a time and a second device, a
request begins only when the other is done, but a request whose flow has stopped
still runs on unheard, so retries, lost answers and answers out of date all
occur. Three stops are the fewest with a neighbour that a move does not touch
and with a gap in the middle; two dates and two templates the fewest on which a
copy skips one slot and fills another, and three plans let a slot be emptied and
filled again; two addresses and two invites the fewest with a superadmin
to replace, or two admins to come for one place. One form and one upload already
cross the flush at every step of it. In `purge_all` a tenant may be rescued and
archived again any number of times. Symmetry is used on requests,
visits, flows, storage objects, texts, captures, stops, plans, templates and
addresses in runs that check no liveness.

Every bound is a constant: `CId`, `Vid`, `Item`, `Token`, `Req`, `Flow`, `Obj`,
`Handler`, `Screen`, `Upload`, `Plan`, `Invite`, `Caller`, and in `RouteOrder`
`MaxSeq` (the largest position a client asks for), `FileSize` and `Named` (the
rows of a file and the positions they may name; with one row, that an import is
all or none rests on the theorem `ImportOnce`). `Overlap` (`TenantPurge`) says
whether the owner's requests overlap, and is FALSE in the runs. There are no
counters (`reportRev` alternates; `accepted` never passes 1). When ids run
out, inserts stop, so deadlock is not checked for `RouteOrder` and
`RoutePlanning`; a device with nothing left to do does stop, so it is not
checked for `FieldSync` either. It is for the others.

### Fairness

`FieldSync`: picks are strongly fair, because the flush runs again on app open,
`online`, `visibilitychange` and every 15 s on the pending screen
(`report-outbox-indicator.tsx:112`, `pending-visit-report.tsx`), but an entry may
be unavailable in between; a flow and a handler that run go on (weak fairness);
sends are strongly fair since the API's slots are shared; and from some moment on no flow is interrupted and no handler fails,
without which nothing can be promised about a queue. Nothing is assumed of the
rep, of managers or of `StorageFails`. `PhotoStore`: clocks advance, requests end, the
worker is scheduled again and again, and in the end neither crashes nor fails.
`TenantPurge`: the worker's steps are weakly fair, because its task is scheduled
again and again, and from some moment on neither the process nor the bucket
fails. Nothing is assumed of the owner, of the tenant's users or of clocks.

### Where the code and its comments disagree

One disagreement is a run of its own:

- `purge_blocked` (`PurgeResumes`): "an interrupted purge resumes on the next
  run" (`docs/runbooks/production-deployment.md:88`), and the deletion order is
  "derived from the FK relations" (`tenant-purge.service.ts:324`). A template's
  stop restricts the deletion of its location (`schema.prisma:902`), and templates are
  not in the order: a tenant that has one fails at its locations on every run,
  after its objects are gone, and the error ends the run for the tenants after it.

The modules state more of the same kind, each property named after what a comment
says. No run lists them; adding one to the configuration named, in place
of its properties, shows the counterexample.

| Property | Configuration | Comment | What happens |
| --- | --- | --- | --- |
| `VisitedStopStays` (`VisitServer`, `RouteOrder`) | `MCVisitServer_overlap`; `MCRouteOrder_all` | "A visited stop can't be removed from the route" (`routes.service.ts:418`) | its status is read before the transaction that deletes it, and a report confirmed in between marks it visited |
| `CancelledIsTerminal` | `MCVisitServer_overlap` | "Cancelled is terminal" (`visits.service.ts:620`), a confirm "must never resurrect a cancelled visit" (977) | a confirm or an update that read the visit before the cancellation writes its status by id after it |
| `ClientIdForGood` | the same | "a client id maps to one visit for good" (`schema.prisma:1000`) | of two overlapping attempts, one adopts the slot's visit, the other creates one when that visit has been cancelled; the id moves |
| `ReplayLeavesReport` | the same | a replay is "Returned exactly as the first attempt left it" (`visits.service.ts:1008`) | two sends of one confirm both miss the replay lookup, and both write |
| `LatestConfirmKept` | `MCFieldSync_one` with two tokens | a confirm "must never be swept", a second press "is their latest intent" (`report-outbox.ts:11-27`) | a rekey overwrites it, or the answer to the first deletes it |
| `RefusedStartHasNoVisit` | `MCFieldSync_one` | refused, "so there is still no visit anywhere" (`abandon-visit-start.ts:63`) | the retry of a start whose answer was lost is refused by validation that precedes the replay lookup |
| `RefusalReachesConfirm` | `MCFieldSync_settles` | not "a pending count that can never reach zero" (`visit-start-outbox-flush.ts:218`) | a confirm saved after the refusal is never marked |
| `ReportPhotoStored` | `MCPhotoStore_all` | never "an id pointing at nothing" (`field-visit-report-form.tsx:569`) | the confirm waited longer than 24 hours |
| `OneInFlight` | `MCPhotoStore_all` with two handlers | "at most one in flight per visit" (`visits.service.ts:866`) | two overlapping registrations do not see each other's row |
| `PurgeMarksOnArchived` | `MCTenantPurge_all` with `Overlap = TRUE` and two requests, or with two workers | "a partially-purged tenant can never come back half-visible" (`tenant-purge.service.ts:232`) | `updateTenant` reads the status outside its transaction (`platform.service.ts:470`, 668) and, crossing an archive and a claim, writes it by id; so it does when one run of the worker archives the tenant as a pilot and another claims it from the list of an earlier stay in the archive |
| `RescuedIsNotPurged` | `MCTenantPurge_all` | "a rescued tenant is never purged" (`platform.service.ts:908`) | the worker's list still holds a tenant that was rescued, and archived again, since: it is purged at once |
| `RowTakesFreeSlot` | `MCRouteOrder_all` | a row without a position "takes the next free slot in its plan" (`imports.service.ts:1164`) | the count of stops plus one is a taken position in a plan that has a gap |
| `StartedPlanStays` | `MCRoutePlanning_all` | a started plan "can't be pulled out from under a representative" (`routes.service.ts:235`) | it is published between the check and the delete |
| `AccountHasRole` | `MCMembership_all` | "A user must keep at least one role" (`users.service.ts:528`), and roles are a required column of the import (`docs/specs/onboarding-dataset-spec.md:31`) | a roles cell of separators is not blank, and no role (`imports.service.ts:2825`) |
| `AdminLimitKept` | `MCMembership_all` | accepting an invite checks the limit again (`auth.service.ts:326`, `docs/reference/executable-spec.md:73`) | an invite to another role brings a deleted admin back with the old role |
| `ClosedDraftStaysGone` | `MCOfflineDrafts_all` | close() "stops every writer above and deletes the draft" (`use-field-report-persistence.ts:62`) | the debounce already scheduled writes it back |
| `CapturePaired` | `MCOfflineDrafts_all` with two captures | never "the state that produces the mismatch" (`offline-drafts.ts:402`) | the rekey carries bytes over a target that keeps another capture's registration, and an upload left running writes beside newer bytes |

Behaviours of the code met on the way that no property names:

- What an interrupted abandon leaves is to be reclaimed by "both sweeps"
  (`abandon-visit-start.ts:119`); a queued confirm "must never be swept"
  (`report-outbox.ts:12`), so `Stop` between `DropStart` and `DropConfirm` leaves
  it for good.
- `deletedAt` means "the bytes are gone" (`storage.service.ts:126`); `Put` through a
  URL that outlives its row brings them back after `SweepMark`. A PUT that
  completes after a tenant's objects were read leaves bytes no row points at.
- "Reaching the expiry means no report ever referenced it"
  (`storage.service.ts:152`); `ConfirmTx` between `SweepRead` and `SweepDelete`
  loses the photo of a report.
- `autoArchiveStalePilots` leaves the sessions open, where "moving a tenant to a
  status it cannot serve under has to end its live sessions"
  (`platform.service.ts:1265`): `SessionsEndWithService` excepts it.
- Products, product categories, chains, location categories and announcements are
  not in the purge's order, nor does a foreign key take them along: their rows
  outlive the tenant.
- `resendInvite` (`users.service.ts:264`) and an expired `acceptInvite`
  (`auth.service.ts:288`) write an invite's status by id, whatever it has become;
  two overlapping `createInvite` leave two pending invites for one address
  (against `users.service.ts:941-946`).
- The sign-out deletes every draft before it navigates, and the form's unmount
  then writes its own back. A form opened under the device's id keeps its captures
  there when the visit's id becomes known.

## 5. Proofs

For every value of the constants, under the named assumptions of each module:
None is no id and device and server ids are disjoint (both are UUIDs), the
constant functions have their types, the sets whose size matters are finite, and
the limits are natural numbers; the mark for "no report" is no confirm
(`NoReportAssumption`) and the one for "nobody" no request (`RequestAssumption`).
Eight modules hold the proofs. Together with the runs of section 4 they state
every invariant and every action property the runs check; what a theorem needs
beyond the specification is in its hypothesis, and the last column says why.

| Module | Theorems | Inductive invariant | Hypothesis |
| --- | --- | --- | --- |
| `VisitServerProofs` | `TypesAlways`, `AnsweredStartAlwaysResolves`, `StopAlwaysFollowsVisit` | `Inv`: `TypeOK /\ HandlersKnow /\ AliasesExist /\ AnsweredStartResolves` | none |
| the same | `OneVisitPerStartWhenSerial`, `ClientIdForGoodWhenSerial`, `ImplementsLedgerWhenSerial` | `SerialInv`: `Inv /\ Alone /\ OneVisitPerStart /\ ReportOnResolved`, and every handler `Undisturbed` | `SerialSpec`: handlers do not overlap. Each fails when two do (section 4) |
| `FieldSyncProofs` | `FieldTypesAlways`, `DeviceKeepsServer` | `FieldInv`: `Inv /\ DeviceOK` | none |
| the same | `ReportOnItsVisitWhenSerial`, `QueuedUnderItsVisitWhenSerial`, `RemoteIsResolvedWhenSerial`, `OneRequestKeepsReports` | `FieldInv /\ SerialInv` | `SerialFieldSpec`, or a single request. When handlers overlap, a client id moves |
| the same | `LatestConfirmAlwaysKept` | `KeptInv`: `FieldInv /\ OneStopPerVisit /\ SentIsAccepted /\ LatestConfirmKept` | `Separate`: no two confirms for one stop. With two it fails (section 4); handlers may overlap |
| `PhotoStoreProofs` | `PhotoTypesAlways`, `UploadedAlwaysStaysInWindow`, `ClaimAlwaysPermanent` | `TypeOK /\ CreatedExist /\ KnownExist /\ BatchIsDue /\ UploadedStaysInWindow` | none |
| `TenantPurgeProofs` | `OrphanAlwaysLate`, `TypesAlways` | `Inv`: `Shape /\ OnlyClaimed /\ UrlHasRow /\ LeftIsOwn /\ PassLeavesLate /\ OrphanWasLate`; `Types` | none |
| the same | `MarkedStaysArchived`, `PurgedIsEmpty`, `SessionsEnd` | `PurgeInv`: `Inv /\ Marks /\ Emptied /\ SessionsEndWithService` | one worker, and the owner's requests do not overlap. Without either `PurgeMarksOnArchived` fails (section 4) |
| `RouteOrderProofs` | `ImportOnce`, `TypesAlways`, `OnlyOvertakenFail`, `ReorderAsked`, `MoveSwaps` | `ImportInv`; `Inv`: `Types /\ Unique(seq)` | none |
| `RoutePlanningProofs` | `Typed`, `OnePlan`, `NoHole`, `ConflictIsReal` | `TypeOK` with `OnePlanPerSlot`, `BatchInv`, `ConflictMeansVanished` in turn | none |
| `MembershipProofs` | `Typed`, `SuperadminAlone`, `LeadershipAlwaysKept`, `LastRoleAlwaysKept`, `AcceptedAtMostOnce`, `LimitAlwaysKept` | `TypeOK` with `OneSuperadmin`, `AcceptedOnce /\ Unspent`, `WithinAdminLimit` in turn | none |
| `OfflineDraftsProofs` | `Typed`, `AddressAlwaysKept`, `StrandedAlwaysLate`, `FlushAlwaysKeepsWork` | `TypeOK` with `AddressKept`, `LateOK` in turn | none |

*Visits.* `AnsweredStartResolves` is not inductive: a handler writes on what it
read, so the step that adopts or completes a visit keeps the invariant only if
the row it read is still there. `HandlersKnow` says what a handler between two
round trips still knows (its visit exists; a confirm's visit holds the stop it
read or none) and `AliasesExist` that an alias names a row. The argument rests on
one lemma family: every step `Persists` (rows stay, keep their client id and at
most lose their stop; aliases stay), from which knowledge and resolution survive
the steps of others; a handler's own step is proved action by action.

*Visits without overlap.* A handler that is alone writes on rows nobody changed
since it checked them: `Undisturbed` says for each round trip which check still
holds (the start it is about to insert or adopt resolves to nothing, the visit it
closes is open, no report has its token), `Alone` that there is one such handler. Each
step of the server is then the ledger's step of the same name or a stutter, with
`ReportOnResolved` for the report's step: a report sits on the visit its start
resolves to.

*The device.* A flow sends what it read some time ago and hears an answer later.
`FlowKnows` and `FlowWaits` say what of that is still true: the key a confirm is
sent under is an id of its start, and the request a flow waits for is its own.
So every step of the composition is a step of `VisitServer` or leaves it alone
(`DeviceKeepsServer`), and the server's invariants carry over. The last confirm
is kept because the outbox holds it until a flow forgets it, a flow forgets only
after an answer, and the answer "sent" comes from a write of this confirm or a
replay of it (`SentIsAccepted`); that a rekey or the deletion of another start's
entry cannot hit it is what `OneStopPerVisit` and `Separate` are for: two starts
share a visit only if they are starts of one stop.

*Photos.* The worker deletes only from its batch and never reads a row again, so
what protects an uploaded photo is that a row in the batch was due when it was
read and no expiry moves back ahead (`BatchIsDue`); that in turn needs that ids
are handed out for existing rows only (`KnownExist`, `CreatedExist`), since a new
row is the one thing that sets an expiry ahead.

*Purge.* Rows go only after a pass over the bucket that did not fail.
`PassLeavesLate` says what such a pass has achieved at each of its steps: of its
tenant's objects the bucket holds only those it has yet to visit and those
uploaded since the claim. It stands because a run works on claimed tenants only
(`OnlyClaimed`), and a presigned URL of an unclaimed tenant still has its row (`UrlHasRow`).

`Marks` keeps a tenant with a purge mark archived. What endangers it is an update,
which writes its status whatever the tenant has become; `UpdateIsSafe` says that its
tenant has no mark, and, if the worker has archived it meanwhile, that it is neither
due nor on the list of a run. That is where the hypotheses enter: no other request
can have archived it or asked for its purge, and a run that archives it has not
read its list yet. `Emptied` says that the tables a run is past, and all those of a
purged tenant, are empty with what cascades from them: nothing is written into
a tenant that is not served, and rows that restrict a table stop the run there.

*Order.* `Updated` is a recursive function over the rows of one transaction; that
it exists, and what holds after each of its rows, is proved by the absence of a
first row that breaks it (`Least`, `NoFirst`). Each row moves one stop to a
position nobody has (`RowMoves`), so positions stay unique whatever a request
read. On the list it read, a move goes through a position above the highest and a
reorder through as many as it has stops, so no row meets a taken one
(`MoveComesTo`, `ReorderGoesThrough`). On any other list, a reorder that is not
refused has put its k-th stop on position k (`ReorderPlaces`), and unique
positions leave no room for another stop in front (`PlacedIsPrefix`). That the
order of a list is well defined is proved by adding one stop at a time
(`SortedExists`, `SortedUnique`). The import's transaction takes its job from
validated to applied and inserts all rows, so the rows are its file's, once; the
library's fact on the cardinality of an injection's image counts them.

*Planning.* The index is lemmas about what an insert and the two deletes do to
slots. A batch knows (`BatchInv`) that a slot it saw taken is held, or was lost
while it ran (`Seen`), and that a template it did not find is gone for good.

*Accounts.* A step that takes an active leader away leaves one, by the checks its
serializable transaction made; an invite that can be accepted has not been
(`Unspent`); an accepted admin fits under the limit because the count is made in the
same transaction, and all other ways to the role but one check it too: the one
that does not is what `revived` records. No account loses its last role because
`removeRole` keeps it, no invite is without roles (part of `TypeOK`), and a superadmin
who is replaced becomes an admin in the same step.

*Drafts.* `StrandedWasLate` speaks of resolved starts only; `LateOK` says it
already of a pass that has heard its media move, because that is when later bytes
begin to be late, and a new pass begins with nothing heard. A pass of the flush
keeps the work because the address it leaves leads to the text it moved, now or
before (`MoveDraftReads`): the server's id never holds an address.

Only model-checked: liveness (`StartSettles`, `ConfirmSettles`,
`UnclaimedCollected`, `PurgeEnds`), which is about fairness and so about what is
enabled, out of the provers' reach; and the properties of the runs whose theorem
has a hypothesis, on the instances that hypothesis leaves out.

## 6. Not modelled

- *AI.* Jobs are created and listed, but no controller and no worker calls
  `runTranscriptionJob` or `runExtractionJob`, so the states on which a late
  result, a cancel and an expiry could meet are reached by tests only.
- *Sessions, password reset, MFA, rate limits.* Apart from accepting an invite
  and whether a tenant has live sessions. Planned (section 2); rate limits are about clocks and
  rates, which these models do not have.
- *Imports* other than the initial plan and users: parsing and previews, and rows
  of locations and products, which are upserts of independent rows.
- *Tasks, locations and their insights, announcements, products, chains, settings,
  roles, tenancy*: one row at a time, or figures recomputed inside a confirm's
  transaction.
- *Audit, email, health, operations, pilot review, Prisma, error envelopes*: no protocol
  of their own; failed queries and conflicts appear as `HandlerFails`.
- *Screens, forms, formatting, the route snapshot, the service worker*: rendering
  and a read cache.

Within the modelled components: confirms of AI drafts, tasks, shelf lines, notes
and audio of a visit; a confirm or a start whose queue entry lands after its
deadline; the cancel dialog's delete of a queued confirm; the worker's batch
limit; provisioning a tenant and the edits of its profile and limits; renaming a
template; downloads and access checks of storage; schema upgrades of the field
database.
