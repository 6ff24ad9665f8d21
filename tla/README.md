# Verification project: ST Michael broker platform

The platform is a cabinet in which real-estate brokers *fix* clients: a broker
names a client's phone, and the platform makes sure that exactly one lead for
this fixation appears in amoCRM, the CRM of the sales office. Everything else
(calls, agencies, one-time codes, content, reports, telegram) surrounds this path.
The business rule is short, the ways to break it are not: amoCRM times out after
having created the lead, lists new leads with a delay, refuses tokens for hours;
a broker clicks twice; two brokers fix the same client at once; a retry job
repeats what failed; processes restart in the middle.

These modules model that path, and beside it the parts of the platform that have
a protocol of their own: what becomes of the uniqueness of a client after it was
fixed, calls from the cabinet and their journal, one-time codes, and the call
campaigns of agencies. TLC checks each on small instances; every safety property
and action property of the runs is proved with TLAPS as well, for instances of
any size and under assumptions that are named where they are made.

## The system and its parts

| Part (code) | State it keeps | Operations | Interacts with | Hard behaviour |
|---|---|---|---|---|
| Fixation guard (`client-fixation-safety.service.ts`) | two Redis keys per request: the semantic key of the client's phone and the replay key of actor + UUID; in memory the lease renewal and its `lostOwnership` flag | `execute`: claim both keys, run the action under a renewed lease, cache or mark uncertain | wraps `fixClient`; shares the semantic key with the phone lease | each round trip may fail before or after it took effect; TTLs; takeover of a completed record; crash |
| Phone lease (`amo-fixation-phone-lock.service.ts`) | the same semantic key | `tryAcquireLease`, `assertOwned`, `release` | used by the retry job | the same |
| Lead transfer, requests (`client-fixation.service.ts`) | rows of `clients`: status, error, attempts, lead id | `fixClient`: verdict, alarm or new row, POST, outcome | guard, amoCRM adapter, database | answer lost, crash between insert and outcome, a verdict older than the POST |
| Lead transfer, retry job (`scheduler.service.ts`) | the batch it read, the overlap flag | recovery of marked rows, retry of queued rows, parking | phone lease, amoCRM, database | rows change under the batch, P2002, errors of an attempt read by the next run |
| Administrator and health check (`admin.service.ts`, `amo-sync-retry.ts`) | none | `retryAmoSync`, `requeueAmoAuthDeadLetters` | the same rows | race with the job |
| Broker contact provisioning (`amo-broker-contact-lock.ts`, `syncBrokerAmoContact`, `syncBrokerProfileToAmo`, `pushLandingLeadToAmo`) | advisory lock, durable gate in the audit log, `Broker.amoContactId` | find, promote or create the amoCRM contact of a broker | both kinds of transfer | transaction timeout, lost answer, crash |
| Import of leads (`scheduler.service.ts:779-1110`) | rows of `clients` | every 30 minutes link or create rows for the leads of each broker | the same rows, without a lease | writes by id between the steps of a transfer |
| amoCRM traffic light (`amo-traffic-light.ts`) | counter of interactive operations, next background slot | `runInteractive`, `backgroundThrottle` | every amoCRM request | starvation of background traffic |
| Uniqueness life cycle (`webhooks.service.ts:650-1210`, hourly job, `extendUniqueness`, `resolveUniqueness`) | uniqueness columns of `clients`, imported meetings | webhook of a lead, expiry, extension, decisions of managers | amoCRM, the same rows | every read and write is awaited; verdicts are written by id |
| Outbound call guard (`mango-call-safety.service.ts`) | Redis: idempotency key, cooldown, counter of a window | `execute` | Mango, the journal | lost answers, crash, key freed without comparing its owner |
| Call journal (`webhooks.service.ts:440-650`, `broker-calls.service.ts`) | rows of `calls` | insert after the command, `handleMangoCallResult` | Mango's notifications | notifications repeated, reordered, earlier than the row |
| One-time codes (`otp.service.ts`) | rows of `phone_otps` | `request`, `verify` | SMS gateway | no transaction: every query interleaves |
| Agency campaigns (`loyalty-workflow.service.ts`, `agency-workspace.service.ts`) | campaigns, assignments, results, tasks, `doNotCall` | assign, activate, archive, claim, record, stop, reassign, resume | database locks and unique indexes | READ COMMITTED transactions that read before they lock |
| Loyalty base, imports, reports | agencies, brokers | queries, batch imports | database | one transaction each |
| Authentication, content, meetings, deals, analytics, notification, inbox | rows | single-row edits, reports | database | none that a model would add to |
| Web cabinet, telegram bot, scripts, deployment | none of the API's | user interface, one-shot repairs | API | outside the program |

`PROJECT.json` lists all of them, with the reason for each that is not modelled.

What makes the parts correct, in one list:

1. no two writers work on a phone while the outcome of one is unknown
   (`SingleWriter`), and a phone whose outcome is in doubt stays locked
   (`InDoubtLocked`) but not for good (`PhoneUnblocks`);
2. a click repeated under its UUID never runs twice (`UuidRunsOnce`), and no
   one is shown the answer of another payload (`NoForeignReplay`);
3. a writer that POSTs knows every lead of the phone (`PostInformed`), so that
   no fixation becomes two leads (`OneLeadPerRow`);
4. no lead that may exist is forgotten: its row is linked to it or blocks
   automatic retries (`NothingForgotten`), and all writers together keep what
   `FixationPromise` promises of a row, final links included (`PromiseKept`);
5. the retry job goes on (`RunEnds`, `QueueServed`);
6. whoever creates the contact of a broker under the lock creates the only one
   (`OnePost`), the gates of creations neither multiply (`NotAmbiguous`) nor are
   lifted in doubt (`ResolvedIsKnown`), and no link is replaced meanwhile
   (`RelinkInClear`);
7. when every event was handled, the contacts of the lead decide on the uniqueness
   (`VerdictFollowsLead`) and the imported meeting agrees with the lead
   (`MeetingFollowsLead`); an exception is lifted for its reasons only
   (`ExceptionWaits`);
8. two requests with one UUID never call together (`OneCallerPerKey`), a repetition
   is told the truth (`CacheIsTruthful`) and does not ring once the call is in the
   journal (`NoRingAfterJournal`);
9. a call has one row (`OneRowPerCall`), which is written by its notifications and
   never goes back to an older result (`ResultKept`, `LatestWins`);
10. a code lets one verification through (`UsedOnce`), a code from before a newer
    request none (`NewestOnly`), and the limits of requests are exceeded by no more
    than the requests at work at one time (`RateHolds`);
11. a stopped agency is in nobody's queue (`StopHolds`), a call has one result
    (`OneResult`) from the session that claimed it (`SessionHolds`), and a form sent
    twice is accepted, or refused with a conflict, in truth (`AnswerTrue`).

## Modules

| Module | What it is |
|---|---|
| `PhoneLease` | abstract specification of the lock of a phone: whose action has no recorded outcome yet, and the answer on record |
| `FixationGuard` | the guard and the scheduler's lease, one Redis round trip per step; implements `PhoneLease` |
| `FixationGuardProofs` | its theorems |
| `MCFixationGuard` | instances for TLC |
| `FixationPromise` | abstract specification of the fixations of a client: when a request may go out, when a row may be sent again, what it may be linked to |
| `LeadTransfer` | requests, retry job, administrators, amoCRM, from the lease to the linked row; implements `FixationPromise` |
| `LeadTransferProofs` | its theorems |
| `MCLeadTransfer` | symmetry for TLC |
| `BrokerContactGate` | how the three provisioning services find, create and link the contact of a broker |
| `BrokerContactGateProofs` | its theorems |
| `MCBrokerContactGate` | symmetry for TLC |
| `UniquenessLifecycle`, `UniquenessProofs`, `MCUniqueness` | webhooks, the hourly job, brokers and managers on the uniqueness columns of the clients of one phone |
| `CallGuard`, `CallGuardProofs`, `MCCallGuard` | what stands between a button and a telephone that rings |
| `CallJournal`, `CallJournalProofs`, `MCCallJournal` | the rows of `calls` under Mango's notifications |
| `OneTimeCode`, `OneTimeCodeProofs`, `MCOneTimeCode` | requests and verifications of SMS codes |
| `AgencyCampaign`, `AgencyCampaignProofs`, `MCAgencyCampaign` | campaigns of calls to agencies |

`LeadTransfer` composes with `FixationGuard` through the lease: it takes the key
of a phone as the variable `lease`, acquired and released atomically, which is
what `GuardImplementsLease` shows of the guard. Nothing in `LeadTransfer` relies
on the lease being exclusive: it may lapse under its holder at any moment. In the
same way `CallGuard` ends where `CallJournal` begins: its `Row` is the `Insert` of
the journal, which there may come late (`Early`) or never (`Lossy`).

### FixationGuard

`redis[k]` is what a key holds: the record `{fingerprint, status, owner}` of
`StoredFixation` with the result of a completed one. A request walks through
`execute` (`readUuid`, `claimUuid`, `rereadUuid`, `readPhone`, `claimPhone`,
`rereadPhone`, `takeOver`), acts (`Fence` = `assertOwned`, `Write` = the write it
protects, `Return` or `Throw`), and closes (`CachePhone`, `CacheUuid`, or
`MarkPhone`, `MarkUuid`). A scheduler row acquires, acts and releases. Each round
trip that writes has three outcomes: done, not done and an error, done and an
error (the reply is lost). `Renew` is the timer of both leases; a failed renewal
sets the sticky `lost` flag. `Expire` is the TTL of a key whose holder does not
run; `Lapse` takes a key from a living holder (renewals stalled, Redis restarted
without the key), at most `MaxLapses` times. `ran` and `open` are history: who
began to act under a key, and whose outcome no key records.

The Lua scripts compare the owner field only, so `Owns` is their guard, and each
is atomic. The fingerprint is a digest of actor and payload; that the payload
holds the phone is `FingerprintAssumption`. Time is not counted.

### LeadTransfer

The table `clients` is `row`; the stored error is one of eight classes, the ones
`sanitizeAmoSyncError`, `markAmoCreateFailure` and `isSafeAmoCreateRetry` tell
apart (see the header of the module). amoCRM is `lead` (what exists), `indexed`
(what GET lists) and `wire` (requests sent and not yet taken or refused): a
request can be accepted after its sender gave up (`Accept`), be lost (`Drop`), or
be refused (`Refuse`), and a new lead is listed some time later (`Index`). Staff
move leads on (`Advance`).

A request goes ask, check, create, reflect, assert, send, wait, settle: the
verdict of `checkUniqueness`, `findUnresolvedSamePhoneAmoClient`, the insert with
the durable marker, `findUnreflectedLinkedSamePhoneAmoClient`, `assertOwned`, the
work before the POST, the POST, and the compare-and-set of its outcome. The retry
job recovers the marked rows (`CronRecover`), reads its batch (`CronSelect`), and
for each row of it parks (`CronPark`) or takes the lease (`CronPick`) and goes
check, ask, reflect, equip, claim, and then the same steps as a request.

`batch` and `snap` are the rows as the job read them. The code compares error,
status, attempts and last-attempt time; since every write of someone else changes
the last, `touched` (rows so written since) stands for it. `now` is a recovery
window of fifteen minutes: recovery finds a lead only if it was created in the
window of its row.

Abstractions: the limit of twenty rows per batch is above the size of every
instance; a row's broker is both its owner and its responsible broker; the KC and
sales pipelines are four stages (`kc`, `exception`, `deal`, `closed`), the ones
the verdict tells apart for the writers; a lead has the contacts of brokers only.
The contact of a broker, once known, stays known; contacts the platform did not
create itself appear only through `UiAlarm`, which attaches a broker to a lead.

`FixationPromise` says what all this is for, in four states of a row and the requests
under way; `PromiseKept` is the mapping. In the run, whose instance has one phone,
that a link stays within a client says nothing; the theorem says it for many.

### BrokerContactGate

One phone and the rows of `brokers` that own it. `link` is `Broker.amoContactId`,
`gate` the audit log, `contact` amoCRM's contacts (sent, created, listed, lost),
`flagged` those marked as brokers. A gate id also names the contact that its POST
creates. A caller goes lock, observe (the gate), look (the contact), and then
either to commit, or through promote and reconcile, or through arm, post, answer
and reconcile; after the commit it resolves its gate. `snap` is the Serializable
snapshot, which is older than the wait for the lock: the holder lookup reads it,
`Lock` fails if the row changed since, and `Commit` meets the unique index.

`Timeout` closes the transaction and frees the lock while the callback goes on;
only stages that need the transaction (`Reread`, `Relink`, `Commit`, the holder
lookup) then fail. It may strike at every stage, also before the gate: arming and
posting need no transaction, so the callback may go on to both without the lock.
The history `stray` holds the gates armed that way; the code cannot keep them apart
from the gate of the next caller, and the properties say what holds of the others,
and of every step, beside them. `Stop` is every other end: an exception, a
serialization failure, a request for reconciliation, the death of the process; for
the shared state they are the same. `Login` is `syncBrokerFromAmo`, which does not
know the lock.

The callers in `Fixation` run `syncBrokerAmoContact`; the other two services differ
from it in the same places (no second reading of the row, no holder lookup, no
replacement of a link, a stricter finder) and are one kind. Which of several
flagged contacts is the newest is left open. Six lookups of a reconciliation are
one step that may take place at any time. In `LeadTransfer` all of this is the
variable `contact`.

### UniquenessLifecycle

The clients of one phone, each with its broker. `row` holds what the code reads of
the uniqueness columns: the status, whether the reason marks an exception or a
deal, and whether the expiry is empty, ahead or past. amoCRM is `stage` and
`attached` (the contacts of each lead); whenever a lead changes, one more of
`events` is to be delivered, and an event carries only the id. A webhook
(`Workers`) takes an event and reads the lead (`Receive`), reads its clients
(`FindClients`), and for each of them looks for the imported meeting after 142
(`TakeClient`), completes or creates it, or cancels those of a closed lead
(`SaveMeeting`), and writes its verdict by id (`Judge`). A meeting that cannot be
searched or written is logged and the loop goes on to the verdict (`LoseMeeting`),
as `recordKcMeetingHeld` and the `.catch` behind `cancelKcMeeting` do. Then it turns
to other clients of the phone (`FindOthers`, `WriteOther`): it lifts exceptions
after 143, makes parallel clients exceptions or rejects them on a sales lead that
got ahead. `Fail` is an error half way, which is answered with 200, so the event is
lost. Beside it run the hourly job (`Lapse`, `Expire`), the extension of a broker in
its two steps (`CheckExtension`, `Extend`), and decisions of managers (`Resolve`)
and administrators (`SetStatus`). Nothing orders the requests: several handle events of one
phone, or of one lead, at one time.

Three histories name what the outcome cannot survive. `overruled`: somebody decided
on the client, or an extension erased its mark. `disturbed`: its last event was lost,
or was handled, or the client turned to from another lead, while another request was
about to write it (`ToWrite`, `Contested`). `unsaved`: its own last meeting write
failed. The next event of the lead makes up for the first two (`Receive`), the next
meeting written for the third.

Left out: deals set by the same events, clients created from the phones of a sales
lead (its search for clients may find none, `NoOthers`), the texts of the reasons
beyond their marks, and dates beyond ahead or past.

### CallGuard

`key` is the record of a UUID in Redis (free, processing, or completed with the
request whose result it holds), `cooldown` the key of clients that send no UUID,
`spent` the counter of the present window. Every key of the service carries the
actor, so one actor is modelled. A request goes `Get`, `Acquire` (SET NX), `Reget`
or `Cool`, `Spend` (the script), `Ring` (the action: checks and Mango), `Row` (the
row of `calls`), `Save` (SET XX) or `Drop` (DEL). Each round trip may fail before or
after it took effect, Mango may ring and its answer be lost, and a process may die
at any stage (`Crash`). `Save` and `Drop` compare no owner, as in the code. A key may
expire at any time when nobody works under it; `Overrun` lets it expire under its
owner, too. `rang`, `journal` and `life` are history.

### CallJournal

`rows` is the table in the order of `initiatedAt`; a row keeps its id, the counter
and the notification it was last written by, and, as history, the call it was made
for. `Insert` is `call.create` after the command was accepted. `Events` are the
notifications that reach the search (legs, interim states and malformed ones are
answered before); Mango posts each up to `MaxDeliveries` times, and several are
handled at once: search by id (`FindById`), then among the recent open calls of the
broker (`FindByPhone`), then `Update` or `Create`. `Aging` lets a row pass the ten
minutes after which it is no longer found by phone.

### OneTimeCode

`codes` is the table of one phone in the order of `createdAt`, `clock` the time. A
request checks the interval (`CheckInterval`) and the count of its window
(`CheckCount`), consumes the earlier codes of its purpose (`ConsumeEarlier`), inserts
and sends (`Insert`, `Send`), and consumes what was not sent (`Withdraw`). A
verification reads the newest live code (`ReadCode`), and then refuses, counts a
wrong attempt or accepts; `Accept` is the `updateMany` that compares what was read.
The limits per hour, per address and per day have one form; the tightest is modelled
(`Window`, `PerWindow`). `RequestsAtOnce` and `ChecksAtOnce` say how many calls of a
kind overlap: nothing in the service prevents that. `began` is the time at which a
request or a verification was received.

### AgencyCampaign

An assignment is a row `<<campaign, agency, n>>`. PostgreSQL runs the transactions
READ COMMITTED, and most of them lock the agency first, so that a transaction that
reads nothing before its locks is one step (`Control`, `Claim`, `Reassign`,
`CompleteTask`). The others have a step for each read they do not hold: saving a
result reads the assignment (`Submit`), looks for the receipt of its submission and
checks what it read (`Find`), looks for the approved script of a workspace campaign
(`CheckScript`; without one the answer is a BadRequest, and the submission is not
looked up again), locks and writes (`Record`), commits (`Commit`) and after a
conflict looks its submission up (`Lookup`); archiving takes the list of assignments
it then waits for (`Archive`, `ArchiveCommit`); activating, assigning and resuming
read the campaign without a lock. `Free` is the pair of unique indexes. A transaction
that waits may be rolled back (`Abort`). A form may be sent again with the same
contents under its `submissionId`; `task` is the follow-up call that a result
promises.

Left out: corrections of results, tasks made by hand, campaigns of brokers and of
the ANNA base (whose assignments have no claim), and which permissions a request
needs. The pilot makes its campaigns with their assignments in one transaction,
which is the initial state.

## Runs

| Run | Instance | States | Shows |
|---|---|---|---|
| `guard_clicks` | 3 requests under one UUID, one for another payload, 1 phone, one lapse | 0.66 M | `UuidRunsOnce`, `InDoubtLocked`, `NoForeignReplay`, the key implements the lease |
| `guard_phone` | a request with a UUID, one without, one row of the scheduler, with fairness | 0.13 M | `SingleWriter`, `PhoneUnblocks` |
| `transfer_crash` | 2 brokers, 1 phone, 2 rows, 2 leads, 2 requests, the job; all may crash, leases lapse | 1.3 M | `PostInformed`, `NothingForgotten`, `OneLeadPerRow`, `PromiseKept` |
| `transfer_live` | 1 row, 2 leads, 1 request that may crash, with fairness | 1.9 k | `RunEnds`, `QueueServed` |
| `transfer_poison` | 2 rows, 1 lead, with fairness | | finding 1 |
| `contact_crash` | a fixation and a profile update, 2 accounts, 2 gates, 1 other contact; timeouts at every stage | 3.6 M | `OnePost`, `NotAmbiguous`, `ResolvedIsKnown`, `RelinkInClear` |
| `uniqueness` | 2 webhooks at one time, 2 clients of one phone, a lead of the call centre and a sales lead, 2 happenings | 3.7 M | `VerdictFollowsLead`, `MeetingFollowsLead`, `ExceptionWaits` |
| `call_guard` | 3 requests under one UUID, one for another target, and one without, 2 calls per window | 0.62 M | `OneCallerPerKey`, `CacheIsTruthful`, `NoRingAfterJournal` |
| `call_journal` | 2 commands that their notifications name, 1 whose row is late or lost and that is not named, 4 notifications posted twice, 2 handlers | 1.3 M | `OneRowPerCall`, `ResultKept`, `LatestWins` |
| `code` | 3 requests, one of another purpose, 2 at a time; 2 verifications, which may overlap | 4.0 M | `UsedOnce`, `RateHolds`, `NewestOnly` |
| `agency` | 2 agencies, 2 campaigns, 2 sessions, 2 forms, 4 operations with 3 in progress | 1.2 M | `StopHolds`, `OneResult`, `SessionHolds`, `AnswerTrue` |
| `agency_resume` | the same with one session, 2 in progress | | finding 2 |

Every run of the first kind checks the type invariant of its module as well, except
`guard_phone` and `transfer_live`, whose modules have another run that does.

Bounds, and why they are enough. A race on a phone needs two writers and a third
that observes their result: two requests and the job, or three requests. A second
lead for a row needs two leads, a second POST two gates. `MaxAttempts` is 2; the
code's 10 adds only repetitions of the same step. One lapse of a lease is enough to
put two writers into one phone; in `LeadTransfer` lapses are not bounded. In
`BrokerContactGate` callers call again without end, so two of them make any number
of calls of which two overlap.

In `uniqueness` a happening is a change of a lead, a date that goes by, an extension,
a decision of a manager, a request that fails or a meeting that cannot be written.
With two requests at work and two happenings beside the first event of each lead, any
two verdicts may meet: a row judged by one event and overruled, extended, expired or
judged by the next in between, or by both at one time. The other client is on another
lead, so the writes to rows of the same phone cross. In `call_guard` a second owner
needs a first whose end is late and a third who reads what both left. In
`call_journal` one command is named by two notifications, one by another, and the
third may lose its row or have it late and is found by phone, also when it is not its
own row that is found: these are the ways a row is found. `code` has room in a window
for two codes and two requests check at one time, so that a third is refused or
admitted by its timing; four ticks (0 to 3) pass the interval (1), the window (1) and
the lifetime (2), which outlasts the interval so that an old code may be alive when a
newer one is sent. In `agency` a
stop, an archive and a reassignment each need one operation against a result that
takes one, or two when it is sent again; a fourth makes the claim. Requests end, and
`MaxBegun` bounds the operations; requests and forms are interchangeable, and so are
the verifications of `code` and its two requests of one purpose, the workers of
`uniqueness`, the handlers of `call_journal`, the gates and the accounts of
`contact_crash`, and the symmetric parts of `transfer_crash`.

Deadlock is checked where the instance cannot stop; where requests simply end,
the configuration says so.

## Fairness

`FixationGuard`: a process that does not crash takes its next step (each Redis
call answers or times out), its renewal timer fires, and Redis drops a key whose
TTL has run out. Nothing is assumed of requests arriving.

`LeadTransfer`: a request once started runs to its end and the job's next step is
taken, since every amoCRM call has a timeout (15 s, 45 s for POST /leads, see
`amo-crm.adapter.ts:72-79`); the job starts again every five minutes; the lease of
a dead process runs out. Nothing is assumed of amoCRM: it need not accept, list or
refuse anything, and no administrator need act. `QueueServed` excludes an
administrator who queues the same row afresh for ever, since that resets its
attempts.

The other modules state safety only. What must eventually happen in them is that a
request is answered, which follows from every step being taken; `VerdictFollowsLead`
and `MeetingFollowsLead` speak of the states in which every event was handled
instead, so they need no fairness.

## Proofs

`FixationGuardProofs` proves, for every number of requests, rows, phones, UUIDs
and lapses, from `GuardAssumption` and `FingerprintAssumption` alone:

- `TypeCorrect`: the type invariant;
- `OneWriterPerPhone` and `UnknownIsLocked`: `SingleWriter` and `InDoubtLocked`.
  Neither is inductive: the invariant says, for every program counter, who owns the
  key of the phone or has lost it to a lapse, so that an actor that acts still owns
  its key unless a lapse was counted, and the open outcomes of a phone belong to the
  owner or to the uncertain record;
- `OneRunPerUuid`: the same for the replay key, with the acknowledged claims
  (`holds`) tied to the record;
- `OwnAnswersOnly`: every completed record carries the fingerprint of the request
  whose result it holds, and so does every answer;
- `GuardImplementsLease`: `Spec` implies `PhoneLease!Spec` for each phone under
  the mapping: the open outcomes of the phone, and the fingerprint of its completed
  record.

`LeadTransferProofs` proves, for any number of brokers, phones, rows, leads and
requests beside the one job, with crashes, lost answers, late requests and leases
that lapse at any moment, from `ConstantsAssumption` and `RecordsAssumption`:

- `TypeCorrect`: the type invariant. It needs to be known of every writer with a row
  in hand that the row exists, has the broker and the phone the writer works for, and
  is in the hands of that writer only (`HoldInv`), and of the job that its batch holds
  rows it has not come to (`CronInv`);
- `LinksStay`: `LinksAreFinal`, part of the promise and so without a run of its own:
  whatever a step writes, the row was neither linked nor `SYNCED` before (`RowStep`),
  because its writer compares that, holds the row in doubt, or read it as unlinked and
  nobody has touched it since (`Retryable`);
- `KeepsThePromise`: `PromiseKept`, that `Spec` implies `FixationPromise!Spec`. A row is
  *absent*, *open* (it may be sent), in *doubt* (it carries the marker) or *settled*
  (`SYNCED`); `wire` is what is sent, and the row a lead was made for is its origin.
  Every step is shown to insert a row, to rewrite one that is neither settled nor
  linked, to touch the requests under way, or not to be seen (`Small` and the lemmas
  after it). `LiveInv` across the step then gives that a row leaves doubt unlinked only
  with nothing outstanding, and is linked to its own lead if there is one;
  `OnePending` and `UnsentInv`, that a POST goes out only when every other request of
  the client that may have created a lead is linked to it. One more invariant is
  needed: the lead a writer is about to link is of its row's phone (`SettlePhone`);
- `LeadsAreSingle`, `RequestsAreRemembered`, `PostsAreInformed`: `OneLeadPerRow`,
  `NothingForgotten`, `PostInformed`. They are parts of one invariant, `Protocol`. Its
  heart is the marker: a row whose POST is out or may still go out carries it or is
  linked to its own lead (`LiveInv`, `SendInv`); among the rows of a phone one such
  row at most still carries it (`OnePending`); so a writer whose search for rows
  without an outcome came back empty (`ClearInv`) stays alone, whatever becomes of its
  lease, and one that has then compared its verdict with the linked rows has seen
  every lead of the phone (`InformedInv`). That a stored outcome is the truth
  (`SettleInv`) closes the circle: without it a refusal could lift a marker while the
  request is under way. A broker is a contact of a lead only through a row linked to
  it or through the row it was made for (`ContactsInv`), which is what makes the
  verdict on a lead of the same broker reliable.

Each step is shown to have one of a few effects (a row is written with its old
broker and phone, one process moves, a lead is taken, amoCRM lists one more), and
each part of the invariant is preserved by the effect, not action by action; the
actions are then shown to have their effects. The two assumptions say that the
records of the table and the marks of an error differ from `None` and from leads;
in the code they are of different types.

`BrokerContactGateProofs` proves, for any number of callers, rows, gates and
contacts, from `ConstantsAssumption`:

- `TypeCorrect`: the type invariant;
- `OneCreation`, `OneOpenGate`, `GatesAreSound`, `NoRelinkInDoubt`: `OnePost`,
  `NotAmbiguous`, `ResolvedIsKnown`, `RelinkInClear`, with timeouts at every stage.
  The invariant calls a gate *pending* if it is armed, or resolved although its POST
  may still bring a contact. `OnePost` is not inductive; that at most one gate armed
  under the lock (`Kept`) is pending is, with what a caller that still holds the lock
  knows at each stage: it observed no armed gate but stray ones, and once its lookup
  came back empty no kept gate is pending either, since a resolved pending gate implies
  a listed contact. No contact ever leaves the list, so this knowledge does not go
  stale before the gate is armed. A caller that has lost the lock knows nothing, and
  needs to know nothing: its gate is stray.

`CallGuardProofs` proves, for any number of requests, UUIDs and targets, from
`ConstantsAssumption`:

- `TypeCorrect`: the type invariant, strengthened by what a stage tells (only a
  request with a UUID handles its key; what rang and what was journalled stays);
- `RepliesAreTrue`: `CacheIsTruthful`, because every completed record names a
  journalled call of its own UUID and target; it needs no assumption on expiry;
- `OneOwner` and `NoSecondRing`: `OneCallerPerKey` and `NoRingAfterJournal` under
  `KeysOutlive` (`Overrun = FALSE`): no key expires under its owner. The code gives
  the key thirty times the time limit of a command to Mango. The invariant ties each
  owner to a record in processing; for the second theorem also each journalled call
  to a record that stays until the key expires, by which the ledger is emptied too.

`OneTimeCodeProofs` proves, for any number of calls, any limits and times:

- `TypeCorrect`: the type invariant, for calls that overlap without limit;
- `CodesAreUsedOnce`: `UsedOnce`, for calls that overlap without limit. The invariant
  adds that a code which let a verification through is dead; codes never come to life
  again (`CodesEvolve`), and `Accept` compares;
- `EarlierCodesAreDead`: `NewestOnly`, for requests and verifications that overlap
  without limit. Codes of its purpose that are older than a request are dead once it
  has consumed (`DeadInv`), since nothing revives a code and nobody inserts one with an
  earlier date;
- `LimitsHold`: `RateHolds`, for finitely many requests of which any number
  (`RequestsAtOnce`) overlap. The invariant counts the inserts that are pending with
  the codes that are there (`RateInv`): a request that passes a check finds every other
  in one of the two, and time only takes codes out of a window. The bound is the
  limit as the code enforces it: n requests at once pass it by n - 1.

`AgencyCampaignProofs` proves, for any number of agencies, campaigns, operators,
sessions, forms and requests, from `ConstantsAssumption` and `FormAssumption`:

- `TypeCorrect`: the type invariant with the two unique indexes;
- `StoppedStays`: `StopHolds`;
- `ResultsAreSingle`: `OneResult`. From the moment a result is written to its commit
  the assignment stays open and frozen, because whoever else would write it waits for
  the lock of the agency or of the row;
- `SessionsHold`: `SessionHolds`. What `Find` saw of the session need not hold any
  more when the result is written; but the update compares the version, which every
  claim and every cancellation raises, so what it saw is what is there (`ReadInv`);
- `AnswersAreTrue`: `AnswerTrue`, since results never leave a row, and a refusal with
  a conflict comes from the second look. Of the refusal for want of a script it says
  nothing, see the statements that fail.

`UniquenessProofs` proves, for any number of clients, leads, brokers, happenings and
requests at one time, from `ConstantsAssumption`:

- `TypeCorrect`: the type invariant; a meeting that was found stays in range because
  meetings are never removed;
- `ContactsDecide` and `MeetingsAgree`: `VerdictFollowsLead` and `MeetingFollowsLead`,
  however the requests are interleaved. Both say nothing until all is quiet, so the
  invariant is about the way there. An undisturbed client is written by one request at
  most (`AloneInv`), so what the others do passes it by (`Elsewhere`, `Untouched`). If no
  event of its lead is to come, it is as it should be, or that request has yet to judge
  it (`Judged`), and then what the request read of the lead is the lead as it is (`Now`),
  and what it read of the row still says what matters (`Recalls`: the grant may have
  run out since). The writes to other clients of the phone keep this because a client
  that is granted or excepted for another lead is entitled by its own (`Yielding`). The
  meetings go the same way (`Imported`), and need nothing of the rows;
- `ExceptionsWait`: `ExceptionWaits`. What a request read of a lead was so at some time
  (`Task`), and what it read of an undisturbed row still holds when it writes.

`CallJournalProofs` proves, for any number of calls, notifications and handlers, from
`ConstantsAssumption`:

- `TypeCorrect`: the type invariant;
- `LatestResultWins`: `LatestWins`. The invariant ties the counter in a row to the
  notification it names: a row was matched with nothing and is as it was inserted, or
  it holds the counter of a matched notification that none exceeds. No handler need
  know anything: the comparison in `updateMany` is all it takes;
- `CallsAreSingle` and `ResultsAreKept`: `OneRowPerCall` and `ResultKept`, which are
  about `Orderly` calls. The invariant says that the row of such a call is there as
  soon as the insert is not pending, so that the search by id cannot fail and a
  handler never comes to the search by broker or to the insert; what was handled is
  matched with that row, and by `LatestResultWins` the row shows nothing older.

The proofs go action by action, each action under the conjuncts it can disturb. Left
to TLC is liveness (`PhoneUnblocks`, `RunEnds`, `QueueServed`): it rests on ENABLED,
which is out of the prover's reach. So is induction over data; the one place that
needs it, that the newest of some rows exists (`GreatestExists`), takes it from the
library's theorem that `<` on the naturals is well-founded.

## Findings

1. `transfer_poison`. Recovery of marked rows runs first in every run of the job, and
   its update has no handler for the unique index on broker and lead. If the one lead
   found for a parked row is linked to another row of the same broker, the run ends
   there, now and every five minutes after, and no queued row is retried.
2. `agency_resume`. A result that promises another call leaves an open task linked to
   the assignment it completed. `resumeTask` passes its checks and inserts a new
   assignment into the same campaign, where the unique index admits only one that is
   not cancelled: the follow-up call, which the acceptance document says is started
   from the task, cannot be started.

## Statements that fail outside the runs' bounds

The runs check what the code keeps. TLC refutes the following statements on the
module's run with the change named, so that a reader can repeat them.

| Statement | Change | What happens |
|---|---|---|
| `ParkedWasTried` (`LeadTransfer`) | `INVARIANT ParkedWasTried` in `TransferLive.cfg` | a retry whose `checkUniqueness` failed is taken by the next run for a lost POST and parked, although nothing was posted; the comment in the loop says it is retried as usual |
| `OnePostEver` (`BrokerContactGate`) | `INVARIANT OnePostEver` in `ContactCrash.cfg` | the transaction (120 s, the wait for the lock included) ends during the lookup of a profile update, whose callback goes on to arm and POST without the lock, beside the next caller |
| `RingsOnce` (`CallGuard`) | `INVARIANT RingsOnce` | Mango rang and the answer or the journal row failed: the key is deleted and a repetition rings again |
| `OneCallerPerKey` (`CallGuard`) | `Overrun = TRUE` | after the key expired under its owner, another takes it; the first deletes or completes the record of the second |
| `OneRowPerCall` for every call (`CallJournal`) | `Orderly` replaced by `Calls` | a notification that does not name the command, is early, or is handled twice at once makes a second row: there is no unique key on Mango's id |
| `OwnResults` (`CallJournal`) | `INVARIANT OwnResults` in `Journal.cfg` | a notification that does not name its call, whose row is lost, is written into the open row of another call of the broker, and that call's own result, with the same counter, is then dropped as stale |
| `VerdictFollowsLead`, `MeetingFollowsLead` (`UniquenessLifecycle`) | without `disturbed` | two requests meet on a client, or an event is lost: the older snapshot of the lead is written last |
| `MeetingFollowsLead` | without `unsaved` | the meeting write failed and was only logged |
| `OneMeeting` | `INVARIANT OneMeeting` in `Uniqueness.cfg` | two requests that found no meeting create two |
| `ReviewStays` | `PROPERTY ReviewStays` in `Uniqueness.cfg` | a comment (`webhooks.service.ts:721-722`) and the rules of uniqueness (`docs/регламент-уникальности-простыми-словами.md:186`) leave a client under review as it is when its lead has no broker; the code rejects it (`:1027-1044`), by a later rule in another comment (`:1018-1023`). `VerdictFollowsLead` states what the code does |
| `ExceptionWaits` | without `disturbed` | a request that read the row as an ordinary review grants it after another made it an exception |
| `SoldUntouched` | `Sold = {a}`, `PROPERTY SoldUntouched` | the searches for other clients of the phone do not pass over clients with a paid deal |
| `ExpiredUntouched` | `PROPERTY ExpiredUntouched` | a lead closed with 143 rejects an expired client |
| `ExceptionWaits` | without `overruled'` | an extension whose check preceded the exception erases its mark, after which attaching the broker is enough |
| `GrantHasEnd` | `INVARIANT GrantHasEnd` | a manager who resolves a waiting exception leaves the expiry empty: the grant never lapses |
| `NewestEver` (`OneTimeCode`) | `PROPERTY NewestEver` in `Code.cfg` | of two requests that consume before either inserts, both leave a live code |
| `RateHolds` | with the limits themselves (`PerWindow`, 1) | two requests check before either inserts |
| `AttemptsBounded` | `INVARIANT AttemptsBounded` and `MaxAttempts = 1` in `Code.cfg` (kept with `ChecksAtOnce = 1`) | two wrong attempts read the same counter and write the same counter |
| `RefusalTrue` (`AgencyCampaign`) | `PROPERTY RefusalTrue` in `Agency.cfg` | a copy of a form finds no receipt and then no approved script, and is refused with no second look, while the first copy is recorded in between |

`AgencyCampaign` also reaches, without any statement in the repository against it: an
open assignment in an archived or completed campaign (assigning reads the campaign
without a lock), a campaign that stays active after its last two results were recorded
at once, and a deadlock between archiving and a result, which the database breaks
(`Abort`).

## Not modelled, and why

Of modelled parts. `LeadTransfer`: the half-hourly import, which writes lead ids
without a lease, and delegated fixation. `UniquenessLifecycle`: the statuses of deals,
the creation of clients from a sales lead, the marketing webhooks. `AgencyCampaign`:
corrections of results, tasks made by hand, campaigns of brokers and of the ANNA base,
the receipts of the pilot's replays, and the reports of the supervisor. `call_guard`
lets no key expire under its owner (`Overrun`); the section above says what happens
otherwise.

The amoCRM traffic light orders requests in one process and keeps nothing; the scan
admission is a counter raised and lowered by one thread. Operator alerts, MoreKIT and
the audit log follow a step and feed nothing back. The loyalty base is read-only
projections, filters and page layout, most of the repository's lines; its imports and
manual links are one transaction each. Touch synchronisation imports with a cursor.
Content, meetings, deals, analytics, the inbox, registration and sessions edit or
report single rows, and the web cabinet and the telegram bot hold no state that the
API does not hold. None of these has a protocol between concurrent actors that a model
would say more about than their code.

## Plan

1. All modules of the table above and their proofs: done.
2. The invariants of `FixationPromise` by themselves (one lead per row, at most one
   unlinked outstanding request per client).
3. `LeadTransfer` extended: the half-hourly import, delegated fixation (owner and
   responsible broker apart), the limit of a batch as a constant.
4. Corrections and manual tasks in `AgencyCampaign`; touch synchronisation.
