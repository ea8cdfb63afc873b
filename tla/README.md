# Verification of terraform-provider-hubspot

TLA+ models of the provider's core: how a HubSpot request is retried, and how
each resource keeps Terraform's state file in step with a portal that fails,
answers late and is edited by other people. TLC checks the models on small
instances; TLAPS proves theorems about them for every value of the constants.

## 1. The system

Terraform starts the provider, refreshes every resource in state (`Read`),
plans, and calls `Create`, `Update` or `Delete` for what differs. Handlers of
different resources run concurrently. Each handler is a chain of HTTP calls,
all through one `Transport`, with nothing atomic between them. Terraform writes
to the state file what a handler returns; an error from `Create` with a state
taints the resource, an error from `Update` keeps the prior state, a `Delete`
without an error removes it.

| Component | State | Operations | What is hard about it |
| --- | --- | --- | --- |
| HTTP transport (`internal/hubspot/transport.go`) | one rate limiter shared by all calls; per call the attempt and the context | `Do` | creates must not be replayed, retries must not be overtaken, calls must end, the limiter follows headers of concurrent responses |
| property group | name-keyed object, display order with the sentinel -1 | CRUD, import | a lost answer cannot be told from a lost conflict; the order depends on the neighbours; Get and List are not atomic |
| property | name-keyed, with options that have orders and sentinels of their own | CRUD, import, ModifyPlan | reconstructing what was configured from what the portal made of it |
| product | generated ID; decimals respelled; values that may be unmanaged | CRUD, import | the ID is known only from the create response; the archival shows late |
| form definition | generated UUID, archived view | CRUD, import | as products, with a shape that may be unsupported |
| file folder, file | generated ID, path, asynchronous folder tasks, a revision that lags | CRUD, import | collision checks before writes, one mutex around updates only, PATCH followed by PUT |
| account membership | user ID and e-mail; removal allowed or not | CRUD, import | the removal of a person must be guarded at the time of the call |
| CRM user profile | fields owned by somebody else; never deleted | CRUD, import | two patches that may half succeed |
| contact segment | generated ID, list version, a tombstone in private state | CRUD, import, restore | version polling, restore of what was archived |
| pipeline, custom schema | not registered with the provider | CRUD | archived marker and restore |
| data source, provider configuration, state upgraders, validators | none | read, configure | little |
| acceptance harness and fake HubSpot, `northstar-lifecycle` | test portal, phases of a lifecycle with checkpoints | phases, cleanup | cleanup after a failed phase |
| documentation portal, provenance | none that outlives a run | generate, check | little |

What makes each correct, in one sentence: state never loses an object that
still exists and never claims what the portal does not have; success is
reported only for what was verified; a second plan is empty unless somebody
changed something; and every call and every run ends.

## 2. What is modelled

Each resource module composes three parts: Terraform (`StartRun`, `Plan`,
`Replace`, `EndRun`, `Crash`, `Import`), the provider's handlers, and HubSpot with
everybody who changes it (`Foreign`, `ArriveLate`). They use the same words: `phase`
is idle, refresh or apply; `op` is the handler that runs and `pc` where it stands;
`failed` is whether the run has reported an error; `late` holds requests whose
caller has given up and which may still arrive. One remote call is one step. What its
result can tell is what `Transport` and `RemoteCall` permit: an answer, an error with
a status before or after the effect, or no answer with the request carried out, lost
or on its way.

### `RemoteCall`: the contract of a call

The abstract specification. A call has a class (`never`, `explicit`, `safe`),
the effects that have happened and one verdict. A call of class `never` is
worth one effect. `ok` is reported only after an effect, `unsent` only when
there is none and never will be, `failed` at any time. Effects may still happen
after `failed`: that is all a handler may rely on.

### `Transport`: `Transport.Do`

One action per step of the loop: `Send` (limiter and request), `FailWait`,
`NetworkError`, `Succeed`, `FailDecode`, `Backoff`, `GiveUp`, `NextAttempt`,
`AbortSleep`. The statuses are grouped by what the code and its caller can tell apart:
`busy` (retryable, sent instead of doing the work), `fault` (retryable, possibly after
it), `daily`, `refused`, `garbled` (a 2xx that does not decode), `success`. A request
that was sent is a copy in flight, which the service may carry out at any time, also
after its deadline; that is what makes replay dangerous. A gateway may answer for the
service (`AnswerFromGateway`: 502, 504, 523, 524) and leave the copy in flight, which
`stranded` (history) remembers. The limiter is a bucket with a size that responses
change. Abstracted: delays (a sleep ends or the context does), the text of errors, the
validation of an operation before its first attempt.

### `PropertyGroups`: `hubspot_property_group`

Terraform (`StartRun`, `Plan`, `Replace`, `EndRun`, `Crash`, external), the
handlers and the portal. A handler is at `write` (its request), then at `get`
or, after an error that leaves room for it, at `recover` (the read-back), then
perhaps at `list` (the comparison with the neighbours for -1). The write has
three outcomes: `Answered` (with success, 404 or a conflict), `Faulted` (a
status that may follow the effect) and `Unanswered` (Ambiguous; the request has
been carried out, is lost, or is in `late` and arrives whenever it likes). One
call is one step, which is what `Transport` permits: its retries are covered
because a repeated update or archive ends as one of these outcomes.
Several groups have handlers at once.

### `Product`: `hubspot_product`

One resource address. A product has an ID the portal generates, so `state`
holds it together with the definition; `draft` is the state in the response of
the running handler, which reaches the file when the handler returns, with an
error or without. Definitions have a text (name, SKU and description), a price
and a cost: decimals with an amount and a spelling, and for the cost `null`
(unmanaged), empty, or an odd value the provider rejects. The recurrence of a
product behaves as the cost without the spelling and is left out. An archived
product passes through views that still show it, or show nothing, before it
shows as archived.

### `FileFolders`: `hubspot_file_folder`

Several addresses whose folders may be inside each other, under IDs the portal
generates. Handlers run concurrently in the order their references ask for (`Before`,
external); a parent named by its literal ID, which the schema admits, is no reference
and asks for no order. Deletes may come in any order: Terraform orders them by the
references in the state file, which the model does not keep, so it admits more.
`Update` also takes the package's mutex (`lock`). A handler passes the labels of `pc`:
the preflights (`files`, `children`, `collide`, `parent`, or `empty` and `nofiles`
before a delete), the `write`, a `task` for a move or for the rename of a folder that
has folders, and the read-backs (`confirm`, `verify`, `absent`), each of which may
fail; after `confirm` a failure leaves the generated ID in state, tainted. Five polls
are bounded; `count` and `streak` are their loop variables. The poll for absence is
bounded by the handler's deadline only, and so is one step that succeeds or fails.

Time stamps are abstracted to ages: `age` counts the revisions a folder has had
since the one in state, and `before` is the revision that exact-ID reads return
for a while after a task, with its own age. That is all that the comparison of
`updatedAt` can tell. Ages above 2 are not told apart. Paths follow from names
and parents and are left out; where a path may lag behind, the poll for it may
fail to match. Files are one bit of a folder, set by other people: they forbid a
rename and a delete, and make the portal revert a rename.
An ID that nothing refers to any more may be given to a new folder, which keeps
the instance finite and stands for a fresh one.

### `Properties`: `hubspot_property`

Properties of one object type have a group, an order within it, a type and, for an
enumeration, options with orders of their own. `Numbered` is what the portal makes
of the orders -1 in a request, `Preserved` what `preserveConfiguredOptionAppendOrders`
makes of the numbers that come back, `PlannedOptions` the plan modifier for options
that are not configured. A write that `validatePropertyShape` refuses is never sent
(`RefuseShape`). Create and Update read back only after a success or an Ambiguous
error; an archive request that fails is an error without a second look.
Option values are numbers in the order in which the strings sort. Label,
description and the display fields are compared as the group is and left out.

### `SegmentFilters` and `Segments`: `hubspot_contact_segment`

`SegmentFilters` is the conversion of filters between the configuration (a set of
groups, each a set of predicates) and the wire (a tree of ordered branches in another
vocabulary), in both directions, with the trees that reading has to refuse.
`Segments` is the resource: the list with its version, processing status and
tombstone; `before`, an older version that reads may still return; `marker`, the
private mark of a tombstone. The handlers pass a preflight, a write (create, rename,
filters, restore, delete), a poll that waits for the version `least`, and its
verification. An ambiguous write is never repeated but looked for.

### `WorkingHours` and `Users`: membership and CRM user profile

`WorkingHours` has the checks and the sorted lists of working hours; `sort.Slice` may
put equals in any order, so a sort is the set of its outcomes. `Users` is a
member and the profile that depends on it. A run is the list of handlers `todo`,
the first of which runs. HubSpot makes the CRM user of a member some time later
(`Settle`), perhaps twice; `seen` is what the running handler has read, some calls
ago; `consented` (a history variable) are the members that an earlier run was told may
be removed. The removal reads the user again right before the DELETE and then waits
for absence in three views. The profile is changed in up to two requests, as HubSpot
refuses hours before a time zone is there. A write may end in a final error with its
effect done (`WriteFails`), which no read-back follows. A profile is never deleted.

### `Files`: `hubspot_file`

The local source has bytes (`local`) that may change at any time; `source` are those
a handler has read and found to match the digest. Create looks for a collision,
uploads, verifies, and deletes what did not come out as planned. Update sends a PATCH
for name, folder and access and a PUT for bytes, each followed by a wait. `before` is
where a moved file may still be shown. `mine` (history) are the files uploaded here or
imported. A name is a stem and an extension, because a PATCH takes the stem only.

### `Forms`: `hubspot_form_definition`

Four subtrees, each one value: a text of the author, an empty block list (which
HubSpot may answer with a list of one blank), or a structure outside the contract,
which the provider refuses. An archived form is in a view of its own until HubSpot
forgets it (`Purge`). A PATCH names the subtrees in which plan and state differ; every
write is followed by a read of the exact ID, whatever it was answered.

### Bounds

`MaxTrouble` counts failures, crashes and foreign changes; every property is about
what a few of them in an unlucky order can do, and the violations met while building
the models, and every mutant, needed at most two. `MaxOrder` caps display orders
(the portal's next order and everything above it), `Ids` the objects ever
made; an ID nobody refers to any more is given out again, which keeps the instance
finite and stands for a fresh one. Polls make 2 or 3 reads instead of up to 20, and
folders ask for 2 matches instead of 3: a first, a repeated and a last read all occur,
and what HubSpot does between two of them is bounded by `MaxTrouble` anyway. The literal
parent ID of the folder instance is the first one that the portal gives out; whether it
is that of the other address, a foreign folder or none depends on what happened before.

| Run | Instance | States | Shows |
| --- | --- | --- | --- |
| `transport_budget` | 2 calls, 2 attempts, burst sizes 0 to 2, one limiter | 1,398,544 | no overtaking, failures with a reason, termination, refinement of `RemoteCall` |
| `groups_faulty` | 2 groups, 2 labels, pinned or appended, 1 trouble | 817,070 | state follows the portal while neighbours interleave |
| `groups_appended_twice` | 2 appended groups, no trouble | | violated: the second plan is not empty |
| `properties_faulty` | 2 properties, 2 property groups, 2 option values, 5 definitions of one and 2 of the other, 1 trouble | 1,364,761 | append orders hide nothing and settle |
| `product_faulty` | 2 IDs, 2 texts, costs unmanaged, cleared and set, 2 troubles | 2,686,403 | all product properties under failures |
| `folders_faulty` | 2 addresses, 3 IDs, nested, moved apart, moved back by a literal ID and removed, older revisions, 1 trouble | 2,795,937 | identities, verified success, PATCH or task, refreshes never go back |
| `folders_rename_lost` | 2 addresses, 2 IDs, older revisions, 1 trouble | | violated: a lost rename is "proved" by an older revision |
| `segments_faulty` | 1 segment, 2 names, filters over 1 property, 1 trouble | 587,338 | meaning of filters, versions, tombstones, termination |
| `users_faulty` | 2 users, 2 profiles, 2 addresses, 1 trouble | 2,103,014 | guarded removal, nothing unmanaged is touched |
| `files_faulty` | 2 IDs, 1 trouble | 806,247 | own files and reviewed bytes only |
| `files_extension` | 1 file, no trouble | | violated: a new extension never converges |
| `forms_faulty` | 3 IDs, 4 subtrees, 2 troubles | 498,376 | own subtrees only, the sentinel does no harm |

Deadlock is checked except for the transport, where every call returns and the
system really stops.

### Properties

- *Transport.* `NoOvertaking` (a write's own retry is never overtaken by an older copy,
  unless a gateway answered for that copy), `NoSpuriousFailure`, `EveryCallReturns`,
  `ImplementsRemoteCall`. `NeverReplayed`, `RefusalIsFinal` and
  `BudgetErrorUnreachable` are proved (section 4) and in no run; the first two also
  follow from the refinement.
- *State and portal.* `ForgottenOnlyWhenGone`, `IdentityKept`, `LetGoOnlyWhenDead`,
  `LetGoOnlyWhenGone`, and a part of `OwnSubtreesOnly`: state lets go of an object
  only when it is gone. `RefreshKeepsNewest`: a refresh never replaces what is known
  of a folder by something older. `NothingLostSilently`: a product created here is in
  state as long as no run failed. `EmptyPlanHidesNoDrift`: an empty plan is not an
  illusion of the sentinel -1, neither of a group's or a property's order nor of the
  options'.
- *Restraint.* `RemovalIsGuarded`: a membership ends only with a consent from an
  earlier run. `NothingElseTouched`, `OwnFilesReviewedBytes`, `OwnSubtreesOnly`: what
  is not managed, belongs to somebody else or was edited meanwhile stays as it is.
  `NothingElseTouched`, and that no Super Admin is removed, hold in undisturbed runs only:
  a foreign change between the last read and the request is not detected by the code.
- *Verification.* `SuccessIsVerified`: an apply without an error has done what it
  was asked to, whatever became of its requests. For properties the two claims
  `SettledPlanEmpty` and `EmptyPlanHidesNoDrift` together say so. `PatchOnlyLeaves`:
  a PATCH renames a folder that holds folders only if they came after the preflight and
  from somebody whom Terraform does not keep waiting (`strays`), which the code does not
  prevent; it is not limited to undisturbed runs.
- *Convergence.* `SecondPlanEmpty` (products), `SettledPlanEmpty` (properties, unless
  two of one group ask for the last place), `UndisturbedRunsSucceed` (forms).
- *Conversions.* `FiltersKeepMeaning` compares filters with a reference meaning, over
  all contacts that tell them apart; `HoursAreSets` compares the overlap check of
  neighbours with "no two intervals meet" and says that the sorted list does not
  depend on the order the author wrote. They are evaluated in states that the run
  starts from, as they depend on no variable.
- *Liveness.* `EveryCallReturns`, and `EveryRunEnds` for segments, whose polls are
  the longest.

`quiet` and `settled` say that nobody else changed the portal during the run, or
since the last successful one; `lagging`, that a read could return something from
before the run. These, `strays` and `stranded` are history variables: no action reads
them but to keep them.

### Fairness

`Transport`: each call's client steps and the refilling bucket are weakly fair:
goroutines are scheduled and timers fire. The service is not: it may never
answer, and the attempt's deadline (a step of the client) must suffice.
`Segments`: the handlers' steps (each call returns, by `EveryCallReturns`) and
Terraform's own progress. Nobody has to start a run, and HubSpot need not ever finish
processing a list. The other resource modules state no fairness; that their handlers
do not wait for each other for ever is the deadlock check's part.

## 3. What disagrees with the documentation

- `SecondPlanEmpty` (groups): two groups with the default order -1 never settle.
  The last one reads back as -1, the other with its number, so the next plan
  updates the other, which makes it the last. `docs/surfaces/crm-property-schema.md`
  promises an empty second plan. Properties of one group do the same.
- `ChangesAreVerified` (folders): `Read` compares `updatedAt` with the state,
  `Update` does not. When a folder was renamed by a task, is renamed back by a
  PATCH, and the PATCH is lost while reads still return the revision from before
  the task, the read-back finds the planned name and reports that the rename is
  proved. It takes a lag that lasts from one apply to the next.
- `NameIsMutable` (files): a PATCH sends the stem of the planned name only and HubSpot
  keeps the extension, so an update that changes the extension never reads back as
  planned and fails in every run. `file_resource.go:71` calls the name mutable
  presentation.

Met while modelling, without a run:

- A create conflict (409) whose response is lost looks like a lost success, and the
  read-back of groups and properties adopts somebody else's object if it
  matches. `docs/imports-and-drift.md` says this never happens.
- Two creates of one folder name in one place pass the collision check together, and
  the portal answers the second with the folder of the first.
  `docs/surfaces/files-configuration.md` says that create rejects collisions. The
  folder properties leave runs out in which addresses share a folder (`quiet` is
  false in them).
- `docs/surfaces/files-configuration.md` says of both file resources that a created
  asset that reads back differently is deleted; `Create` of a folder keeps it in state,
  tainted, for the next apply.
- `docs/destroy-semantics.md` says that a property leaves state once its archived
  state is confirmed; `Delete` also accepts that the archived view has nothing. The same
  holds of a form, for which it asks for the archived view as well.
- An update of class `explicit` that a gateway answered for (502, 504, 523, 524) is sent
  again while the first copy may still be carried out, so the retry may be overtaken.
  With the same request twice that matters only if somebody else writes in between.
- A folder that is put into another one after the preflight of its rename, by a person or
  by an address that names its parent by a literal ID, is renamed along by a PATCH.
  `docs/surfaces/files-configuration.md` says that a folder with folders is renamed by
  the asynchronous update.
- `propertyWritePayload` (`client.go:509`) means to leave absent fields out of the
  request, but compares typed nil pointers in interfaces with nil, so it sends them
  as null. The models send whole definitions.

## 4. What is proved

Each resource proof has the same plan: an inductive invariant `IInv` made of named
parts, a lemma per way a handler ends, a lemma per action, and theorems that follow
from `IInv` or, for a property of steps, from `IInv` and one step. All of them hold for
every value of the constants the module's `ASSUME` admits; the runs of section 2 check
the same formulas on an instance.

### `TransportAndPropertyProofs`, the transport

Proved for every set of calls, every `MaxAttempts` and `DefaultBurst` above 0 and every
set of advertised integers (`TransportAssumption`): all safety properties of `Transport`
and that it implements `RemoteCall`. Its state and its specification have names of their
own (`stage`, `DoInit`, `DoNext`, `DoSpec`, `TransportTypeOK`), so that the module can
stand beside that of a resource.

The inductive invariant `DoInv` is `TransportTypeOK` and, for each call, an account of
its copies: only attempts already sent are in flight or applied (`CopiesWereSent`); a
call of class `never` is at its first attempt (`CreateTriesOnce`); a write's older
copies are used up, except those that a gateway answered for (`WritesUsedUp`); a
sleeping call has an attempt left (`BudgetLeft`); a reply says what its copy did
(`ReplyTells`); and an outcome says what a reply or its absence said (`OutcomeTells`).
`NeverReplayed` alone is not inductive: it needs to know that the attempt of a create
never advances, which follows from the retry guards only together with what a reply
means. The proof has one lemma for the client's steps, which change one call, and one
for the service's, and frame facts for all other calls. The refinement maps each step
of the loop to `Report` or to a stutter, and each step of the service to `TakeEffect`
or to a stutter.

The statements about one variable at a time are not worth much alone; the ones that
carry weight are `NeverReplayed`, `RefusalIsFinal`, `NoOvertaking` and the refinement,
which is what the resource modules assume of a call.

### `TransportAndPropertyProofs`, the properties

From `PropertyAssumption`: `TypeOK`, `EmptyPlanHidesNoDrift` and `SettledPlanEmpty`, for
any number of properties whose handlers interleave. The assumption bounds the orders that
people write by `MaxOrder`, in configurations and in the portal, and says nothing of the
numbers that the portal gives out; that those stay below `MaxOrder + Cardinality(Values)`
is part of what is proved, and `TypeOK` is not inductive without it: a number goes from
the portal into state, from there into a plan and back into a request, and each request
may append again. `Numbers` bounds the order of an option by `MaxOrder` and the number of
options at or below it (`Dense`); `NumberedIsDense` says that appending keeps that,
`PreservedIsDense` that reading back and keeping some of the numbers does.

`EmptyPlanHidesNoDrift` and `SettledPlanEmpty` rest on `Places` (which handler stands
where), on what an undisturbed handler holds between two calls (`HandTells`), on what a
refresh (`RefreshTells`) or an apply (`ApplyTells`) has reached, and on what remains of a
run that succeeded (`SettledTells`). `Fits` is their common core: reading the property
again would give the same model again, its place among the neighbours included. A handler
of another property keeps `Fits` only if it does not ask for the last place in the same
group, which is why `SettledPlanEmpty` has the condition `Alone` and why section 3 has the
counterexample without it.

`OptionsReadBack`: for every option map, `Preserved` undoes `Numbered`. The orders
that the portal hands out for -1 grow with the option values and are above all others
(`RanksArePositive`, `RanksGrow`), so exactly they are recognised again.
`WritesPassVerification` carries this to the handlers: in every reachable state a write
that is carried out passes its own verification and puts the planned options into state.

### `PropertyGroupsProofs`

From `GroupAssumption`: `TypeOK`, `EmptyPlanHidesNoDrift`, `SuccessIsVerified` and
`ForgottenOnlyWhenGone`, for any number of groups whose handlers interleave. `Places`
says which handler stands where. `RefreshTells` is what makes an empty plan mean
something: in an undisturbed refresh, what a handler holds between its Get and its List
(`hand`) is still what the portal has, and a group that has been read fits its model,
the last place included. `ApplyTells` is the same for an apply: a verified group goes
on matching while its neighbours' handlers write, as each writes to its own name only
(`EffectIsLocal`). `LastIsGreatest` needs that orders are bounded, so that a portal with
infinitely many names would still have a last order.

### `ProductProofs`

From `ProductAssumption`: `TypeOK`, `NothingLostSilently`, `SuccessIsVerified`,
`SecondPlanEmpty` and `IdentityKept`. The lemmas about values come first: what Read
makes of a supported definition agrees with it (`ReadAgrees`); a definition that
matches a model is read back as exactly that model (`MatchingIsStable`), which is why
plans settle; and an empty patch means that the plan matches whatever the state
matched (`NothingToPatch`), which is why an update that sends nothing is a success.
`Observed` and `Achieved` carry these through an undisturbed run, `Stays` from one run
to the next, and `Accounted` follows every product created here from the answer that
brings its ID to the state file.

### `FormsProofs`

From `FormAssumption`: `TypeOK`, `SuccessIsVerified`, `UndisturbedRunsSucceed` and
`OwnSubtreesOnly`. `Standing` says where handlers stand, `InSync`
what a run that nobody else disturbed has reached: what was read or written is what the
portal has, and a request of this run that may still arrive does no harm, as it repeats
what the run has done. `Calm` is the same before the first trouble, when nothing has
failed and nothing is late. An ID is given out again only when nobody refers to it,
which keeps a late request from hitting somebody else's form.

### `FilesProofs`

From `FilesAssumption`: `TypeOK`, `SuccessIsVerified`, `LetGoOnlyWhenGone` and
`OwnFilesReviewedBytes`. The last one is a property of steps, which says nothing of a
request that is still on its way; `Owned` makes it inductive: whatever state or a late
request refers to, and is active, was uploaded or imported here. An upload takes an ID
nobody refers to, so ownership is never taken over by reuse. `InSync` follows an
undisturbed run; it leaves the folder out of what reads tell (`Told`) as long as a move
may lag, and puts it back where `SuccessIsVerified` asks for it.

### `SegmentsProofs`

From `SegmentAssumption`: `TypeOK`, `FiltersKeepMeaning`, `SuccessIsVerified` and
`LetGoOnlyWhenDead`, and two statements about the filter conversion that the runs only
sample: any finite set of nonempty finite groups survives the way to the wire and back
(`GroupsSurvive`), and any tree that is not refused selects exactly the contacts that
the groups it is read as select (`TreeReadAsMeant`). They need that a set is laid out
in a sequence without loss (`LaidOut`) and that two operators never share a word
(`WordsDiffer`). In the invariant, `Portal` bounds the versions that reads may return
and `InSync` has a named part per stage of an update; `Awaited` is the one that is hard
to find: while the read-back waits, an older version that reads may still return is one
it does not accept (`Outdated`), or has no more to show than the list (`Overtaken`).

### `UsersProofs`

From `UsersAssumption`: `TypeOK`, `SuccessIsVerified`, `RemovalIsGuarded`,
`NothingElseTouched` and `HoursAreSets`, for the membership and the profile together, in
the order Terraform runs them (`Orderly`, `Prepared`). `Consented` is the part that
removal needs: a permission in state comes from an earlier run, or from this one, which
then removes nothing any more; and a late removal is one that was permitted when it was
sent (`RequestsValid`). `MemberInSync` and `ProfileInSync` say what an undisturbed run may
rely on at each stage; that no role or team is taken away needs that a member who had none
when `Update` looked still has none when the rename is sent.

The last part is about `WorkingHours`, from `HoursAssumption`: any intervals, on any days,
and lists of any length up to any `Most`. `OverlapsAlwaysFound`: the code compares only
neighbours in the order of their starts, and still refuses a list exactly when two
intervals on some common day share a minute. As every interval ends after it begins, each
begins after the ends of all before it as soon as it begins after the end of its neighbour
(`NeighboursSuffice`, by the least counterexample); `SomeTurn` says that there is such an
order, without which the comparison would be of nothing. `OrderNeverMatters`: a list that
passes has one sorted form, the same for every order of its intervals, although
`sort.Slice` is not stable: intervals for the same word of `Words` share a day, so their
starts differ and no two are equals to the comparison. `OrderHasListing` and
`ListingIsUnique` say this of any finite set and any strict total order. It is what
justifies that `Users` keeps hours as sets.

### `FileFoldersProofs`

From `FolderAssumption`: `TypeOK`, `SuccessIsVerified`, `IdentityKept`,
`RefreshKeepsNewest` and `PatchOnlyLeaves`, for any number of folders in each other
whose handlers interleave. `StepKeeps` is the lemma that carries the interleaving: what
one handler may touch (`Touches`, `Moves`) disturbs none of the others. It rests on
`Settled`, that the folder around one that is created or changed exists, is not
replaced and waits for it, and on `Alone`, that no two addresses refer to the same
folder, a folder just created included. `Leaves` is `PatchOnlyLeaves` from the preflight
on: the folders in one that is about to be renamed by a PATCH are strays. Whoever puts a
folder somewhere either waits for the handler that renames there, or is marked
(`OnlyStraysArrive`, `MarksDo`): a create and a move under a reference wait, updates take
turns on the mutex, and a PATCH moves nothing. The assumption that a configuration's
references resolve is Terraform's own check; without it `Parent` would have no meaning.
`ChangesAreVerified` is not a theorem: section 3 has its counterexample.

### What is only model-checked

- Liveness (`EveryCallReturns`, `EveryRunEnds`) and the absence of deadlocks: fairness
  and ENABLED are out of the prover's reach.
- The three runs that end in a violation refute a claim, so there is nothing to prove.

Every invariant and every action property of the other runs is a theorem.

## 5. Plan

Done: `RemoteCall` and `Transport`, a module for every registered resource, and proofs
about all of them. Next, most important first:

1. `Lifecycle`: what every resource promises about state and portal, as an abstract
   specification that `PropertyGroups`, `Properties` and `Forms` implement.
2. `Pipeline` and `CustomSchema`: archived markers and restore. They are not
   registered with the provider, so nothing reaches them yet.
3. `RetryDelay`: the timing of retries with Retry-After, 423 and jitter.
4. `Northstar`: the phases of the lifecycle command and what its cleanup finds.

## 6. What is not modelled, and why

`PROJECT.json` lists every component. Not planned: the documentation portal and
the provenance checks (one pass over files, no state), the acceptance harness with
its guards and probes (test code that drives the real binary), the provider's
configuration, state upgraders and data source (one read or copy), schemas and
validators as such (they restrict inputs, which the instances respect; the validators
of working hours and of filters are modelled).
Assumed by the resource modules, but neither by `Transport` nor by `RemoteCall`: a call
that ended with a status has no effect after that, although a gateway's status may come
first. A request that arrives after its caller has stopped waiting is in each of them for
calls without an answer, and for handlers that were killed where `Crash` leaves some.
Assumed of HubSpot: a product is readable by its ID as soon as the create was
answered; names of groups and properties and generated IDs are exact keys; a status
that stands for "not done" (409, 423, 429, 477, other 4xx) is never sent after doing.
