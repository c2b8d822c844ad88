# NetDeploy: specifications, checks and proofs

NetDeploy pushes routing configurations to network devices. A FastAPI service
stores devices, configurations and deployments in PostgreSQL, a Celery worker
carries deployments out over SSH, and a Streamlit dashboard drives the service.
This directory holds TLA+ modules for the parts of it where order, failure and
concurrency decide correctness, the TLC configurations that check them on small
instances, and TLAPS proofs of what matters most.

Line numbers are those of the repository this directory belongs to.

## 1. Inventory

| Component | State it keeps | Operations | Talks to |
|---|---|---|---|
| Deployment orchestrator (`core/orchestrator.py`) | none of its own; the attempt's SQLAlchemy session | `deploy` (canary, rolling, atomic), `_deploy_to_device`, `_health_check`, `_rollback_device`, `_rollback_all` | SSH session, snapshot manager, verifier, builder, tables |
| Deployment tasks (`tasks/deployment.py`, `tasks/celery_app.py`) | the Celery message: arguments and number of retries | `validate_and_deploy_task`, `_run_with_db`, `_finalize_batch_status`; `deploy_to_device`, `rollback_device`; stubs `sync_device_state`, `check_deployment_health` | orchestrator, tables, broker |
| Snapshot manager (`core/snapshot_manager.py`) | rows of `config_snapshots` | `save_snapshot`, `capture_running_config`, `restore_snapshot`, `diff_snapshots` | SSH session, tables |
| SSH session (`core/ssh_handler.py`) | one netmiko connection | `connect`, `send_command`, `send_config_set`, `get_running_config`, `disconnect` | devices, in a thread pool |
| State verifier (`core/state_verifier.py`) | none | `verify_all`: BGP neighbours, OSPF adjacencies, their parsers; `verify_reachability` (no caller) | SSH session |
| Command builder (`core/command_builder.py`) | none | `build` and `build_rollback` for five vendors | - |
| Validator (`core/validator.py`, `tasks/validation.py`, `api/config_schemas.py`) | none | BGP, OSPF, prefix and policy rules; a typed schema that restates some of them; validation tasks | validation routes, audit table |
| Deployment and configuration routes (`api/routes/deployments.py`, `configs.py`, `api/deployment_helpers.py`) | rows of `deployments`, `configurations` | trigger, list, batch, rollback; store, validate, diff, history | tables, broker |
| Device routes (`api/routes/devices.py`) | rows of `devices` | create, update, delete, health | tables |
| Rate limiter (`api/middleware/rate_limiter.py`) | one Redis sorted set per address and path | `dispatch`, `_sliding_window_check` | Redis |
| Data model (`api/models.py`, `api/database.py`) | the schema, the connection pool | sessions | PostgreSQL |
| Dashboard (`dashboard/views/deployments.py`, `dashboard/utils/api_client.py`) | per browser session: what is selected, what the page shows | the trigger form; pages that show what the API returns | the API, through the rate limiter, with a timeout |
| Authentication, audit routes, metrics, security headers, scripts, manifests | none that matters here | - | - |
| Git repository (`core/git_handler.py`) | a clone | commit, read, diff | called by nothing |

How they interact. A trigger route checks that the devices exist and have a
configuration, commits one QUEUED row of `deployments` per device id, and only
then puts `validate_and_deploy_task` on the broker. A worker process takes the
message, opens one session and one event loop, and runs the strategy; each
device is one coroutine `_deploy_to_device`, which claims its row, connects,
saves the BEFORE snapshot, pushes, verifies, saves the AFTER snapshot, sets the
row and writes the audit log. The task then closes what is still QUEUED, and the
message is acknowledged (`task_acks_late`). Validation is a service of its own:
the routes and tasks that validate answer and store nothing, and neither storing
nor deploying a configuration asks them. In front of every route stands the rate
limiter, a sorted set in Redis that all replicas share. The dashboard is a client
like any other, at one address: its trigger form asks for the list of devices,
then for the history of every device picked, stores a default configuration for
those that seem to have none, and then triggers.

What is hard in it:

* **One session for many coroutines.** A flush or commit that fails leaves the
  session unusable until `rollback()`, which nothing calls. So an error in one
  coroutine fails every later database call of *all* coroutines of the attempt,
  one that is in the middle of an apply included.
* **Swallowed errors.** `save_snapshot` returns `None` when it fails and
  `_deploy_to_device` does not look at it.
* **Separate commits** for facts that belong together: row and audit entry,
  BEFORE snapshot and push.
* **Whole-batch reruns.** A retry or a redelivery runs the complete batch again,
  over rows and devices in any state the earlier attempt left them in.
* **Mixed outcomes** of `gather(return_exceptions=True)`: results, failures and
  exceptions in one list.
* **No identity of coroutines and rows**: `device_ids` may repeat a device, and
  the row is picked with `.first()` and no `ORDER BY`.
* **No owner of a device**: deployments of one device overlap, and after the
  broker's visibility timeout two workers run one message. BEFORE and AFTER are
  separate rows, ordered by a time stamp that is taken before the commit.
* **A True that says little**: refusals are found by words in the output, which
  may miss them, so a push that returns True may have left a device with some of
  its lines, or none; what was taken may wait for a commit that nobody sends.
* **Commands that merge**: five dialects, each with its own knobs, over what
  earlier deployments left; new settings reset sessions.
* **One rule in two places**: validator and typed schema bound the same numbers;
  the builder and the device have bounds of their own. `desired_state` is
  `Dict[str, Any]`: numbers come as numbers or as texts, which the rules compare
  as texts and the schema reads as numbers, and prefixes in any notation.
* **Errors that look like answers**: the client makes `[]` of every error, so a
  refused or timed-out question for the history reads as "no configuration", and
  one for the list of devices swallows the click.
* **Late and concurrent calls**: a call the client gave up may be served later;
  readings of several clocks reach Redis out of order.

What makes each component correct: the orchestrator and the task must never
touch a device without a stored backup that predates the change, keep the
strategy's order, report SUCCESS only for what was verified, record what they
undo, and always come to an end; snapshots must let a restore bring back what
was there; routes must not leave rows that nobody will work on; the rules must hold
of a whole configuration and agree with the schema, the builder and the device;
commands must say what is desired and reset nothing else; a verified device must
have the peers it was verified for; the limiter must admit no more than its
limit in any window, however requests race; the form must not trigger for a
device without configuration, and what it shows must be true.
`PROJECT.json` lists the hazards line by line with the properties that cover
them, and the few that no property covers, with the reason.

## 2. Modules

| Module | What it is |
|---|---|
| `BatchPromise` | the abstract specification: rows, snapshots and devices of one batch, nothing of how the work is done |
| `BatchDeploy` | the code: one message of `validate_and_deploy_task`, the orchestrator it runs, its coroutines, session, faults, retries and crashes; the properties; the inductive invariant |
| `MCBatchDeploy` | model values and requests for TLC |
| `BatchDeployProofs` | the theorems about `BatchDeploy`: its safety, and what it implements |
| `BatchEndsProofs` | the theorems about its end: it is never stuck, and its steps run out |
| `Trigger` | the routes that start deployments and roll them back, the device and configuration rows they depend on, the broker, and the worker as far as these tables see it; its properties and inductive invariant |
| `MCTrigger`, `TriggerProofs` | its model values, its theorems |
| `Snapshots` | the snapshot rows of one device under overlapping deployments and workers, and the restore that reads them |
| `MCSnapshots`, `SnapshotsProofs` | its model values, its theorems |
| `ConfigRules` | the validator's rules and the typed schema, as operators |
| `VendorCommands` | what `build` yields on each vendor (extends `ConfigRules`) |
| `ConfigPipeline` | a configuration from the validation routes through storing, building, pushing and verifying, with the device (extends `VendorCommands`) |
| `MCConfigPipeline` | its drafts and requests |
| `ConfigPipelineProofs` | its theorems: rules, schema, commands, the verifier's verdict |
| `ListFacts` | lemmas that several proofs rest on: least numbers, joined and flattened lists, the list of a finite set |
| `RateLimiter` | the sliding window over Redis; also the abstract specification of what `Dashboard` composes with the form |
| `MCRateLimiter`, `RateLimiterProofs` | its model values, its theorems |
| `Dashboard` | the trigger form, its client and the API it calls, through `RateLimiter` |
| `MCDashboard`, `DashboardProofs` | its model values, its theorems |

### BatchDeploy and the code

| Variable | Stands for |
|---|---|
| `strategy`, `dryRun`, `configured` | task argument; `settings.DEPLOY_DRY_RUN`; devices for which `_get_desired_config` finds something |
| `job`, `tries`, `result` | where the message and the attempt stand; `self.request.retries`; the `"status"` the orchestrator returned |
| `pc[i]`, `rowOf[i]` | program counter of the coroutine of `device_ids[i]`, and `deployment_id` in it |
| `session` | the attempt's session: `"ok"`, or `"bad"` after a failed flush or commit |
| `row[r]`, `backup[r]`, `after`, `audit` | `deployments.status`; `config_before` of the row's earliest snapshot; rows with a `config_after`; entries of `audit_logs` |
| `running[d]` | what device d runs: its old configuration, a part of the new one, or all of it |
| `verified` | history: devices that passed verification after a push that returned True |
| `faults`, `crashes` | failed database calls, crashes after which the message was redelivered, for the bounds |

An action is a stretch of code up to its next commit, or up to the SSH call it
then waits for:

| Code (`core/orchestrator.py` unless named) | Action |
|---|---|
| 390-398 find the row, set IN_PROGRESS | `Claim` |
| 400-423 load; no configuration: FAILED | `NoConfig` |
| 425-449 dry run | `DryRun`, then `AuditDeploy` |
| 451-465 log, start connecting | `Connect`; `Connected` when it returns True |
| 472-473 capture and BEFORE snapshot | `SaveBefore` |
| 476-479 build, start applying | `Build` |
| the device, while `send_config_set` runs | `DeviceTakes` (external) |
| 479-484 apply returned True: no refusal was noticed, whatever the device took | `Applied` |
| 484-487 verification passed | `Verified` |
| 490-491, 492, 493 | `SaveAfter`, `RecordSuccess`, `AuditDeploy` |
| an SSH call or the verification fails; a database call in the `try` raises | `SshFails`, `TryRaises` |
| 503-515 the `except` clause with `_rollback_device` (551-577) | `Undo`, `Mark` |
| a database call outside the `try`, or in the `except` clause, raises | `Raises` |
| 206-328 the strategies | `StartsFirst`, `StartRest`, `JudgeCanary`, `JudgeRolling`, `JudgeAtomic`, `RollBackNext` |
| `tasks/deployment.py` 39-71, 74-111 | `Begin`, `Sweep`, `AttemptRaises`, `Ack` |
| a killed worker, `task_acks_late` | `Crash` |

Interleaving. Coroutines switch only where an SSH call suspends them (the five
`Suspended` places); `gather` starts all its tasks, in order, before it resumes
any: `Runs` says both. `_health_check`, `save_snapshot` and `_rollback_device`
are `async` but never suspend, so `_rollback_all` runs its devices one after the
other. Commits inside a stretch are separate actions all the same, because a
crash can fall between them.

Faults. A database call may fail (`MaxFaults` times): a query that gets no
connection raises and leaves the session as it was, a flush or a commit that
fails leaves it bad. Objects expire at every commit, so `device.device_type` in
line 476 is a database call too: `TypeFetched`. It is the reason why a failed
BEFORE snapshot, although nobody looks at its outcome, does stop the deployment.
A crash kills the whole worker (the broker redelivers) or only the child process
that runs the task (Celery acknowledges the message as failed): `Crash` has both.

### BatchPromise

Eight kinds of steps on rows, snapshots and devices: `Claim`, `Backup`, `Push`,
`Verify`, `Capture`, `Succeed`, `GiveUp`, `Sweep`, and `Close`, after which
nothing changes. It says, for instance, that a device changes only under a claimed
row with a stored backup and with every device ahead of it at SUCCESS; that a row
says SUCCESS only of a device that was backed up, verified and captured; that the
first backup of a row is of an untouched device; that FAILED means nothing was
done. It does not promise what a verified device runs: the code does not know.
`BatchDeploy!KeepsPromise` is the refinement: position i stands for device
`Order[i]`, and the batch is closed when its message is gone. It needs a request
that names no device twice.

### Trigger and the code

| Variable | Stands for |
|---|---|
| `version[b]`, `targets[b]` | `config_version` and `device_ids` of request b |
| `device[d]`, `config[d][t]` | the row of `devices`; the row of `configurations` with `created_at` t, and whether its `desired_state` is empty |
| `handler[b]`, `seen[b][d]` | where the trigger handler stands; the configuration its check found |
| `row[b][d]`, `message[b]`, `undo[b][d]` | `deployments.status`; the message of `validate_and_deploy_task`; waiting messages of `rollback_device` |
| `at[b][d]`, `loaded[b][d]`, `returns[b]` | the attempt's place at d; the configuration it loaded, or that a row at SUCCESS stands for; how often the message of b came back |

| Code | Action |
|---|---|
| `api/routes/devices.py` 16-54, 100-111 | `CreateDevice`, `DeleteDevice` |
| `api/routes/configs.py` 337-362 | `CreateConfig` |
| `api/routes/deployments.py` 31-34, 36-48, `configs.py` 202-220 | `CheckDevices`, `CheckConfigs` |
| `deployments.py` 51-57, 58-64, 65-73 | `CreateRows`, `Enqueue`, `Accept`; `HandlerFails` in between |
| `tasks/deployment.py` 74-111, 39-71 | `Take`, `BreakOff`, `Close` |
| `task_acks_late` (`tasks/celery_app.py` 20) | `Ack`; `BreakOff` until then |
| `core/orchestrator.py` 390-398, 400-423 | `Claim`, `Load`, `NoConfig` |
| `core/orchestrator.py` 425-449; 451-492; 503-515 | `Rehearse`; `Succeed`; `Fail` |
| an exception that `gather` collects | `Die` |
| `deployments.py` 122-158, `tasks/deployment.py` 140-161 | `RequestUndo`, `Undo` |

`Trigger` takes from `BatchDeploy` the shape of an attempt: rows are claimed, end
as SUCCESS, ROLLBACK or FAILED, or are left by a coroutine that died; a batch is
closed when nothing runs, and a row not started has another one that failed;
between the sweep and the acknowledgement a crash sends the message back once
more. Everything finer is `BatchDeploy`'s. That the two fit is a property,
`BatchDeploy!WorkerAsSeen`, checked and proved: `Routes` is `Trigger` with what
the batch shows of itself (`MessageSeen`, `AtSeen`, `LoadedSeen`), and every step
of the batch is a step of `Routes!Worker` or invisible to it.
A handler never awaits, so within one
replica it runs in one piece; several replicas interleave (the manifests run
three), which is why the checks, the rows and the message are separate actions.
`created_at` is stamped by the replica's clock before the commit, so
`CreateConfig` may store a configuration that is older than one already there.
Deleting a device that has rows fails: SQLAlchemy would set `device_id` to null,
which the schema forbids.

### Snapshots and the code

One device. A *deployment* is a row of `deployments`, an *attempt* one worker's
run of it; there may be several attempts of one deployment at once.

| Variable | Stands for |
|---|---|
| `running` | the device's configuration: for each key a value, or no line |
| `at[a]`, `held[a]` | where attempt a stands; the `ConfigSnapshot` object it has in hand |
| `rows`, `clock` | table `config_snapshots`; `datetime.utcnow()` |
| `restore`, `restores` | the row a `restore_snapshot` works from; calls so far |
| `taken[k]`, `disturbed` | ghosts: the keys of deployment k's lines that the device has taken (a row keeps what they were when it was read); deployments since whose begin somebody else changed the device |
| `faults` | how much has gone wrong, for the bound |

| Code (`core/snapshot_manager.py` unless named) | Action |
|---|---|
| 225-242 read the configuration, or `None`, of which `{}` is made | `CaptureBefore`, `CaptureAfter` |
| 85-92 the row with its `applied_at` | `Stamp` |
| 93-97; 98-100 an error that is swallowed | `Commit`; `CommitFails` |
| the device, while `send_config_set` runs | `DeviceTakes` (external): a line, one after another, of which it may refuse any |
| `core/orchestrator.py` 475-481, `core/ssh_handler.py` 119-130 | `Push`: True, of whatever was taken, or the end of the attempt |
| `core/orchestrator.py` 483-487 | `VerifyFails` |
| 127-149 the earliest row with a usable `config_before` | `FindRow` |
| 150-178 its lines sent one after the other | `Replay`, of all lines, some or none |

A failed commit ends the attempt: that is what `BatchDeploy` shows of it
(`TypeFetched`), so here it is one step. Stamping and committing are two, because
two workers' rows may be committed in the other order. Lines sent merge with what
is there. The workers' clocks are taken to agree.

### ConfigRules, VendorCommands, ConfigPipeline and the code

`ConfigRules` has an operator for every rule of `core/validator.py` (`AsnErrors`,
`TimerErrors`, `AreaIdErrors`, ...), for each of its passes (`BgpErrors`,
`OspfErrors`, `PolicyErrors`, `AllCidrErrors`, the warnings) and for each class of
`api/config_schemas.py` (`SchemaTakesNeighbor`, ...). A configuration is a record
of sections; a section is absent, null or a record with *sequences* of neighbours,
policies, networks and areas, since repeats and order matter to the rules.
Addresses are texts of which only the class matters (no address, loopback,
reserved, `0.0.0.0`). Nothing types a `desired_state`: a number is `<<"int", n>>`, the
text of one `<<"text", n>>`, any other text `<<"word", w>>`, an area id also
`<<"dotted", n>>`. So the validator's `isinstance(asn, int)` faults a text, timers of
two texts are compared as texts (`TextBelow`) and those of two kinds raise
(`KindsMix`). A prefix is `<<notation, network>>`: as devices write it (`cidr`), with
host bits, with a mask, without a length, or `bad`, which alone Python refuses.
`Read` is what pydantic makes of a configuration the schema takes: numbers of
texts, area ids as texts, prefixes of policies in one notation.

`VendorCommands` has an operator for every function of `core/command_builder.py`
(`XrBgp`, `IosBgp`, `JunosBgp`, `EosBgp`, and the same for OSPF) that gives the
sequence of commands it emits, a command being the key it sets and the value.
Which knobs a vendor's function knows, that JunOS groups neighbours by whether
their AS number is the local one and writes plain area ids as `0.0.0.n`, that IOS
alone parses prefixes (`NormalNets`; it may raise) and the others send them as
written, that Nokia gets a comment, is all there.

| Variable of `ConfigPipeline` | Stands for |
|---|---|
| `type` | `devices.device_type` |
| `asked` | a question to the validation routes, with the answers |
| `stored`, `deployed`, `phase` | the newest row of `configurations`; what the last deployment read of it; how far it is |
| `run`, `up`, `full` | the device: its settings, its established BGP sessions, an OSPF adjacency |

| Code | Action |
|---|---|
| `api/routes/configs.py` 39-125 | `Ask`, with `Answer`, `BatchAnswers` |
| `configs.py` 337-362, `api/schemas.py` 69-88 | `Store`, with `Coerced` |
| `core/orchestrator.py` 400-473 | `Start` |
| `core/orchestrator.py` 475-481, `core/ssh_handler.py` 101-130 | `Push`, with `PushOutcomes` |
| `core/state_verifier.py` 48-263 | `Verify`, with `Verified`, `Established` |
| the routing sessions of the device | `Flap` (external), `Apply` |

The device is external: lines without an operand, or with one it cannot read, are
refused, and on vendors with stanzas the rest of the stanza with them; which
notations of a prefix it reads is the constant `DeviceNotations`. The code notices
a refusal or not; the connection may break after any line; on `NeedsCommit` types
nothing takes effect. A session is made with the local and the remote AS number,
the router id, the shutdown knob and the password, on JunOS with the group
(`Session`), and is reset when any of them changes; a password that is sent again
may be another one. An adjacency is reset by the process, the router id and the
area types.

### RateLimiter, Dashboard and the code

| Variable | Stands for |
|---|---|
| `now` | the time |
| `window[k]`, `expiry[k]` | the sorted set under a key (address and path), when Redis drops it |
| `admitted[k][t]` | ghost: the readings of the requests the check let through, by tier |

`Admit`, `Refuse` and `FailOpen` are the outcomes of `dispatch`
(`api/middleware/rate_limiter.py` 128-196); each is one Redis transaction
(`Count`), whose reading of a replica's clock is up to `Lag` old. A member of the
set is a reading, as in the code: two requests of one reading are one member.

| Variable of `Dashboard` | Stands for |
|---|---|
| `call[s]`, `device[s]`, `answer[s]` | the call the script of session s is at, about which device, and the API's answer to it |
| `picked[s]`, `todo[s]`, `clicks[s]`, `shown[s]` | the devices selected, those the loop has yet to see to, clicks, what the page says |
| `late` | calls the client gave up and the API may yet serve |
| `configs[d]`, `batches` | rows of `configurations` in order; deployments queued |
| `doubt` | ghost: devices a script went on about without a valid answer for their history |

| Code | Action |
|---|---|
| `dashboard/views/deployments.py` 33, 141-184 a click on the button: the script runs again from its top, where it asks for the list of devices | `Deploy` |
| `deployments.py` 33, 137-139, `api_client.py` 44-52: `[]` of any error of the list of devices, and the page ends before the button is read | `AfterDevices` |
| `api/routes/configs.py` 282-309, 337-362, 182-246 behind the limiter | `Answer`, `ServeLate` (`Serve`, `Handle`) |
| `deployments.py` 183-211 with the client's methods (`api_client.py` 227-255, 295-353) | `Hear` (`AfterDevices`, `AfterHistory`, `AfterCreate`, `AfterTrigger`) |
| the client's timeout (`api_client.py` 23) | `GiveUp`; what may still be served is `Late` |
| `configs.py` 337-362 by another user | `Save` |
| the page drawn again (`deployments.py` 144-155) | `Other` |

`Dashboard` extends `RateLimiter` and its calls for the history are the limiter's
steps, so that `LimiterSpec` is an abstract specification it implements
(`DashboardProofs!IsLimited`).

## 3. Runs

| Run | Instance | What it asks |
|---|---|---|
| `batch_fault_free` | 3 devices (one that needs a commit), no faults | liveness `EveryRowSettles`, with a third device behind a failing one |
| `batch_faults` | 2 devices, 2 faults, 1 retry, 1 crash | the safety properties, `ReopenedOnlyByRerun`, the refinements `KeepsPromise` and `WorkerAsSeen` |
| `batch_repeats` | one device named twice, 1 fault, 1 crash with a redelivery | what must hold without distinct devices; `NeverStuck`, `StepsRunOut` and liveness `BatchSettles` |
| `atomic_restores` | 2 devices | violated, see below |
| `settled_when_done` | 2 devices, 1 fault | violated, see below |
| `success_is_running` | 2 devices, both of which need a commit | violated, see below |
| `trigger` | 1 request, 2 devices, 2 instants, 1 return of the message, 1 waiting rollback per row | the properties of `Trigger` |
| `config_pipeline` | five device types, about 1,350 drafts, 8 request bodies, 3 deployments | the properties of `ConfigPipeline` |
| `only_valid_is_pushed` | IOS, the same requests, 2 deployments | violated, see below |
| `snapshots` | 2 deployments, one of them run by 2 workers, 1 fault, 1 restore | the properties of `Snapshots` |
| `dashboard` | 1 session, 2 clicks, 2 devices, 1 configuration from elsewhere, 1 fault, 1 call in a window of 2 instants | the properties of `Dashboard` |
| `rate_limiter` | 2 paths, one of them strict, limits 2 and 1, a window of 3 instants, readings up to 1 late, 6 instants | `WindowBound` |

All strategies, dry runs, all sets of configured devices and all outcomes of the
SSH calls are in every run of `BatchDeploy`; all versions and sets of targets in
those of `Trigger`. Deadlock is not checked: a batch really ends.

Why the bounds are enough to meet the interesting cases: two coroutines are
enough for one to spoil the session of the other in any of its places; three
devices are the least for which canary starts more than one coroutine after the
first and for which rolling has a device behind a failing one; with a retry and a
crash (`batch_faults`) there are up to three attempts, so rows are met in every status
an attempt can leave; the second fault lets the rerun fail as well. The rerun of
`batch_repeats` is the redelivery's; `StepsDoRunOut` and `NeverGetsStuck` are proved
for any number of both. In `trigger` two devices are the
least of which one is left out after the other failed; two instants give an
older and a newer configuration, in either order; one return of the message a
rerun over rows in every status, and coroutines may die in every attempt. Requests share nothing but the device and configuration rows,
which every request finds changing under it anyway, so one is enough.

In `config_pipeline` the drafts vary one part of a configuration at a time, as
lists of every order: two neighbours of every kind, so that a repeat, and the
boundaries of AS numbers (none, 0, 1, one above the largest, a text) and timers (hold
equal to, below and 0 against three keepalives, as numbers, as texts and mixed), meet
in both positions; three policies, the least for which the rules' "last seen" differs
from "any seen"; two areas in every notation; networks in every notation. Numbers
are scaled down with their bounds (`MaxAsn`, `MaxArea`, `MaxShort`, `MaxOctet`), which
the rules only compare; texts have one digit (`MCTextBelow`). The devices read `cidr`
alone. The bodies stored differ in AS numbers, router id, knobs and notation, so that
a redeployment resets sessions for every reason there is. Three deployments let a
faulty or partial one fall between two others. The address `a` is contained in the
text of `b`.

In `snapshots` one key is enough, because keys do not depend on each
other; three attempts, because a repeated deployment needs two and another
deployment one; the fault can be an unread configuration, a lost commit or a
noticed refusal. In `dashboard` the limit is one call in two instants, so that the
form's second call, or a redraw, reaches it; two devices let the loop go on after
one that failed. Its `StrictKey` is empty and its `Lag` 0: what late and out-of-order
readings do to the limiter is asked in `rate_limiter`, where six instants are two
windows, so that readings are trimmed while late ones come in, and where the bound
over a whole window, without subtracting the lag, does not hold. The theorems remove
the bounds for the safety properties they state.

The properties:

* `StagedRollout`: no device is touched before those the strategy puts ahead of
  it were sent their configuration with no refusal noticed and have passed
  verification.
* `BackupPredatesPush`: no device is changed before a snapshot that predates the
  change is stored. That snapshot may be `{}`, when the running configuration
  could not be read.
* `SuccessIsVerified`: SUCCESS of a row, in whatever attempt, stands for a device
  that was backed up, verified after a push with no refusal noticed, and captured.
  It does not say how many of the lines the device took.
* `VerdictMatchesRows`: a task that returns SUCCESS leaves SUCCESS in every row.
* `RollbackIsAudited`: ROLLBACK of a device that was worked on is in the audit log.
* `ReopenedOnlyByRerun`: a terminal status changes only when a rerun claims the row.
* `KeepsPromise`: the batch implements `BatchPromise`.
* `WorkerAsSeen`: it implements the worker of `Trigger`, whose invariant holds of it.
* `NeverStuck`: a batch that has not ended can go on, after every failure: a
  coroutine that is not done is not waited for in vain, and when all are done the
  strategy has a next step.
* `StepsRunOut`: with every step the message comes back, as often as retries and
  redeliveries allow, or fewer steps of the attempt are left (`StepsLeft`).
* `BatchSettles`, `EveryRowSettles`: liveness.
* `NoRowIsLost`: a row that has not ended has somebody in hand of it: a QUEUED one
  a message, or a client who was told of an error; an IN_PROGRESS one a coroutine,
  unless that died, the attempts failed or the message came back.
* `DeployedIsFresh`: what a row at SUCCESS stands for, of whichever attempt, is not
  older than what the trigger checked, and not empty.
* `UndoMeetsEnded`: a manual rollback finds its device, and an ended row until
  the message of the batch comes back.
* `AcceptedSettles`: liveness of a request answered with 202.
* `EarliestIsPreImage`: the earliest row of a deployment, which `restore_snapshot`
  and `diff_snapshots` read, was read before the device took any of its lines,
  whatever attempts overlap, repeat or break off.
* `RowsTellChange`: where nobody else changed the device, the earliest row and any
  AFTER row of a deployment differ by exactly those of its lines that the device had
  taken by then, unnoticed refusals or not.
* `RestoreUndoesOwn`: a restore leaves other than before only keys the deployment
  sets (those that had no line before stay, as nothing negates them).
* `ValidIsSound`: what the rules find valid has, over its whole lists, no two
  neighbours of one address, no prefix (as written) both permitted and denied, no AS
  number out of range and, where both are numbers, no hold time under three
  keepalives.
* `SchemaAgrees`: what the typed schema has read of a configuration it takes, the
  rules can judge without raising, and fault only for kinds of addresses, repeats,
  clashes and area ids.
* `VettedIsTaken`: what both take can be built and is refused by no device: on IOS in
  any notation Python reads, elsewhere if prefixes are written as devices write them
  (`Fits`; on JunOS also no plain area number above 255).
* `BuildSaysDesired`: its commands, taken together, say what is desired and nothing
  that contradicts it, on every vendor, as far as the vendor's function goes; areas
  that are one number in two notations are excepted, because the rules let them
  pass and the device merges them.
* `SuccessTakes`: SUCCESS of such a configuration, where no commit is needed, means
  that all of it runs.
* `VerifiedIsPeered`: SUCCESS of any configuration means that each neighbour is a
  peer and not shut down, or is taken for one whose address contains its own.
* `CutsOnlyChanged`: a deployment resets no session but of neighbours its
  configuration says something new of (another AS number, on JunOS another group, a
  shutdown, a password), or all if it has another AS number or router id for the
  device; wherever it breaks off and whatever is refused.
* `WindowBound`: in no stretch of the window less the lag are more readings of a
  tier let through than its limit.
* `DefaultsComeFirst`: the form stores its default behind another configuration
  only where its question was not answered, or was overtaken.
* `FormConfiguresAll`: when the form triggers, every device picked has a
  configuration.
* `ShownIsTrue`: a batch shown as queued exists; one the form stopped before, or
  swallowed for want of a list of devices, does not, and no late call makes it.
  "Failed to trigger" is not in it: after a timeout the batch may be queued.
* `ClickAnswered`: liveness of a click: the page shows something in the end, and once
  its button was read that is "unsaved", "queued" or "rejected". The click whose list
  of devices fails is answered with "No devices registered", which is all it gets.

Each comes with a `Wrong_` variant of a definition, a plausible bug that makes it
fail: a cached device type, a canary that counts as passed when it merely ended,
a snapshot error that leaves a usable session, a sweep that does not look at the
status, a restore from the latest row, a limiter that counts before it adds, a
form that goes on after a configuration was not saved, and so on.

What the code does not do, although the repository says it does:

* `AtomicRestoresDevices` ("full rollback if any fail", README): rolling back
  writes an audit entry and restores nothing.
* `SettledWhenDone` (the status lifecycle in ARCHITECTURE.md): an exception
  counted by `gather` leaves its row IN_PROGRESS, and the sweep closes only QUEUED.
* `SuccessIsRunning` ("Commit (JunOS requires explicit commit)",
  `core/ssh_handler.py`): nothing commits.
* `OnlyValidIsPushed` ("validate → version → deploy", README): nothing on the way
  from storing to pushing calls the validator.

Met while modelling, and part of the models, without a property of their own: a
stored version other than latest passes the trigger's check ("Git commit hash or
'latest'", `api/schemas.py`), and the worker has no lookup for it (`core/orchestrator.py`
78), so that every row of the batch ends FAILED; `1`, `'1'` and `0.0.0.1` are three
areas to the validator and one to the device, and permit 10.0.0.0/8 beside deny
10.0.0.1/8 is no clash to it; timers given as texts are compared as texts, and `'10'`
with `'20'` passes; a hold time of 0 is valid to the rules and not to the schema; an AS
number in a text is valid to the schema and not to the rules; a prefix with host bits
or without a length is valid and goes to XR, EOS and JunOS as written; knobs that a
redeployment
no longer names are not negated; `shutdown` is not emitted on JunOS and EOS; the
validation tasks are not in the worker's `include` list, so a message for them is
never run; the trigger form's docstring says the button is disabled while a
deployment is active, and it is not; a device whose newest configuration is `{}`
cannot be deployed from the form, which sees a history and stores no default; a click
whose list of devices fails or is limited is swallowed with "No devices registered".

**Fairness.** Liveness is checked under `WF_vars(Worker)`: the worker process
does something as long as it can. The code justifies no more and needs no more:
SSH calls have timeouts and return, a queued message is taken by some worker, a
retry's countdown passes. `Crash` is not under fairness, and weak fairness of
`Worker` as a whole does not promise that a given coroutine wins; the properties
hold because every attempt has finitely many steps and attempts are bounded by
`max_retries` and, for crashes, by `MaxCrashes` (without that bound a worker
that dies in every attempt would keep a batch going for ever); section 4 proves
both halves of this, `StepsRunOut` and `NeverStuck`, for any bounds. `Trigger` assumes
the same of the worker of each batch and nothing of handlers, clients and
rollbacks. `Dashboard` assumes `WF_vars(Answer(s) \/ Hear(s))` for every session:
the script is one thread that waits for its call, which the API answers or the
client gives up, and goes on; redraws, other users, late calls and time are under
no fairness. `ClickAnswered` holds because the loop sees to every device once.
`Snapshots`, `ConfigPipeline` and `RateLimiter` state safety only.

## 4. Proofs

`BatchDeployProofs` proves, for every sequence of devices, every mix of
platforms and all bounds on retries, faults and crashes:

| Theorem | States |
|---|---|
| `TypeCorrect` | `Spec => []TypeOK` |
| `Invariance` | `Spec => []Inv` |
| `BackupFirst`, `SuccessMeansVerified`, `RollbackAudited` | `BackupPredatesPush`, `SuccessIsVerified`, `RollbackIsAudited` hold always, for repeated devices too |
| `DistinctInvariance` | `Spec => []DistinctInv`, if no device is named twice |
| `Staged`, `VerdictHolds`, `ReopenedByRerun` | `StagedRollout`, `VerdictMatchesRows`, `ReopenedOnlyByRerun`, under the same condition |
| `Refinement`, `WorkerIsSeen` | `KeepsPromise` and `WorkerAsSeen`: the batch implements `BatchPromise`, and the worker of `Trigger`, under the same condition |
| `NeverGetsStuck`, `StepsDoRunOut` (in `BatchEndsProofs`) | `Spec => []NeverStuck`, `Spec => StepsRunOut`, for repeated devices too |

Assumptions: `OrderAssumption` (a non-empty sequence of devices: the request
schema, `min_items=1`, rejects an empty one), `PlatformAssumption`,
`BoundAssumption`. TLC evaluates them in every run.

The argument. The properties speak of rows and devices and say nothing of the
coroutines between them, so they are not inductive. `Inv` adds

* `PlaceInv`: what a coroutine's place implies. From `apply` on its row has a
  backup; at `build` it has one *or the session is bad* (this disjunct is where
  the swallowed snapshot error goes: `Build` needs a good session, so it never
  reaches `apply`); at `capture` and `record` the device is verified; at `record`
  the row was captured or the session is bad; at `mark` the audit entry exists. It
  says nothing of what the device took: nothing in the code does;
* `OrderInv`: a started coroutine has only `ok` ones ahead of it, and `ok`
  implies verified;
* `BackupInv`: the backups of an untouched device show it untouched, so the
  backup that exists when the device first changes predates the change. A stored
  backup is never replaced (`Monotone`), which carries that through reruns;
* `QueuedInv` and `AttemptInv`: what has not been claimed has no backup; when no
  attempt is deploying no coroutine is in the middle of anything;
* `StageInv`: how far the strategy has come with the coroutines (an atomic batch
  has started all, a canary batch the first or all), that `_rollback_all` and the
  sweep come after a failure or after all were started, and that no two coroutines
  are ever in the middle of a stretch.

`Frames`, `Monotone`, `PlaceSteps`, `RowSteps` and `CoroutineSteps` say once
which action can write what, so that the proof for a conjunct looks only at the
actions that can disturb it. With distinct devices `OwnRow` gives `rowOf[i] = i`,
and `RowInv` ties the row's status to the coroutine's place; that is what the
order, the verdict and the refinement need. The refinement is proved action by
action: `OrchestratorSteps`, `CoroutinePromise`, `DevicePromise`.

The second refinement, `WorkerIsSeen`, ties `BatchDeploy` to `Trigger`. There a
coroutine is `todo`, `claimed`, `loaded`, `ended` or `died`, and `AtSeen` says which
places of `BatchDeploy` these are; two of them depend on the row. A coroutine whose
row is SUCCESS and whose audit entry then fails has `ended` for the routes although
it goes on into the `except` clause, and one that dies there has `ended` as well.
`FailedInv` keeps what the row says of failed coroutines, which is what makes
`Gathered` true whenever the strategy goes on to the sweep (`StageInv`), and every
status the sweep writes one that `Close` may write. Both crash windows are steps of
`BreakOff`. The mapping leaves the routes alone (`Routes!Inv` is part of the
property, for the batch's own rows); what `Trigger` proves of rows under all the
steps of the routes is in `TriggerProofs`.

**Why a batch ends.** Liveness itself is out of the prover's reach, but its two
halves are not, and `BatchEndsProofs` proves them for every list of devices and
all bounds. `StepsDoRunOut`: `StepsLeft` counts the places every coroutine has
still ahead of it (`Rank`), the stages of the task, the devices `_rollback_all`
has yet to see and what the devices may still take; it is a natural number
(`LeftIsCounted`), and every step either sends the message back, at most
`MaxRetries + MaxCrashes` times, or makes it smaller (`GoesOn`: one move is done
and none has come back; `DeviceRuns`: a device never loses lines within an
attempt). So no behaviour takes infinitely many steps. `NeverGetsStuck`: until the
message is settled, the event loop has a coroutine it may resume (`LoopGoesOn`, by
the least one that was just started, or the one in the middle of a stretch), or all
have ended and the strategy has a next step (`StrategyGoesOn`, for rolling by the
first device not started). `CanGoOn` spells out the
guards of the worker's actions; that these are `ENABLED Worker`, and the conclusion
`BatchSettles` that `WF_vars(Worker)` draws from both theorems, is left to TLC.

`TriggerProofs` proves, for any sets of devices and requests and all bounds,
`Invariance` (`Spec => []Inv`) and from it `NothingLost`, `Fresh` and
`UndoOfEnded` (`NoRowIsLost`, `DeployedIsFresh`, `UndoMeetsEnded`); the only
assumption is its `BoundAssumption`. Its `Inv` adds the handler's order
(`HandlerInv`: no rows before the commit, a message before the 202), that a row
keeps its device (`RowInv`), what the row says at each place of an attempt, with
`returns` where an earlier attempt may have left it anyhow (`AttemptInv`), and
that a configuration once found stays stored, so that the newest one is never
older (`LoadInv`); a row at SUCCESS keeps what it was deployed from, which carries
`DeployedIsFresh` through reruns. There is one lemma for each conjunct. `TypeCorrect` is its
`TypeOK`.

`SnapshotsProofs` proves, for any deployments, attempts, keys, values and bounds,
`TypeCorrect`, `PreImage` (`EarliestIsPreImage`), `ChangeTold` (`RowsTellChange`)
and `RestoreUndoes` (`RestoreUndoesOwn`), in two layers. The first (`IInv`): a push
comes only after a committed row, so a row that was read after the device took a
line, or is an AFTER row, has a *fresh* row with an earlier stamp (`Preceded`); the earliest one
is therefore fresh. `HeldOK` says the same of rows still in hand, where the order
of stamps and the order of commits differ. The second (`Trail`) follows contents:
while nobody else changed the device, what runs is what a fresh row holds, key by
key, or the deployment's line, according to whether that line is among those taken
(`Traced`), however few of them a True stands for; so an AFTER row is the merge of the
fresh one with the lines taken when it was read (`Pairs`). `Begotten` keeps a
deployment that has not begun from having any content, which is what makes
`disturbed` reliable.

`RateLimiterProofs` proves `Bounded` (`WindowBound`) for any keys, limits, window
and lag (`Lag <= Window`), in both tiers. `WindowBound` speaks of what was
admitted, the check of what Redis still has: `Kept` says that an admitted reading
is in the set or a window old, `Aged` that a key is dropped only when all it holds
is. A late reading trims less than the one before it, never more, and cannot be
older than the lag; so the admitted readings of a stretch of `Window - Lag` are all
in the set when the last of them is counted.

`DashboardProofs` proves `IsLimited`, that `Dashboard` implements `LimiterSpec`
(step by step, `StepIsLimiter`), and from it `CallsBounded`; `TypeCorrect`;
`AllConfigured` and `TruthShown` from `FInv`, which says of the devices the loop
has passed that they have a configuration (`Configured`) and of every batch and
every late call whose click it was and that the click had come to its trigger
(`Told`); and `DefaultsFirst` (`DefaultsComeFirst`) from `DInv`, which says that wherever a script goes
on as if the device had no configuration, on an answer or on what it makes of none,
the device has none or is among those in `doubt`. A click that ends with "No devices
registered" has asked for nothing else, so `Told` covers it too. Every configuration stored by
anyone else puts the open questions of its device in doubt, and that keeps it.

`ConfigPipelineProofs` proves `TypeCorrect` and `SuccessIsPeered`
(`VerifiedIsPeered`) for any configurations, addresses, types and number of
deployments: a session is up only where the settings allow it, and that is what
the verifier's look leaves behind.

It proves the other properties of `ConfigPipeline` too, where the runs have lists of
up to three, for lists of any length: `SchemaAndRulesAgree` (`SchemaAgrees`),
`SoundRules` (`ValidIsSound`), `VettedTakes` (`VettedIsTaken`), `BuildIsDesired`
(`BuildSaysDesired`), `OnlyChangedIsCut` (`CutsOnlyChanged`) and `SuccessRuns`
(`SuccessTakes`). Nothing is assumed of the kinds of values or the notations of
prefixes: that what the schema has read compares as numbers is proved of `Read`, and
that the device takes a vetted prefix follows on IOS from `NormalNets`, elsewhere from
`PrefixesFit`. Its invariant is `CInv`: what was asked, stored or deployed is a
configuration (`Arrivals`). The rest says what the commands are:

* `Says(c, t, s)` lists what a command may say of a configuration. Every command
  of `Build` is one of these (`BuildSays`) and every neighbour, network and area has
  its commands (`BuildHas`). Both go through the lists a section is put together
  from. `ListFacts` gets what it needs of them from the least number in a set
  (`Least`, from the well-founded order of the naturals): the prover cannot use the
  induction theorems themselves. Its `PartsExist` and `PartsJoined` say of the
  library's `FlattenSeq` that it holds its parts one after the other, and nothing
  else.
* The last command with a key is the one that counts (`LastOfKey`), so each
  neighbour's AS number is set and, since the rules find a neighbour named twice
  (`NeighborsDiffer`), set to one value; the same for areas of distinct numbers.
* A prefix with two actions has two policies next to each other among those of the
  prefix, and there the validator, which remembers only the last one, looks
  (`PoliciesAgree`).
* A session is reset in a push only where what it is made with changes. A command that
  changes it is one the configuration says: of the process or router id, of the
  neighbour's AS number and group (`NewIsSaid`), of its shutdown (`ShutIsSaid`) or
  password (`PasswordIsSaid`); and since each key has one setting on the device
  (`EachOnce`), one that says what is there already changes nothing (`PushCuts`),
  whichever commands were taken.
* `SInv` keeps what `SuccessTakes` says from the push on.

`ConfigAssumption` says of a configuration only that what the code iterates is a
list; `NoneAssumption` that a missing value is none of the
words it is compared with.

Assumptions are the named ASSUMEs of the modules (types of constants, bounds that
are numbers, marks that are no values); TLC evaluates them in the runs.

Model-checked only:

* the liveness properties `BatchSettles`, `EveryRowSettles`, `AcceptedSettles` and
  `ClickAnswered`, beyond the prover, which knows neither ENABLED nor fairness (of
  `BatchSettles` see above);
* that the four documented promises fail.

## 5. What is left out, and why

In `BatchDeploy`:

* the content of configurations, commands, logs and snapshots: three values,
  old, partial and new, tell apart what the properties need. A True from
  `send_config_set` means that no refusal was noticed, with any of the three;
* a COMMIT that took effect although its acknowledgement was lost;
* two workers with the same message (redelivery after the broker's visibility
  timeout, or a crash between publishing a retry and acknowledging) and other
  batches on the same devices: what they do to the snapshots of a device is in
  `Snapshots`, what they do to each other's statuses is not modelled;
  configurations stored while the batch runs are in `Trigger`;
* the canary's waiting time, which the code does not implement, and the False
  answers of `_health_check`, which cannot occur: it fails only for a device row
  that is missing, and the foreign key of `deployments` keeps it;
* tasks called without a batch id or without rows.

In `Trigger`: hostnames and updates of devices, the order of several devices'
checks within a round, audit entries, repeated devices and `deploy_to_device`,
which nothing enqueues; a worker that consumes the queue is assumed
(`k8s/celery-deployment.yaml` names other queues than the one the message goes to).

In `Snapshots`: replicas with clocks that differ by more than the time between two
attempts, with which the earliest row could be the wrong one; `diff_snapshots`,
which only reads and takes both sides from the earliest row.

In `ConfigPipeline`: the wording of commands and messages; floats, booleans and nested
values where a number or a text is meant, and things that are no lists where one is;
the lengths of a prefix and `IPv4Network`'s view of which texts are one network
(policies are compared as written); interfaces of the typed schema; `build_rollback`,
which only tests call; the validation tasks, which call `validate` item by item, and
their audit rows; the `drift` task (a stub); `verify_reachability` with its ping parser (no caller); a deployment that fails
between two others may leave lines, which is modelled, but two that overlap are in
`Snapshots` alone.

In `Dashboard`: other pages; a newer interaction of the same session that stops a
running script half way, of which what is left is a click without an answer; what
is true when "Failed to trigger" is shown. The strict tier, which no call of the form
is in, is in `rate_limiter`. `RATE_LIMIT_WINDOW` is taken to equal
`STRICT_WINDOW`; were it shorter, requests of the default tier would trim readings
the strict one needs.

Not modelled: authentication, audit and metrics routes, security headers, scripts
and manifests keep no state of interest; the Git repository is called by nothing.

## 6. Plan

Done: the deployment path (`BatchDeploy`, `Trigger`) and that its two halves fit,
the snapshots of overlapping deployments, the configuration pipeline, the limiter
and the form; every safety and action property the runs check is proved. Left, in
this order:

1. What `AcceptedSettles` and `ClickAnswered` rest on, as done for `BatchSettles`: a
   measure for an attempt of `Trigger` and for a click of `Dashboard`.
2. `Snapshots` as an implementation of the snapshot steps of `BatchPromise`, for one
   worker.
3. The deployment log (`core/orchestrator.py` 135-143), which two workers of one
   message read, extend and write back: lines may be lost. Into `Snapshots`.
4. `deploy_to_device` without a batch id, as a second kind of message in `Trigger`.
5. Device hostnames, checked and then inserted, with the server error the second of
   two requests is answered with.
