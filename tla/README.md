# Verification of xscontainer

xscontainer lets a XenServer host manage Docker inside its VMs. A service,
`xscontainer-monitor`, runs on every host of a pool; it watches XAPI (the
toolstack) for VMs that are registered for monitoring and keeps in each VM's
`other_config` a picture of the containers in it. A XAPI plugin offers
operations on VMs and containers, and `xscontainer-prepare-vm` sets a VM up.

This directory holds TLA+ specifications of that program, the TLC instances
that check them, and TLAPS proofs about all of them. Paths
below are relative to `src/src/`; `docker_monitor` is
`xscontainer/docker_monitor/__init__.py`.

    tlc -workers 2 -config DockerMonitor_one.cfg MCDockerMonitor
    tlapm DockerMonitorProofs.tla

## 1. The system

### Components, their state, and how they meet

| component | source | state | operations |
|---|---|---|---|
| main loop | `docker_monitor`: `monitor_host`, `DockerMonitor` | the local session, the event token, `DOCKER_MONITOR` with `host`, `vms` (the registry: VM to `MonitoredVM`), `tls_secret_cache` | connect, take a token, refresh, process events, back off and reconnect, tear down on a signal |
| shared session | `xscontainer/api_helper.py` | `GLOBAL_XAPI_SESSION`, `GLOBAL_XAPI_SESSION_LOCK` | log in, renew after a failed call (main loop and threads) |
| monitoring thread | `docker_monitor`: `MonitoredVM`; `xscontainer/docker.py` | `_stop_monitoring_request`, `_error_message`, the stream of events | publish `docker_info`, `docker_version`, `docker_ps`; listen; handle an event; wipe; report an error |
| registration | `docker_monitor/api.py`, plugin | `other_config['xscontainer-monitor']` of the VM | register, deregister, mark as monitorable |
| plugin | `overlay/etc/xapi.d/plugins/xscontainer` | none | check arguments, forward to the VM's host, act on a container and refresh `docker_ps` |
| TLS secrets | `xscontainer/util/tls_secret.py` | XAPI secrets, references to them in `other_config`, temporary files | set, count references, remove, export |
| connectors | `xscontainer/remote_helper/` (`ssh.py`, `tls.py`, event stream in `__init__.py`) | host key in `other_config`, sockets | request, event stream, diagnosis |
| pool SSH key | `api_helper.py` | two secrets named in the pool's `other_config` | get, generate when there is none |
| config drive | `xscontainer/coreos.py` | VDI and VBD of the VM | create, remove, read |
| VM preparation | `xscontainer-prepare-vm`, `util/tls_cert.py` | CD of the VM, certificates | SSH or TLS set-up, restart of the monitoring |
| helpers | `api_helper.py`, `util/` | none | disks, devices, networks, files, logging |

XAPI is shared memory for all of them. Nothing in this code locks a VM record:
`other_config` is changed by reading the map and writing it back
(`VM.update_other_config`, `update_vm_other_config`), by the threads of the
monitor, the plugin calls (processes of their own) and scripts.
Main loop and threads share a process, the registry (main loop only), one stop
list per thread, and the global session with its lock.

### What is hard

* **Interleaving.** Any call of a thread, the main loop or a plugin call can
  fall between the read and the write of another. A stopped thread goes on
  until it looks at its stop list; its successor may already run.
* **Failure.** XAPI restarts, sessions become invalid, Docker fails at any
  request, a call fails after it took effect, the service crashes. Some
  exceptions are caught, some end a thread, some end the process.
* **Ordering.** The token, the records, the events; the list of containers and
  the subscription to their events; deletions reported once.
* **Time.** The loop backs off; an error is reported after two minutes;
  temporary files are reused for one.

What makes each part correct:

* *main loop*: every VM that should be monitored on this host, and no other,
  has exactly one thread that goes on; no change is missed; it comes back from
  any failure; secrets of VMs it saw are remembered;
* *thread*: what it published is followed or wiped; it honours a stop
  request; it leaves no message behind; it publishes in the end;
* *registration*: a deregistration lasts until the next registration;
* *TLS secrets*: a secret in use is never removed, one that is not in use is;
* *session*: a failed renewal does not stop the others;
* *pool key*: one pair for the pool; *redirection*: a call runs once, on the
  host of the VM; *config drive*: no disk that nobody knows, no drive removed
  before its replacement is complete; *stream parser*: each event once, whole, in order.

## 2. Modules

    MonitorThread                 what is promised of the threads of one VM
      ^ implemented by                ^ implemented by
    DockerMonitor                 MonitoredVM                    TlsSecrets

    EventQueue                    RemoteOperation                PoolKey   Certificates
      ^ implemented by                ^ implemented by              ^ extended by ^
    EventStream                   RemoteCalls                         VmDisks
                                      ^ extends
                                  Connector

Every state machine `X` that is run has a module `MCX` with the values of its
constants, and one `XProofs` with theorems (also PoolKey, whose proofs VmDisks
builds on; `RemoteCallsProofs` has those about Connector too; the theorems about
VmDisks are in two modules, the second about what a call leaves behind).

**MonitorThread** is an abstract specification: a registry that knows at most
one thread of a VM, threads that start, are asked to stop, return or die. A
thread returns only after a stop request, a request is never taken back, and a
thread that has one returns. DockerMonitor implements the main loop's side for
every VM (refinement mapping `Thread(v)`: registry entry, running instances,
stop lists), for safety. MonitoredVM implements it with its fairness: there the
return of a thread is a consequence of its code. DockerMonitor *assumes* that
return (`WF(ThreadReturns)`), MonitoredVM shows it, for calls that return.

**DockerMonitor** is `monitor_host` and `DockerMonitor`, with XAPI around it.

| in the model | in the code |
|---|---|
| `pc` | where `monitor_host` is: `connect` (`docker_monitor:293-304`), `token` (306-308), `refresh` (197-201), `work` (processing records or waiting in `event_from`, 311-325), `backoff` (326-341), `teardown` (`interrupt_handler`), `crashed`, `exited` |
| `session`, `globalSession`, `lockHeld` | the local variable, the global one, the lock *left* acquired |
| `vms`, `alive`, `stopreq` | `DOCKER_MONITOR.vms`; the instances (thread objects) that run; those whose stop list is not empty |
| `batch`, `changed` | records or events fetched and not processed; what XAPI will report for the token held |
| `rec`, `validSessions`, `thisHost`, `xapiUp` | XAPI's side |

`Process(v)` is one turn of the loop over records or events, with all of
`process_vmrecord` or `process_vm_del`. A failed call (`CallFails`) is the
`except` clause up to the sleep, `Reconnect` what follows it. `Login` models a
session handle that differs from the ones in use.

**MonitoredVM** is one VM: `_monitoring_loop` with every call to XAPI and to
Docker a step of its own (`th[i].pc`), its handlers and its `finally`, the
streams, the plugin calls that write `other_config` (`cl`), and the main loop
reduced to start and stop. An update is `Fetch` (the answer of Docker is an
argument, so it comes first), `GetOtherConfig`, `SetOtherConfig` of the whole
map. A failing XAPI call may have taken effect (`MaybeDone`).

**TlsSecrets** is `tls_secret.py` and the caches of the monitors of several
hosts (`Remember`, `process_vm_del`, then per key `TidyCount` and
`TidyDestroy`), clones and snapshots that share secrets, and `set_for_vm`
(`SetBegin` ... `SetUpdate`). Counting and destroying are separate steps, and
so are creating and updating.

**EventQueue** promises the events Docker sent, each once and in order, until the
stream ends. **EventStream** implements it with the two
`execute_docker_data_listen` and `execute_docker_event_listen`
(`remote_helper/__init__.py:24-50`).

| in the model | in the code |
|---|---|
| `wire`, `arriving`, `closed` | what has reached the host and waits in the socket or the SSH channel; a record of which only a part has |
| `decrypted` | the rest of a TLS record after a `recv` of `ChunkSize`; `select` does not see it |
| `chunk`, `skippedheader`, `data`, `openbrackets` | the local variables of the parser |
| `pc` | waiting in `select`, reading, looking at a chunk; `exited`, `raised`, `ValueError` are the ends |

A character is one the parser can tell from others, and a brace in a JSON string
(`q{`, `q}`) is one that only JSON can tell from a real one. An event is one
object of JSON (`EventsAssumption`): it is `Complete` with the brace that closes its
first one and not before, and it is known by its text.

**Connector** is a connection: `execute_ssh` with `prepare_ssh_client` and
`MyHostKeyPolicy` (`remote_helper/ssh.py:30-131`), and `execute_docker` over TLS
(`tls.py`). It goes through layers (address, server, key or certificates, ncat,
socket, access, Docker), fails with the class of exception the code raises for
the first broken one, or breaks at any moment. `known` is the host key in
`other_config`; the lookup (`ConnectSsh`) and the write (`Remember`) are
separate steps. **RemoteCalls** is who makes connections: plugin operations with
`redirect_operation_owned_by_other_slave` on every host they come to
(`Forward`, `Dispatch`, `Local`, `PostEnds`, `Return`), `xscontainer-prepare-vm`
with the push of the key, the verification and `determine_error_cause`
(`PushBegin` ... `ProbeFails`, `Ask`), and threads that monitor. The VM moves,
storage is plugged, layers break and are repaired. **RemoteOperation** is what a
caller may rely on: carried out at most once, and if the call succeeds it was.

**PoolKey** is `get_idrsa_secret` and `set_idrsa_secret` (`api_helper.py:395-448`)
with several callers: read the pool's map, generate, create two secrets, write
the whole map, read the secret. **Certificates** says which files
`generate_certs_and_return_iso` leaves after a failure at each of its steps: the
`finally` clauses of `tls_cert.py` as sets of files (`Remains`). **VmDisks**
composes both in the calls that make disks: `create_config_drive` (network, key,
ISO, `import_disk`, `remove_config_drive` along a list of devices read before,
`create_vbd` with `_retry_device_exists`, plug) and
`_generate_and_insert_certs` of `xscontainer-prepare-vm` (certificates, import,
insert, the user's answer, eject, destroy). XAPI refuses to destroy what is
plugged and to use a device number twice.

## 3. What the runs check

Deadlock is checked in all runs but those of TlsSecrets, where VMs are never
created and a pool may come to rest for good, and EventStream, which ends with
the stream.

**DockerMonitor_one** (123 000 states; one VM, four records: to be monitored
here, halted, deregistered, running on the other host; two host references, two
threads, two session handles). For every order of record changes, destruction,
XAPI restarts, pool joins, crashes, signals, failing calls and dying threads:
`NoOrphanThread` and `RegisteredNotStopped` (every thread that goes on is the
one in the registry, and the other way round), `NoMissedChange` (whenever the
loop has dealt with a VM, the registry agrees with XAPI's current record),
`SecretsRemembered`, `ImplementsMonitorThread`, and `Converges`: once calls
that can succeed do and nothing changes, host, registry and threads come in
step for good. `Converges` assumes that no thread leaves the lock behind.

**DockerMonitor_lock** and **DockerMonitor_dead** show two findings (section 5).

**MonitoredVM_follow** (2 100 states; one thread, two states of the
containers, Docker that fails, stops and restarts, a VM that halts and boots):
`PublishedIsFollowed`, `NoMessageLeft`, `EventHandledIsFresh`, and at rest
`Published` and `Unpublished`.

**MonitoredVM_faults** (240 000 states; XAPI calls that fail or lose their
answer, unexpected exceptions, crashes, and a client that deregisters, marks or
pauses at any time): a thread that is asked to stop returns, wherever it is and
whatever fails, and threads start only when the registry is free.

**MonitoredVM_deregister** and **MonitoredVM_register** show two findings.

**TlsSecrets_pool** (221 000 states; a VM and its clone, the monitors of two
hosts, two secrets one after the other, calls that fail and monitors that
restart at every step): `InUseKept`; up to the first failed call or restart
also `NothingForgotten` and `Tidied`.

**TlsSecrets_files** shows a finding.

**VmDisks_calls** (135 000 states). Three calls, two of them at once, two failures at
any call to XAPI or local command, a VM that halts and starts, a user who
changes the CD.

* The pool key: `KeyWhole` (its halves match and exist), and unless two calls made
  keys at once, `HandedOutIsPool` and `DriveKeyWorks` (the key in a drive lets the
  pool in).
* Disks: `DriveLostByFailureOnly` (no step takes the last complete drive that is
  attached, or in the hands of a call, from the VM, but the failure of a call that
  has its own, complete, still to attach), `NoDiskForgotten` (a disk of the service is attached, held by a call, or was
  held by one that failed), `OnlyOwnDisks` (no other disk is touched); of calls
  that do not overlap also `NoDuplicates` and `ReturnsAttached`.
* Files: `HostTidied`, above all that no private key stays on the host, whichever
  of some twenty steps fails.

**EventStream_chunks** (38 000 states). Two of four events (flat, nested, and
with an opening or a closing brace in a string), cut into records and chunks in
every way, over SSH and TLS, the connection closing or breaking and a stop
request at any moment. `InOrder` (EventQueue: the events delivered are those sent,
each once, whatever braces they have), `NothingHeld` (when the reader waits and
nothing is left in the socket or the TLS library, all that was sent has been
delivered, and the JSON parser never fails), `Handled` (an event is delivered
without waiting for another one, or the stream ends), `Stops` (the stream ends
after a stop request). `NothingHeld` and `Handled` are about events without braces in
strings, `Handled` over TLS about those that fit into one read: section 5 says
what happens to the others.

**RemoteCalls_calls** (243 000 states). A plugin call between two hosts while the
VM moves and storage is plugged; a script that prepares a VM with anything
broken; two connections that see a host key first. `CarriedOutOnce`
(RemoteOperation), `ServedByOwner` (where the VM runs, after one forward and
one more for each move), `Diagnosed` (a diagnosis names what is broken, and
something if something is), `HostKeyKept` (accepted keys are the one on record,
but for those `doubt` names: the ones that two connections were offered at once
while none was on record, and the ones whose record a stale write lost),
`ComesBack` (every call and diagnosis ends).

### Bounds

* VMs: the main loop treats VMs independently but for the batch, the session
  and the lock; the run has one, the proofs are for any number.
* `Instances`: two in DockerMonitor, a thread of a VM that is on its way out and
  its successor. A third can start in the code when two are still on their way
  out; in the model the start waits. The proofs are for any set.
* `Sessions`: handles not in use are reused; two or three suffice for one that
  is lost, one that is held and one that is new.
* `Records` are the ones that differ in a condition of `_should_monitor` or in
  their secrets; `guest_metrics` and `is_control_domain` take one value per
  record in the runs, and all values in the proofs.
* `Versions`: two states of the containers tell a stale list from a fresh one.
* `MaxSecrets = 2`, one key: secrets that are replaced once. Keys are handled
  one after the other and independently; TlsSecrets_files has two.
* Events of one VM are coalesced to its latest snapshot, as `event_from` does.
  When a message is due (two minutes) is a free choice.
* VmDisks: `MaxCalls = 3` gives a call that replaces what another left while a
  third goes on; `MaxFaults = 2` a failure and one in the handling of it. A
  behaviour has calls of one kind, as the two kinds share nothing.
  `LastDevice = 2` (21 in the code) makes the numbers run out. The proofs need
  none of these.
* EventStream: `MaxSent = 2` for one event after another in a chunk, a record, or
  across them; `ChunkSize = 3` (1024 in the code) lets one event just fit and
  cuts a longer one. The maximal size of a buffer plays no role (section 5).
* RemoteCalls: `MaxBroken = 1` layer at first, more by `MaxChanges`; hops are
  counted up to `MaxHops = 4`; `Concurrent` and `MaxChanges` are given per kind of
  caller: two plugin changes, two connections at once that monitor.

### Fairness

* The main loop goes on, up to failures of calls that could succeed: a
  single-threaded `while True`, restarted after a crash by
  `Restart=on-failure` of the systemd unit.
* A thread's next step is taken, in MonitoredVM and EventStream (`WF(Listen)`):
  `threading.Thread` under a preemptive scheduler. This assumes that calls to
  Docker and XAPI return; the SSH connector has no timeout on a command
  (`remote_helper/ssh.py:124`), so that a VM that hangs breaks it.
* A Docker in a running VM comes back (MonitoredVM only). A record that has begun
  to arrive does (`WF(Arrive)` in EventStream; TCP delivers or breaks).
* A monitor processes every event of a batch before it asks for more:
  fairness per VM in TlsSecrets.
* A plugin call or script goes on (`WF(Step(c))` in RemoteCalls): each is a process.
* Nothing is assumed of XAPI, users, VMs and clients, but that liveness is
  asked only of behaviours in which they come to rest (`Settles`).

## 4. What is proved

`tlapm` checks all of the following for every value of the constants, from the
named assumptions in the modules (sentinels are not elements of the sets they
mark an absence in, bounds are natural numbers).

`DockerMonitorProofs`, for every set of VMs, hosts, threads, sessions and records:

* `TypeCorrect`: `TypeOK`. Inductive by itself, with `stopreq[v]` within
  `alive[v]` as its only relation. `ProcessTypes` and `ProcessEndsTypes` are
  the two large cases.
* `RegistryCorrect`: `NoOrphanThread` and `RegisteredNotStopped` (also by itself,
  `RegisteredRuns`). Together (`Registry`) they are inductive relative to `TypeOK`,
  and neither is alone: a stop order reaches the thread the registry names, so
  the first needs to know that the name is right, and the second that a new
  thread is not one that was stopped. `ThreadSteps` reduces the steps of the
  service to the five kinds that touch registry or threads.
* `NothingMissed`: `NoMissedChange` and `SecretsRemembered` (`SecretsKnown`). The
  strengthening `HeldIsCurrent` says that what has been fetched and not
  processed is the current record unless XAPI has yet to report a change. It
  needs the token to be taken before the records.
* `Implementation`: every step of the service is, for each VM, a step of
  MonitorThread or none.

`MonitoredVMProofs`, for any threads that overlap, any plugin calls and containers:

* `VMTyped` with the invariant `VMInv`: what a thread is about to do (`why`,
  `left`) fits where it is (`Sound`), and a stop request is at a thread that runs.
* `ThreadsImplement`: MonitorThread without its fairness, whatever fails.
* `EventsFresh`: `EventHandledIsFresh`. `Fresh` says that a list fetched for an
  event is what Docker would answer unless another event is there already. It
  holds with any other writers and failures.
* `MessagesDestroyed`: `NoMessageLeft` under `Calm`: XAPI answers and nothing
  unexpected is raised. With failures the code does leave messages.
* `PublishedFollowed`: `PublishedIsFollowed` under `Alone` (calm, one thread, no
  other writer). With a successor the last wipe of the old thread is late; with
  other writers the map they read may bring `docker_ps` back. `Minds` adds what
  a thread is about to write back.

`TlsSecretsProofs`, for every pool and every set of faults:

* `TypeCorrect`: `TypeOK`. Its strengthening `Types` says that a reference is to
  a secret created before, and that a removal under way is about a key it has
  not dealt with.
* `SecretsInUse`: `InUseKept`, when `"overlap"` is not in `Faults`: nobody clones
  or destroys a VM while a `set_for_vm` works on it or on one it shares secrets
  with. The code relies on that; with `"overlap"` a clone taken between
  the count and the removal loses its secrets. `InUseKept` is not inductive: it
  says nothing of a removal between its count and its `destroy`. `Kept` adds
  that a secret about to go is referred to by nobody (`TidyTarget`), or only
  by the VM of the call (`CallTarget`); that stays so because what a VM refers
  to only changes to secrets no one else knows yet (`Private`), and because two
  calls have two VMs whose old secrets stay what they read (`Apart`).
* `SecretsTraced`: `NothingForgotten`, without `"overlap"` and `"unseen"`. Each
  secret is in use, held by a call or pending at a monitor (`Traced`); when a
  call spares one, another VM refers to it (`Spared`), and when the last VM goes
  the count of the one that tidies is not above its threshold.

`PoolKeyProofs`, `VmDisksProofs` and `VmDisksCallsProofs`, for any calls, disks,
devices and failures:

* `PoolKeyCorrect`, `PoolKeyWhole`, `PoolKeyHandedOut`: the pool names both halves
  of one pair, because each caller creates both secrets before it writes both
  names at once. What was handed out is the pool's as long as no two calls made
  keys at once (`OneMaker`: then at most one is making, and only if there is none).
* `DriveKeysWork` carries this to the drives (`GoodKeys`).
* `DisksRemembered`, `OthersDisksSafe`, `DisksTyped`. The
  invariant `DiskInv` says where the disk of a call is at each step (`Place`,
  `Holds`), that disks it has yet to name are nobody else's (`Secret`), and that
  the devices lead to disks that exist (`Devices`). `OthersDisksSafe` needs
  it because a call removes a disk by references it read before.
* `HostLeftTidy`: `HostTidied`. The lemmas go through the steps of `Remains` once
  (`FailedRemains`, `GeneratedRemains`): which files exist after a failure at any of
  them, and that the `finally` clauses reach all with a private key. `HostInv` says
  what a call has on the host where it is (`TidyAt`).
* `DriveSafeUntilFailure`: `DriveLostByFailureOnly`, from `DiskInv`. A call that
  removes a drive has its own, complete (`RemoverHasNew`), and a disk in use stays
  unless it is the one removed (`DiskStays`).
* `NoDuplicatesEver` and `ReturnsWithDrive`: `NoDuplicates` and `ReturnsAttached`, for
  calls that do not overlap. `AloneInv`: a call has not lost sight of a device with
  a drive since it read the record of the VM (`Sees`), so that it attaches its own
  only when there is none; a step of the user never adds one.

`EventStreamProofs`, for events of any length and number, any chunk size and any
way the stream is cut into records, from `EventsAssumption`:

* `EventsInOrder`: `InOrder`, the refinement of EventQueue, whatever braces are in
  strings. That json.loads accepts a text says that it is *some* event; that it is
  the one whose turn it is follows because it begins where that one does (`Begun`),
  and no event is the first part of another (`SameEvent`).
* `NothingHeldBack`: `NothingHeld`. `Prompt` adds to the positions that the data is
  a strict part of the next event. It holds for events without braces in strings,
  for which the parser counts as JSON does (`PlainDepth`, `PlainRead`).
* `StreamTyped`: `TypeOK`, with the count of braces in what is collected.

The parser works on sequences of characters, and induction over them is out of
reach. The invariant `StreamInv` does without: there *is* a text, which no variable
holds, that Docker has written so far. In it each event has its start
(`Written`), each record in the socket its end (`Waits`), and chunk, rest of a
record and collected data their places (`Fetched`, `Examined`). Writing makes the
text longer (`WrittenMore`, `WaitsMore`), reading and looking at a character move one
position (`WaitsOneLess`, `WaitsCharacterLess`, `LookedKeeps`).

`RemoteCallsProofs`, for any calls, hosts, keys and layers:

* `HostKeyCorrect`, and `CallersKeepHostKey` for those that make connections.
  `Agreement`: those about to remember a key agree with each other and with the
  one on record, but for keys in doubt. No key enters `doubt` except by one of the
  two ways above, and one leaves it when it is remembered and nobody is about to
  write another.
* `CallsImplement`: `CarriedOutOnce`. `Kept` ties the place of a call to what its
  connection has done; an operation that may have been carried out is not
  tried again.
* `CallsServedByOwner`: `ServedByOwner`. A call is forwarded once and once more for
  each change (`Owned`).
* `DiagnosesRight`: `Diagnosed`. `Looking` says, for a diagnosis during which nothing
  changed, which layers the probes before it have cleared (`Cleared`) and which its
  own connection has got past (`Passed`), and that a connection that failed blames
  something broken (`ConnectionLooks`). A step of another caller leaves what is
  broken as it is, or the diagnosis counts as disturbed (`DiagNoticed`).
* `CallsTyped`.

Only model-checked: liveness (`Converges`, `Published`, `Unpublished`, `Tidied`,
`Handled`, `Stops`, `ComesBack`, the fairness of MonitorThread in MonitoredVM), as
fairness is out of this prover's reach. Every invariant and every safety part of a
refinement that a run checks has its theorem.

## 5. Where code and promise part

Each is a run that TLC refutes, with the quoted promise in `PROJECT.json`.

1. `DockerMonitor_lock`: `reinit_global_xapi_session` does not release the
   lock when the login raises. If a thread was there, the main loop waits for
   ever, and the service with it, although XAPI is back.
2. `DockerMonitor_dead`: an exception that `_monitoring_loop` does not expect
   ends the thread; the registry keeps the VM, and nobody monitors it.
3. `MonitoredVM_deregister`: a thread that read `other_config` before a
   deregistration and writes after it restores the registration.
4. `MonitoredVM_register`: a client deregisters a running VM and registers it
   again, and a wipe the old thread is still in removes the `docker_ps` its
   successor published. This needs no lost update: the antecedent
   (`Undisturbed`) excludes those, and a main loop that overlooks the
   deregistration. Without it TLC finds two shorter ways to lose the list: a
   `register` that read the map before the thread published, and a VM that is
   registered again before the main loop saw it deregistered, after whose wipe the
   thread, never told, goes on listening. `xscontainer-prepare-vm:127-131`
   waits for three seconds; the plugin calls do not.
5. `TlsSecrets_files`: `_destroy_for_vm` walks the names of a dictionary
   instead of the paths, and removes no file.

The code also has these behaviours, for which the repository promises nothing
else, so that no run is about them.

In the monitor and its threads:

* a destroyed VM that the loop did not see halt stays in the registry with its
  thread (`process_vm_del` deals with secrets only);
* a container that changes between the list and the subscription is seen with
  the next event only;
* `docker_info` and `docker_version` stay when an update fails before the
  thread listens and the VM is then deregistered.

With TLS secrets:

* a set_for_vm that fails half-way leaves references to secrets that are gone,
  and a deletion that falls into a reconnect leaves secrets for good;
* a VM cloned between count and destruction in `set_for_vm` loses its secrets
  (`Faults = {"overlap"}` makes `InUseKept` fail);
* a VM destroyed before any monitor saw the last change of its record leaves
  its secrets (`Faults = {"unseen"}` lifts the assumption).

In the stream of events:

* a closing brace in a string cuts an event early, and the `ValueError` of the
  JSON parser ends the thread; an opening one makes an event never end;
* the guard against a full buffer (`remote_helper/__init__.py:48`) compares the
  length of a chunk, at most 1024, with 2048, and cannot fire;
* of a TLS record longer than 1024 the rest waits in the TLS library until more
  arrives, because `select` looks at the socket; a record that arrives in parts
  raises and ends the stream.

With connections and calls:

* a remembered host key is lost when another writer of the whole `other_config`
  read it before; the next key shown is then accepted;
* two first connections that are offered different keys both accept theirs, and
  the record that is written last stays;
* old versions of Docker send no event for pause and unpause
  (`docker.py:223`): then what is published of a container that is paused other
  than by a plugin call is stale until the next event. `Published` and
  `PublishedIsFollowed` are about a Docker that tells each change;
* a socket error in a TLS connection is not converted and escapes the diagnosis;
  the probes of ncat and of the socket blame their layer when the connection
  merely breaks; an answer longer than the buffer is cut over TLS and raises
  over SSH;
* `xscontainer-prepare-vm:80` prints `docker.ERROR_CAUSE_NETWORK`, a name
  `docker.py` does not define.

With disks:

* a `create_config_drive` that fails after it has removed the old drive, at
  `VBD.create`, for want of a device or at `VBD.plug` (`coreos.py:278-282`), leaves
  a VM without a drive, or with one that is not plugged; the new disk is complete,
  but nobody attaches it (the run refutes `[][Usable # {} => Usable' # {}]_vars`);
* two concurrent `create_config_drive` may leave the VM with two drives, or the
  second fails at the removal; two first callers make two key pairs, of which
  one is lost, and a drive may hold that one;
* `import_disk` leaves a disk when the upload fails, `create_config_drive_iso` an
  ISO when it does, and nobody removes the disk of a call that failed (for
  `NoDiskForgotten` it is `abandoned`); a failing `umount` skips the rest of the
  tidying, and the tools stay mounted;
* the fallback to the default storage passes a reference for a uuid
  (`xscontainer-prepare-vm:183`) and fails; `get_cd_vbd_ref` returns None for a VM
  without a CD drive, so that the message for it never shows; a failure to
  insert the CD other than VBD_NOT_EMPTY is swallowed; the CD is ejected even
  when the user has answered no (216).

## 6. What is not modelled

* VM creation: the loop ignores `add` events, so a VM enters with its first
  modification or a refresh. The `finally` that logs out of the session, when
  that fails too. Sessions nobody holds are forgotten.
* Retries inside `client.api_call`, which is decorated twice: up to three
  renewals of the session for one failing call. The lock and the global
  session are part of DockerMonitor.
* In VmDisks a call to XAPI fails before it takes effect; answers that are lost
  are modelled in MonitoredVM and RemoteCalls only. Other keys of the pool's
  `other_config`, which `set_pool_other_config_values` writes back. What
  `create_config_drive` does after the drive is attached: it marks the VM as
  monitorable and reads the record of the disk.
* That the order in which `PBDs` of a storage are listed changes between two
  calls: `ServedByOwner` relies on it staying the same. A retry by the HTTP
  transport of `xmlrpclib`, beneath a forwarded call, which `CarriedOutOnce` does
  not see.
* `install_vm` of `coreos.py` (developer mode only: it downloads and installs an
  image), the text of the cloud-config template and its filter,
  `get_config_drive_configuration` and `export_disk`, which only read,
  `disable_gw_of_hi_mgmtnet_ref`, which always writes the same.
* The contents of certificates, the conversion to XML, logging, the example and
  test scripts, `setup.py` and the packaging.

## 7. Plan

Done, each with its proofs: the main loop, its threads and the secrets; the event
stream; connections, redirection and diagnosis; the pool key, config drives and
certificates. Left, in this order:

1. `XapiSession`: the decorators of `api_helper.py:21-76`, the lock and the
   global session with several callers, of which
   `reinit_global_xapi_session` in DockerMonitor would become the abstraction.
2. Lost answers in VmDisks, as `MaybeDone` of MonitoredVM.

A run is there for one question; where a proof answers it for every value of the
constants, no larger instance is kept.
