--------------------------- MODULE DockerMonitor ---------------------------
(***************************************************************************)
(* The xscontainer-monitor service of one host: monitor_host, the object   *)
(* DockerMonitor it drives, and the life cycle of the monitoring threads   *)
(* it starts (docker_monitor/__init__.py).                                 *)
(*                                                                         *)
(* XAPI, the toolstack of the host, is the environment: it owns the VM     *)
(* records, reports which of them changed since an event token, and may    *)
(* stop, restart, and move the host to another pool.  One process reads    *)
(* the records, keeps the registry `vms' of the VMs it monitors, and       *)
(* starts and stops one thread per registered VM.  What a thread does      *)
(* while it runs is the subject of module MonitoredVM; here it is started, *)
(* asked to stop, returns or dies, and may renew the session it shares     *)
(* with the main loop.                                                     *)
(***************************************************************************)
EXTENDS Naturals, FiniteSets

CONSTANTS
    VMs,         \* opaque references of VMs
    Hosts,       \* references this host may have (it changes on a pool join)
    Instances,   \* identities of the threads that may run for one VM at once
    Sessions,    \* XAPI session handles
    Records,     \* the VM records considered, a subset of VMRecord
    NULLREF,     \* api_helper.NULLREF
    Gone,        \* in place of a record: the VM was destroyed
    NoEvent,     \* nothing to process for a VM
    NoInstance,  \* the VM is not in the registry
    NoHost, NoSession

(***************************************************************************)
(* The part of a VM record the service looks at.  `registration' is        *)
(* other_config[REGISTRATION_KEY]; `tls' says whether other_config holds   *)
(* TLS secret uuids.                                                       *)
(***************************************************************************)
VMRecord ==
    [registration      : {"absent", "True", "False"},
     power_state       : {"Running", "Halted", "Suspended"},
     resident_on       : Hosts \cup {NULLREF},
     guest_metrics     : {"metrics", NULLREF},
     is_control_domain : BOOLEAN,
     tls               : BOOLEAN]

ASSUME RecordsAssumption ==
    /\ Records \subseteq VMRecord
    /\ Gone \notin Records
    /\ NoEvent \notin Records \cup {Gone}

ASSUME SentinelAssumption ==
    /\ NoInstance \notin Instances
    /\ NoHost \notin Hosts
    /\ NoSession \notin Sessions
    /\ NULLREF \notin Hosts

VARIABLES
    \* XAPI
    xapiUp,           \* does XAPI answer?
    thisHost,         \* the reference XAPI gives to this host
    rec,              \* the VM records
    validSessions,    \* the handles XAPI accepts
    changed,          \* VMs changed since the main loop's event token
    \* the main loop
    pc,               \* where monitor_host is
    session,          \* its local variable `session'
    globalSession,    \* api_helper.GLOBAL_XAPI_SESSION
    lockHeld,         \* GLOBAL_XAPI_SESSION_LOCK left acquired by a thread
    host,             \* DOCKER_MONITOR.host
    batch,            \* records and events fetched and not yet processed
    vms,              \* DOCKER_MONITOR.vms
    tls_secret_cache, \* the VMs DOCKER_MONITOR.tls_secret_cache has secrets of
    \* the monitoring threads
    alive,            \* the instances that run
    stopreq           \* those of them whose _stop_monitoring_request is set

xapiVars   == <<xapiUp, thisHost, rec, validSessions, changed>>
loopVars   == <<pc, session, globalSession, lockHeld, host, batch>>
registryVars == <<vms, tls_secret_cache>>
threadVars == <<alive, stopreq>>
vars == <<xapiUp, thisHost, rec, validSessions, changed,
          pc, session, globalSession, lockHeld, host, batch,
          vms, tls_secret_cache, alive, stopreq>>

PCs == {"connect", "token", "refresh", "work", "backoff",
        "teardown", "crashed", "exited"}

(* The process is there: a thread can run only then. *)
Up == pc \notin {"crashed", "exited"}

(* A call made with session s gets an answer that is not a failure. *)
SessionOk(s) == xapiUp /\ s \in validSessions

Nothing == [v \in VMs |-> NoEvent]
NoRegistry == [v \in VMs |-> NoInstance]
NoThreads == [v \in VMs |-> {}]

(* Events are recorded for the main loop while it holds a token. *)
HoldsToken == pc \in {"refresh", "work"}
Notify(v) == changed' = IF HoldsToken THEN changed \cup {v} ELSE changed

(***************************************************************************)
(* DockerMonitor                                                           *)
(***************************************************************************)
_should_monitor(r) ==
    /\ r.registration = "True"
    /\ r.power_state = "Running"
    /\ r.resident_on = host
    /\ r.guest_metrics # NULLREF
    /\ ~r.is_control_domain

is_registered(v) == vms[v] # NoInstance

(* A new MonitoredVM object with its thread; its stop list starts empty. *)
start_monitoring(v) ==
    \E i \in Instances \ alive[v] :
        /\ vms' = [vms EXCEPT ![v] = i]
        /\ alive' = [alive EXCEPT ![v] = @ \cup {i}]
        /\ stopreq' = stopreq

(* Mutants of stop_monitoring: the thread is not told; the registry is not *)
(* told; a thread that is no more is told.                                 *)
stop_monitoring_thread_not_told(v) ==
    vms' = [vms EXCEPT ![v] = NoInstance] /\ UNCHANGED <<alive, stopreq>>

stop_monitoring_still_registered(v) ==
    /\ stopreq' = [stopreq EXCEPT ![v] = @ \cup (alive[v] \cap {vms[v]})]
    /\ UNCHANGED <<vms, alive>>

stop_monitoring_dead_thread(v) ==
    /\ vms' = [vms EXCEPT ![v] = NoInstance]
    /\ stopreq' = [stopreq EXCEPT ![v] = @ \cup {vms[v]}]
    /\ alive' = alive

(* Out of the registry, and "stop" in the list of its thread, if it runs. *)
stop_monitoring(v) ==
    /\ vms' = [vms EXCEPT ![v] = NoInstance]
    /\ stopreq' = [stopreq EXCEPT ![v] = @ \cup (alive[v] \cap {vms[v]})]
    /\ alive' = alive

(* Mutant: secrets are remembered of VMs the service monitors only. *)
remember_tls_secrets_of_monitored(v, r) ==
    tls_secret_cache' = IF r.tls /\ is_registered(v) THEN tls_secret_cache \cup {v}
                                                     ELSE tls_secret_cache

(* The secrets of any VM seen are remembered, monitored or not. *)
remember_tls_secrets(v, r) ==
    tls_secret_cache' = IF r.tls THEN tls_secret_cache \cup {v}
                                 ELSE tls_secret_cache

process_vmrecord(v, r) ==
    /\ \/ ~is_registered(v) /\ _should_monitor(r) /\ start_monitoring(v)
       \/ is_registered(v) /\ ~_should_monitor(r) /\ stop_monitoring(v)
       \/ /\ is_registered(v) <=> _should_monitor(r)
          /\ UNCHANGED <<vms, alive, stopreq>>
    /\ remember_tls_secrets(v, r)

(* Removing secrets is a call to XAPI; the registry is not touched. *)
process_vm_del(v) ==
    /\ v \in tls_secret_cache => SessionOk(globalSession)
    /\ tls_secret_cache' = tls_secret_cache \ {v}
    /\ UNCHANGED <<vms, alive, stopreq>>

(* Every registered thread is asked to stop; the registry stays as it is. *)
tear_down_all ==
    /\ stopreq' = [v \in VMs |-> stopreq[v] \cup (alive[v] \cap {vms[v]})]
    /\ alive' = alive

(***************************************************************************)
(* The session shared by the main loop and the threads.                    *)
(***************************************************************************)
(* login_with_password: XAPI must answer.  Handles nobody holds any more   *)
(* are forgotten here; XAPI keeps them.                                    *)
Login(s) ==
    /\ xapiUp
    /\ s \notin {globalSession, session}
    /\ globalSession' = s
    /\ validSessions' = (validSessions \cap {globalSession, session}) \cup {s}

reinit_global_xapi_session(s) == ~lockHeld /\ Login(s) /\ lockHeld' = lockHeld


(***************************************************************************)
(* XAPI                                                                    *)
(***************************************************************************)
(* Any change of a record, and the registration key is one of its fields.  *)
ModifyVM(v) ==
    /\ xapiUp /\ rec[v] # Gone
    /\ \E r \in Records \ {rec[v]} : rec' = [rec EXCEPT ![v] = r]
    /\ Notify(v)
    /\ UNCHANGED <<xapiUp, thisHost, validSessions,
                   loopVars, registryVars, threadVars>>

DestroyVM(v) ==
    /\ xapiUp /\ rec[v] # Gone
    /\ rec[v].power_state = "Halted"
    /\ rec' = [rec EXCEPT ![v] = Gone]
    /\ Notify(v)
    /\ UNCHANGED <<xapiUp, thisHost, validSessions,
                   loopVars, registryVars, threadVars>>

XapiStops ==
    /\ xapiUp
    /\ xapiUp' = FALSE
    /\ validSessions' = {}
    /\ UNCHANGED <<thisHost, rec, changed, loopVars, registryVars, threadVars>>

(* It comes back with the same reference for this host or, when the host   *)
(* joined a pool meanwhile, with another.                                  *)
XapiStarts ==
    /\ ~xapiUp
    /\ xapiUp' = TRUE
    /\ thisHost' \in Hosts
    /\ UNCHANGED <<rec, validSessions, changed,
                   loopVars, registryVars, threadVars>>

(***************************************************************************)
(* monitor_host                                                            *)
(***************************************************************************)
(* A session (the global one, or a first login), the reference of this     *)
(* host, and the DockerMonitor told about it.                              *)
Connect ==
    /\ pc = "connect"
    /\ \/ /\ globalSession = NoSession
          /\ \E s \in Sessions : Login(s) /\ session' = s
       \/ /\ SessionOk(globalSession)
          /\ session' = globalSession
          /\ UNCHANGED <<globalSession, validSessions>>
    /\ host' = thisHost
    /\ pc' = "token"
    /\ UNCHANGED <<xapiUp, thisHost, rec, changed, lockHeld, batch,
                   registryVars, threadVars>>

(* event_from with no token: from here on XAPI tells what changes. *)
GetToken ==
    /\ pc = "token" /\ SessionOk(session)
    /\ pc' = "refresh"
    /\ changed' = {}
    /\ UNCHANGED <<xapiUp, thisHost, rec, validSessions, session,
                   globalSession, lockHeld, host, batch,
                   registryVars, threadVars>>

(* Mutant: a loop that reconnects counts on its registry and does not     *)
(* look at the records.                                                    *)
Refresh_first_time_only ==
    /\ pc = "refresh" /\ SessionOk(globalSession)
    /\ pc' = "work"
    /\ batch' = [v \in VMs |-> IF rec[v] = Gone \/ vms # NoRegistry
                                 THEN NoEvent ELSE rec[v]]
    /\ UNCHANGED <<xapiVars, session, globalSession, lockHeld, host,
                   registryVars, threadVars>>

(* refresh: all records of VMs that exist, each of which is then processed. *)
Refresh ==
    /\ pc = "refresh" /\ SessionOk(globalSession)
    /\ pc' = "work"
    /\ batch' = [v \in VMs |-> IF rec[v] = Gone THEN NoEvent ELSE rec[v]]
    /\ UNCHANGED <<xapiVars, session, globalSession, lockHeld, host,
                   registryVars, threadVars>>

(* Mutant: the token kept is not the one that came with the events but one *)
(* taken when they have been processed.                                    *)
Process_then_token(v) ==
    /\ pc = "work" /\ batch[v] # NoEvent
    /\ \/ batch[v] # Gone /\ process_vmrecord(v, batch[v])
       \/ batch[v] = Gone /\ process_vm_del(v)
    /\ batch' = [batch EXCEPT ![v] = NoEvent]
    /\ changed' = {}
    /\ UNCHANGED <<xapiUp, thisHost, rec, validSessions,
                   pc, session, globalSession, lockHeld, host>>

(* One turn of the loop over records or events, in any order. *)
Process(v) ==
    /\ pc = "work" /\ batch[v] # NoEvent
    /\ \/ batch[v] # Gone /\ process_vmrecord(v, batch[v])
       \/ batch[v] = Gone /\ process_vm_del(v)
    /\ batch' = [batch EXCEPT ![v] = NoEvent]
    /\ UNCHANGED <<xapiVars, pc, session, globalSession, lockHeld, host>>

(* event_from returns: the latest snapshot of each VM changed since the    *)
(* token, or that it was deleted, and a new token.                         *)
EventFrom ==
    /\ pc = "work" /\ batch = Nothing /\ changed # {}
    /\ SessionOk(session)
    /\ batch' = [v \in VMs |-> IF v \in changed THEN rec[v] ELSE NoEvent]
    /\ changed' = {}
    /\ UNCHANGED <<xapiUp, thisHost, rec, validSessions, pc, session,
                   globalSession, lockHeld, host, registryVars, threadVars>>

(* The session the next call to XAPI uses, if there is a call next: the    *)
(* events are asked for with the local session, everything else goes       *)
(* through the client and the global one.                                  *)
CallSessions ==
    {s \in {session} : pc = "token" \/ (pc = "work" /\ batch = Nothing)}
    \cup
    {s \in {globalSession} \ {NoSession} :
        \/ pc \in {"connect", "refresh"}
        \/ /\ pc = "work"
           /\ \E v \in VMs : batch[v] = Gone /\ v \in tls_secret_cache}

(* A call that gets no answer, or a failure for an answer: what was        *)
(* fetched is dropped, the session is logged out, the loop backs off.  The *)
(* local `session' is assigned again before it is next used.               *)
CallFails ==
    /\ CallSessions # {} \/ pc = "connect"
    /\ pc' = "backoff"
    /\ validSessions' =
         IF pc = "connect" THEN validSessions ELSE validSessions \ {session}
    /\ session' = NoSession
    /\ batch' = Nothing
    /\ changed' = {}
    /\ UNCHANGED <<xapiUp, thisHost, rec, globalSession, lockHeld, host,
                   registryVars, threadVars>>

(* It has to fail: XAPI is down, or does not know the session. *)
CallCannotSucceed ==
    \/ \E s \in CallSessions : ~SessionOk(s)
    \/ pc = "connect" /\ globalSession = NoSession /\ ~xapiUp

(* After the sleep: a new global session, and from the top. *)
Reconnect ==
    /\ pc = "backoff"
    /\ \E s \in Sessions : reinit_global_xapi_session(s)
    /\ pc' = "connect"
    /\ UNCHANGED <<xapiUp, thisHost, rec, changed, session, host, batch,
                   registryVars, threadVars>>

(* The memory of the process, its threads with it, is gone. *)
ProcessEnds(at) ==
    /\ pc' = at
    /\ session' = NoSession /\ globalSession' = NoSession
    /\ lockHeld' = FALSE
    /\ host' = NoHost
    /\ batch' = Nothing
    /\ vms' = NoRegistry /\ tls_secret_cache' = {}
    /\ alive' = NoThreads /\ stopreq' = NoThreads
    /\ validSessions' = {} /\ changed' = {}
    /\ UNCHANGED <<xapiUp, thisHost, rec>>

(* The login in the handler raises, and nothing catches that. *)
ReconnectRaises ==
    /\ pc = "backoff" /\ ~lockHeld /\ ~xapiUp
    /\ ProcessEnds("crashed")

(* An exception the loop does not expect, or a kill. *)
Crash ==
    /\ Up
    /\ ProcessEnds("crashed")

(* interrupt_handler: SIGTERM or SIGINT, wherever the main loop is. *)
Signal ==
    /\ Up /\ pc # "teardown"
    /\ pc' = "teardown"
    /\ tear_down_all
    /\ batch' = Nothing /\ changed' = {}
    /\ UNCHANGED <<xapiUp, thisHost, rec, validSessions, session,
                   globalSession, lockHeld, host, registryVars>>

Exit ==
    /\ pc = "teardown"
    /\ ProcessEnds("exited")

(* systemd restarts the service after a crash, an operator after an exit. *)
ServiceStart(from) ==
    /\ pc = from
    /\ pc' = "connect"
    /\ UNCHANGED <<xapiVars, session, globalSession, lockHeld, host, batch,
                   registryVars, threadVars>>

(***************************************************************************)
(* Monitoring threads                                                      *)
(***************************************************************************)
ThreadEnds(v, i) ==
    /\ alive' = [alive EXCEPT ![v] = @ \ {i}]
    /\ stopreq' = [stopreq EXCEPT ![v] = @ \ {i}]
    /\ UNCHANGED <<xapiVars, loopVars, registryVars>>

(* _monitoring_loop ends only when its stop list is not empty ... *)
ThreadReturns(v, i) ==
    /\ i \in alive[v] \cap stopreq[v]
    /\ ThreadEnds(v, i)

(* ... or when an exception leaves it; the registry does not learn of it.  *)
ThreadDies(v, i) ==
    /\ i \in alive[v]
    /\ ThreadEnds(v, i)

(* A failed call of a thread makes it renew the global session. *)
ThreadReinit ==
    /\ \E v \in VMs : alive[v] # {}
    /\ \E s \in Sessions : reinit_global_xapi_session(s)
    /\ UNCHANGED <<xapiUp, thisHost, rec, changed, pc, session, host, batch,
                   registryVars, threadVars>>

(* If that login raises, the lock stays acquired. *)
ThreadReinitRaises ==
    /\ \E v \in VMs : alive[v] # {}
    /\ ~xapiUp /\ ~lockHeld
    /\ lockHeld' = TRUE
    /\ UNCHANGED <<xapiVars, pc, session, globalSession, host, batch,
                   registryVars, threadVars>>

-----------------------------------------------------------------------------
Init ==
    /\ xapiUp \in BOOLEAN /\ thisHost \in Hosts
    /\ rec \in [VMs -> Records]
    /\ validSessions = {} /\ changed = {}
    /\ pc = "connect"
    /\ session = NoSession /\ globalSession = NoSession /\ lockHeld = FALSE
    /\ host = NoHost
    /\ batch = Nothing
    /\ vms = NoRegistry /\ tls_secret_cache = {}
    /\ alive = NoThreads /\ stopreq = NoThreads

Environment ==
    \/ \E v \in VMs : ModifyVM(v) \/ DestroyVM(v)
    \/ XapiStops
    \/ XapiStarts
    \/ Crash
    \/ Signal
    \/ ServiceStart("exited")

MainLoop ==
    \/ Connect
    \/ GetToken
    \/ Refresh
    \/ \E v \in VMs : Process(v)
    \/ EventFrom
    \/ CallFails
    \/ Reconnect
    \/ ReconnectRaises
    \/ Exit
    \/ ServiceStart("crashed")

Threads ==
    \/ \E v \in VMs, i \in Instances : ThreadReturns(v, i) \/ ThreadDies(v, i)
    \/ ThreadReinit
    \/ ThreadReinitRaises

Next == Environment \/ MainLoop \/ Threads

(* The loop goes on, up to failures of calls that could have succeeded;    *)
(* a thread that was asked to stop returns.                                *)
Fairness ==
    /\ WF_vars(MainLoop /\ (pc' = "backoff" => CallCannotSucceed))
    /\ \A v \in VMs, i \in Instances : WF_vars(ThreadReturns(v, i))

Spec == Init /\ [][Next]_vars

FairSpec == Spec /\ Fairness

-----------------------------------------------------------------------------
(***************************************************************************)
(* Properties                                                              *)
(***************************************************************************)
(* Types; a stop request is pending only at a thread that runs, and        *)
(* nothing of a process outlives it.                                       *)
TypeOK ==
    /\ xapiUp \in BOOLEAN /\ thisHost \in Hosts
    /\ rec \in [VMs -> Records \cup {Gone}]
    /\ validSessions \subseteq Sessions /\ changed \subseteq VMs
    /\ pc \in PCs
    /\ session \in Sessions \cup {NoSession}
    /\ globalSession \in Sessions \cup {NoSession}
    /\ lockHeld \in BOOLEAN
    /\ host \in Hosts \cup {NoHost}
    /\ batch \in [VMs -> Records \cup {Gone, NoEvent}]
    /\ vms \in [VMs -> Instances \cup {NoInstance}]
    /\ tls_secret_cache \subseteq VMs
    /\ alive \in [VMs -> SUBSET Instances]
    /\ stopreq \in [VMs -> SUBSET Instances]
    /\ \A v \in VMs : stopreq[v] \subseteq alive[v]

(* A thread that was not asked to stop is the one the registry knows of:   *)
(* start and stop orders, failures and reconnects in any order never leave *)
(* a thread running that nobody can stop, nor two that both go on.         *)
(* (DockerMonitor.start_monitoring, stop_monitoring, set_host)             *)
NoOrphanThread ==
    \A v \in VMs : alive[v] \ stopreq[v] \subseteq {vms[v]}

(* As long as the service is not shutting down, the thread of a registered *)
(* VM was not asked to stop: a VM that is to be monitored again gets a new *)
(* thread, never the one on its way out.  (stop_monitoring, tear_down_all) *)
RegisteredNotStopped ==
    pc # "teardown" => \A v \in VMs : vms[v] \notin stopreq[v]

(* The record of an existing VM is dealt with: it is not to be processed   *)
(* now, and XAPI has no change of it to report.                            *)
UpToDate(v) ==
    pc = "work" /\ rec[v] # Gone /\ v \notin changed /\ batch[v] = NoEvent

(* No change is missed between the token, the records, and the events:     *)
(* whenever the loop has dealt with a VM, that VM is in the registry       *)
(* exactly when its current record asks for it.  (monitor_host: "Avoid     *)
(* race conditions - get a current event token"; process_vmrecord)         *)
NoMissedChange ==
    \A v \in VMs :
        UpToDate(v) => (is_registered(v) <=> _should_monitor(rec[v]))

(* The TLS secrets of a VM the loop has dealt with are remembered, so that *)
(* its destruction tidies them, whether or not it was ever monitored.      *)
(* (process_vmrecord: "Remember TLS secrets of VMs to tidy")               *)
SecretsRemembered ==
    \A v \in VMs : UpToDate(v) /\ rec[v].tls => v \in tls_secret_cache

(* What keeps the service from coming to rest. *)
Disturbance ==
    \/ Environment
    \/ CallFails /\ ~CallCannotSucceed

Settles == <>[][~Disturbance]_vars /\ <>[]xapiUp

(* The registry, relative to the host as XAPI knows it, and the threads.   *)
InStep ==
    /\ host = thisHost
    /\ \A v \in VMs :
         rec[v] # Gone =>
            /\ is_registered(v) <=> _should_monitor(rec[v])
            /\ ~is_registered(v) => alive[v] = {}

(* When XAPI answers and nothing changes any more, the service, unless it  *)
(* was told to exit, comes to monitor exactly the VMs it should on this    *)
(* host and the other threads end, whatever sequence of restarts of XAPI,  *)
(* pool joins, crashes and failures came before - provided that no thread  *)
(* leaves the session lock behind.  (monitor_host)                         *)
Converges ==
    Settles /\ []~lockHeld => <>[](pc = "exited" \/ InStep)

(* The threads of each VM live as module MonitorThread says.               *)
Thread(v) ==
    INSTANCE MonitorThread WITH current <- vms[v], alive <- alive[v],
                                stopreq <- stopreq[v]

(* The service starts, stops and loses the threads of each VM only in the  *)
(* ways MonitorThread allows: among others, it never starts a second one   *)
(* while one is in its registry, and never takes a stop request back.      *)
(* (start_monitoring, stop_monitoring, tear_down_all)                      *)
ImplementsMonitorThread ==
    /\ \A v \in VMs : Thread(v)!Init
    /\ [][\A v \in VMs : [Thread(v)!Next]_(Thread(v)!vars)]_vars

-----------------------------------------------------------------------------
(***************************************************************************)
(* Expectations the code does not meet                                     *)
(***************************************************************************)
(* "Could not connect to XAPI ... Will retry" (monitor_host): the loop     *)
(* gets back in step with XAPI after any failure.                          *)
AlwaysRetries == Settles => <>[](pc = "exited" \/ InStep)

(* "Could not connect to VM %s, will retry" (_monitoring_loop): in the end *)
(* every VM in the registry has a thread that looks after it.              *)
RegisteredIsMonitored ==
    Settles /\ []~lockHeld =>
        <>[](\A v \in VMs : is_registered(v) => vms[v] \in alive[v])

=============================================================================
