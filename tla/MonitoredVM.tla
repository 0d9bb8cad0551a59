---------------------------- MODULE MonitoredVM ----------------------------
(***************************************************************************)
(* One VM: the threads that monitor it (MonitoredVM._monitoring_loop), the *)
(* Docker daemon they follow, the plugin calls that register, deregister   *)
(* and refresh it, and the one thing they all share, the other_config of   *)
(* the VM record.                                                          *)
(*                                                                         *)
(* A step is one call to XAPI or to Docker.  In particular an update of    *)
(* other_config is what update_other_config makes of it: the map is read,  *)
(* changed, and written back whole, and anybody may write in between.      *)
(* The main loop is reduced to what DockerMonitor shows of it: it starts a *)
(* thread when the VM is to be monitored and none is registered, and tells *)
(* the registered one to stop when it is not.                              *)
(***************************************************************************)
EXTENDS Naturals, Sequences, FiniteSets

CONSTANTS
    Instances,  \* threads that may run at once
    Clients,    \* concurrent callers of the plugin
    ClientOps,  \* what they call: a subset of Operations
    Versions,   \* the states of the containers of the VM
    Faults,     \* what may go wrong: a subset of FaultKinds
    NoInstance, Absent

Operations == {"register", "deregister", "mark", "pause", "update"}

(* XAPI calls that fail or whose answer is lost; Docker calls that fail    *)
(* (util.XSContainerException), the daemon stopping; exceptions            *)
(* _monitoring_loop does not expect; the end of the monitor process.       *)
FaultKinds == {"xapi", "docker", "unexpected", "crash"}

ASSUME ParametersAssumption ==
    /\ ClientOps \subseteq Operations
    /\ Faults \subseteq FaultKinds
    /\ NoInstance \notin Instances
    /\ Absent \notin Versions \cup {"daemon"}

VARIABLES
    other_config, \* of the VM record
    running,      \* the VM runs (on this host, with tools)
    dockerUp,     \* the Docker daemon in it answers
    containers,   \* what it would answer about its containers
    current,      \* the registered thread
    stop,         \* [Instances -> BOOLEAN]: _stop_monitoring_request
    th,           \* the threads
    leaked,       \* a message in XAPI that no thread remembers
    cl            \* the plugin calls

vars == <<other_config, running, dockerUp, containers, current, stop, th,
          leaked, cl>>
world == <<running, dockerUp, containers>>

DockerKeys == {"docker_ps", "docker_info", "docker_version"}
UpdateOrder == <<"docker_info", "docker_version", "docker_ps">>
WipeOrder   == <<"docker_ps", "docker_info", "docker_version">>

(* What Docker answers, as the value of a key. *)
Content(key) == IF key = "docker_ps" THEN containers ELSE "daemon"

OtherConfig ==
    [registration   : {"absent", "True", "False"},
     docker_ps      : Versions \cup {Absent},
     docker_info    : {"daemon", Absent},
     docker_version : {"daemon", Absent}]

Empty == [registration |-> "absent", docker_ps |-> Absent,
          docker_info |-> Absent, docker_version |-> Absent]

(* A thread: where it is; why it updates or wipes keys and which are left; *)
(* what it read from Docker and from XAPI and will write; its connection   *)
(* to /events with the kinds of events not yet read; _error_message.       *)
Idle == [pc |-> "idle", why |-> "none", left |-> <<>>, value |-> Absent,
         snap |-> Empty, stream |-> "none", events |-> {}, message |-> FALSE]

NoCall == [pc |-> "idle", op |-> "none", left |-> <<>>, value |-> Absent,
           snap |-> Empty]

Alive == {i \in Instances : th[i].pc # "idle"}

(* The thread ends, by a return or by an exception; nobody looks at its    *)
(* _error_message again.                                                   *)
Ends(i) ==
    /\ th' = [th EXCEPT ![i] = Idle]
    /\ stop' = [stop EXCEPT ![i] = FALSE]
    /\ leaked' = (leaked \/ th[i].message)

(* The thread goes on; t is its new state. *)
Goes(i, t) == th' = [th EXCEPT ![i] = t] /\ UNCHANGED <<stop, leaked>>

To(i, pc) == [th[i] EXCEPT !.pc = pc]

(* wipe_docker_other_config is about to start. *)
ToWipe(i, why) ==
    [th[i] EXCEPT !.pc = "wipe", !.why = why, !.left = WipeOrder,
                  !.stream = "none", !.events = {}]

(* The updates of an event go on from where the event was taken. *)
ToUpdate(i, why, keys) ==
    [th[i] EXCEPT !.pc = "fetch", !.why = why, !.left = keys]

(* A value that was used is forgotten. *)
Forget(t) == [t EXCEPT !.value = Absent, !.snap = Empty, !.left = <<>>]
Done(i, pc) == [Forget(To(i, pc)) EXCEPT !.why = "none"]

(***************************************************************************)
(* The thread, when nothing fails                                          *)
(***************************************************************************)
(* get_uuid; the loop is preceded by a first wipe. *)
Begin(i) ==
    /\ th[i].pc = "uuid"
    /\ Goes(i, ToWipe(i, "begin"))
    /\ UNCHANGED <<other_config, world, current, cl>>

(* Mutant: a stopped thread leaves as it is. *)
LoopHead_no_final(i) ==
    /\ th[i].pc = "head"
    /\ \/ stop[i] /\ Ends(i)
       \/ ~stop[i] /\ Goes(i, ToUpdate(i, "loop", UpdateOrder))
    /\ UNCHANGED <<other_config, world, current, cl>>

LoopHead(i) ==
    /\ th[i].pc = "head"
    /\ Goes(i, IF stop[i] THEN To(i, "final")
                          ELSE ToUpdate(i, "loop", UpdateOrder))
    /\ UNCHANGED <<other_config, world, current, cl>>

(* The answer of Docker, rendered, is an argument of update_other_config,  *)
(* so it is there before the map is read.                                  *)
Fetch(i) ==
    /\ th[i].pc = "fetch" /\ dockerUp
    /\ Goes(i, [To(i, "get") EXCEPT !.value = Content(Head(th[i].left))])
    /\ UNCHANGED <<other_config, world, current, cl>>

GetOtherConfig(i) ==
    /\ th[i].pc = "get"
    /\ Goes(i, [To(i, "set") EXCEPT !.snap = other_config])
    /\ UNCHANGED <<other_config, world, current, cl>>

Written(i) == [th[i].snap EXCEPT ![Head(th[i].left)] = th[i].value]

(* Mutant: an event is done with when it has been handled, not when that *)
(* begins.                                                               *)
AfterSet_acknowledge(i) ==
    LET rest == Tail(th[i].left) IN
    IF rest # <<>> THEN [Forget(To(i, "fetch")) EXCEPT !.left = rest]
    ELSE IF th[i].why = "event" THEN [Forget(To(i, "listen")) EXCEPT !.events = {}]
    ELSE Forget(To(i, "clear"))

AfterSet(i) ==
    LET rest == Tail(th[i].left) IN
    IF rest # <<>> THEN [Forget(To(i, "fetch")) EXCEPT !.left = rest]
    ELSE IF th[i].why = "event" THEN Forget(To(i, "listen"))
    ELSE Forget(To(i, "clear"))

SetOtherConfig(i) ==
    /\ th[i].pc = "set"
    /\ other_config' = Written(i)
    /\ Goes(i, AfterSet(i))
    /\ UNCHANGED <<world, current, cl>>

(* All three updates worked: the error message, if any, is destroyed. *)
ClearMessage(i) ==
    /\ th[i].pc = "clear"
    /\ Goes(i, [To(i, "subscribe") EXCEPT !.message = FALSE])
    /\ UNCHANGED <<other_config, world, current, cl>>

(* GET /events: what happens from now on will be told. *)
Subscribe(i) ==
    /\ th[i].pc = "subscribe" /\ dockerUp
    /\ Goes(i, [To(i, "listen") EXCEPT !.stream = "open", !.why = "event"])
    /\ UNCHANGED <<other_config, world, current, cl>>

(* handle_docker_event.  A container event refreshes docker_ps.  The       *)
(* second branch refreshes docker_info; only 'delete' gets there.          *)
HandleEvent(i) ==
    /\ th[i].pc = "listen" /\ ~stop[i]
    /\ \E e \in th[i].events :
          LET key == IF e = "container" THEN "docker_ps" ELSE "docker_info"
          IN  Goes(i, [ToUpdate(i, "event", <<key>>) EXCEPT !.events = @ \ {e}])
    /\ UNCHANGED <<other_config, world, current, cl>>

(* Mutants: no wipe, no second try, no look at the stop request. *)
ListenEnds_no_wipe(i) ==
    /\ th[i].pc = "listen"
    /\ stop[i] \/ (th[i].stream = "closed" /\ th[i].events = {})
    /\ Goes(i, [Done(i, "sleep") EXCEPT !.stream = "none", !.events = {}])
    /\ UNCHANGED <<other_config, world, current, cl>>

ListenEnds_for_good(i) ==
    /\ th[i].pc = "listen"
    /\ stop[i] \/ (th[i].stream = "closed" /\ th[i].events = {})
    /\ Goes(i, ToWipe(i, "unexpected"))
    /\ UNCHANGED <<other_config, world, current, cl>>

ListenEnds_with_stream_only(i) ==
    /\ th[i].pc = "listen"
    /\ th[i].stream = "closed" /\ th[i].events = {}
    /\ Goes(i, ToWipe(i, "ended"))
    /\ UNCHANGED <<other_config, world, current, cl>>

(* The generator ends: a stop request, or the end of the stream. *)
ListenEnds(i) ==
    /\ th[i].pc = "listen"
    /\ stop[i] \/ (th[i].stream = "closed" /\ th[i].events = {})
    /\ Goes(i, ToWipe(i, "ended"))
    /\ UNCHANGED <<other_config, world, current, cl>>

(* One remove_from_other_config of a wipe, and after the last of them the  *)
(* thread goes on, or the exception that led here does.                    *)
RemoveKey(i) ==
    /\ th[i].pc = "wipe"
    /\ other_config' = [other_config EXCEPT ![Head(th[i].left)] = Absent]
    /\ LET rest == Tail(th[i].left)
           why  == th[i].why
       IN  \/ rest # <<>> /\ Goes(i, [th[i] EXCEPT !.left = rest])
           \/ rest = <<>> /\ why = "begin" /\ Goes(i, Done(i, "head"))
           \/ rest = <<>> /\ why = "ended" /\ Goes(i, Done(i, "sleep"))
           \/ rest = <<>> /\ why = "raised" /\ Goes(i, Done(i, "failed"))
           \/ rest = <<>> /\ why = "unexpected" /\ Ends(i)
    /\ UNCHANGED <<world, current, cl>>

(* The handler: a message once MONITOR_TIMEOUT_WARNING_S have passed since *)
(* the thread began, unless there is one already.                          *)
SendMessage(i) ==
    /\ th[i].pc = "failed"
    /\ \E late \in BOOLEAN :
          Goes(i, [To(i, "sleep") EXCEPT !.message = @ \/ late])
    /\ UNCHANGED <<other_config, world, current, cl>>

(* Up to MONITORRETRYSLEEPINS. *)
Sleep(i) ==
    /\ th[i].pc = "sleep"
    /\ Goes(i, To(i, "head"))
    /\ UNCHANGED <<other_config, world, current, cl>>

(* The last wipe of the error message, and the thread returns. *)
Final(i) ==
    /\ th[i].pc = "final"
    /\ th' = [th EXCEPT ![i] = Idle]
    /\ stop' = [stop EXCEPT ![i] = FALSE]
    /\ UNCHANGED <<other_config, world, current, leaked, cl>>

(***************************************************************************)
(* The thread, when something fails                                        *)
(***************************************************************************)
(* An exception the loop expects takes it to its handler - through the     *)
(* wipe in the `finally' if it was listening.                              *)
Caught(i) ==
    IF th[i].why = "event" \/ th[i].pc = "subscribe"
      THEN ToWipe(i, "raised")
      ELSE Done(i, "failed")

(* Whether a failed write was done is not known. *)
MaybeDone(i) ==
    other_config' \in
        {other_config,
         CASE th[i].pc = "set" -> Written(i)
           [] th[i].pc = "wipe" -> [other_config EXCEPT ![Head(th[i].left)] = Absent]
           [] OTHER -> other_config}

(* XenAPI.Failure.  The calls before the loop are not in a `try'; those    *)
(* about the error message shrug it off.                                   *)
XapiFails(i) ==
    /\ "xapi" \in Faults
    /\ MaybeDone(i)
    /\ \/ /\ th[i].pc = "uuid" \/ (th[i].pc = "wipe" /\ th[i].why = "begin")
          /\ Ends(i)
       \/ /\ th[i].pc = "wipe" /\ th[i].why # "begin"
          /\ Goes(i, Done(i, "failed"))
       \/ /\ th[i].pc \in {"fetch", "get", "set", "subscribe"}
          /\ Goes(i, Caught(i))
       \/ /\ th[i].pc = "clear"
          /\ th' = [th EXCEPT ![i] = [To(i, "subscribe") EXCEPT !.message = FALSE]]
          /\ leaked' = (leaked \/ th[i].message)
          /\ stop' = stop
       \/ /\ th[i].pc = "failed" /\ ~th[i].message
          /\ th' = [th EXCEPT ![i] = To(i, "sleep")]
          /\ leaked' \in {leaked, TRUE}
          /\ stop' = stop
       \/ /\ th[i].pc = "final"
          /\ Ends(i)
    /\ UNCHANGED <<world, current, cl>>

(* util.XSContainerException.  While an event is handled it is logged and  *)
(* that is that.                                                           *)
DockerFails(i) ==
    /\ \/ "docker" \in Faults
       \/ th[i].pc \in {"fetch", "subscribe"} /\ ~dockerUp
       \/ th[i].pc = "listen" /\ th[i].stream = "closed"
    /\ \/ /\ th[i].pc = "fetch"
          /\ Goes(i, IF th[i].why = "event" THEN Forget(To(i, "listen"))
                                            ELSE Caught(i))
       \/ /\ th[i].pc = "subscribe" \/ (th[i].pc = "listen" /\ ~stop[i])
          /\ Goes(i, Caught(i))
    /\ UNCHANGED <<other_config, world, current, cl>>

(* Any other exception ends the thread, through the `finally' if it was    *)
(* listening.                                                              *)
Unexpected(i) ==
    /\ "unexpected" \in Faults
    /\ th[i].pc \notin {"idle", "head", "sleep"}
    /\ MaybeDone(i)
    /\ IF th[i].why = "event" \/ th[i].pc = "subscribe"
         THEN Goes(i, ToWipe(i, "unexpected"))
         ELSE Ends(i)
    /\ UNCHANGED <<world, current, cl>>

(***************************************************************************)
(* The main loop, as DockerMonitor has it                                  *)
(***************************************************************************)
Wanted == running /\ other_config.registration = "True"

StartMonitoring ==
    /\ current = NoInstance /\ Wanted
    /\ \E i \in Instances \ Alive :
         /\ current' = i
         /\ th' = [th EXCEPT ![i].pc = "uuid"]
    /\ UNCHANGED <<other_config, world, stop, leaked, cl>>

(* Mutant: the thread is told to stop and stays in the registry. *)
StopMonitoring_still_registered ==
    /\ current # NoInstance /\ ~Wanted
    /\ current' = current
    /\ stop' = [i \in Instances |-> stop[i] \/ (i = current /\ i \in Alive)]
    /\ UNCHANGED <<other_config, world, th, leaked, cl>>

StopMonitoring ==
    /\ current # NoInstance /\ ~Wanted
    /\ current' = NoInstance
    /\ stop' = [i \in Instances |-> stop[i] \/ (i = current /\ i \in Alive)]
    /\ UNCHANGED <<other_config, world, th, leaked, cl>>

(* The process ends and, sooner or later, another is started. *)
MonitorEnds ==
    /\ "crash" \in Faults
    /\ current' = NoInstance
    /\ th' = [i \in Instances |-> Idle]
    /\ stop' = [i \in Instances |-> FALSE]
    /\ leaked' = (leaked \/ \E i \in Instances : th[i].message)
    /\ UNCHANGED <<other_config, world, cl>>

(***************************************************************************)
(* The VM and Docker                                                       *)
(***************************************************************************)
(* Connections to a daemon that goes away are closed; what was received    *)
(* before can still be read.                                               *)
StreamsClose ==
    [i \in Instances |->
        [th[i] EXCEPT !.stream = IF @ = "open" THEN "closed" ELSE @]]

Halt ==
    /\ running
    /\ running' = FALSE /\ dockerUp' = FALSE
    /\ th' = StreamsClose
    /\ UNCHANGED <<other_config, containers, current, stop, leaked, cl>>

Boot ==
    /\ ~running
    /\ running' = TRUE /\ dockerUp' = TRUE
    /\ UNCHANGED <<other_config, containers, current, stop, th, leaked, cl>>

DockerStops ==
    /\ "docker" \in Faults /\ dockerUp
    /\ dockerUp' = FALSE
    /\ th' = StreamsClose
    /\ UNCHANGED <<other_config, running, containers, current, stop, leaked, cl>>

DockerStarts ==
    /\ running /\ ~dockerUp
    /\ dockerUp' = TRUE
    /\ UNCHANGED <<other_config, running, containers, current, stop, th,
                   leaked, cl>>

(* Those who listen are told. *)
Tell(e) ==
    th' = [i \in Instances |->
             [th[i] EXCEPT !.events =
                IF th[i].stream = "open" THEN @ \cup {e} ELSE @]]

ContainersChange ==
    /\ dockerUp
    /\ containers' \in Versions \ {containers}
    /\ Tell("container")
    /\ UNCHANGED <<other_config, running, dockerUp, current, stop, leaked, cl>>

ImageDeleted ==
    /\ dockerUp
    /\ Tell("image")
    /\ UNCHANGED <<other_config, world, current, stop, leaked, cl>>

(***************************************************************************)
(* Plugin calls, each in a process of its own                              *)
(***************************************************************************)
ClientAt(c, pc) == [cl[c] EXCEPT !.pc = pc]
ClientGoes(c, t) ==
    /\ cl' = [cl EXCEPT ![c] = t]
    /\ UNCHANGED <<world, current, stop, th, leaked>>

(* register and deregister update the registration key; mark_monitorable   *)
(* deregisters a VM that does not have it; pause and unpause refresh       *)
(* docker_ps where there is one; `update' is any other update of           *)
(* other_config: the SSH host key, the TLS secrets.                        *)
ClientCall(c) ==
    /\ cl[c].pc = "idle"
    /\ \E op \in ClientOps :
          ClientGoes(c, [NoCall EXCEPT !.op = op,
                           !.pc = IF op \in {"mark", "pause"} THEN "check"
                                                              ELSE "get"])
    /\ UNCHANGED other_config

ClientCheck(c) ==
    /\ cl[c].pc = "check"
    /\ ClientGoes(c,
         CASE cl[c].op = "mark" ->
                IF other_config.registration = "absent"
                  THEN [ClientAt(c, "get") EXCEPT !.op = "deregister"]
                  ELSE NoCall
           [] cl[c].op = "pause" ->
                IF other_config.docker_ps # Absent THEN ClientAt(c, "fetch")
                                                   ELSE NoCall)
    /\ UNCHANGED other_config

ClientFetch(c) ==
    /\ cl[c].pc = "fetch"
    /\ ClientGoes(c, IF dockerUp
                       THEN [ClientAt(c, "get") EXCEPT !.value = containers]
                       ELSE NoCall)
    /\ UNCHANGED other_config

ClientGet(c) ==
    /\ cl[c].pc = "get"
    /\ ClientGoes(c, [ClientAt(c, "set") EXCEPT !.snap = other_config])
    /\ UNCHANGED other_config

ClientSet(c) ==
    /\ cl[c].pc = "set"
    /\ other_config' =
         CASE cl[c].op = "register" -> [cl[c].snap EXCEPT !.registration = "True"]
           [] cl[c].op = "deregister" -> [cl[c].snap EXCEPT !.registration = "False"]
           [] cl[c].op = "pause" -> [cl[c].snap EXCEPT !.docker_ps = cl[c].value]
           [] cl[c].op = "update" -> cl[c].snap
    /\ ClientGoes(c, IF cl[c].op = "deregister"
                       THEN [ClientAt(c, "wipe") EXCEPT !.snap = Empty,
                                                        !.left = WipeOrder]
                       ELSE NoCall)

ClientRemoveKey(c) ==
    /\ cl[c].pc = "wipe"
    /\ other_config' = [other_config EXCEPT ![Head(cl[c].left)] = Absent]
    /\ ClientGoes(c, IF Len(cl[c].left) > 1
                       THEN [cl[c] EXCEPT !.left = Tail(@)]
                       ELSE NoCall)

ClientFails(c) ==
    /\ "xapi" \in Faults /\ cl[c].pc # "idle"
    /\ ClientGoes(c, NoCall)
    /\ UNCHANGED other_config

-----------------------------------------------------------------------------
Init ==
    /\ other_config \in {[Empty EXCEPT !.registration = r] : r \in {"absent", "True"}}
    /\ running \in BOOLEAN /\ dockerUp = running
    /\ containers \in Versions
    /\ current = NoInstance
    /\ stop = [i \in Instances |-> FALSE]
    /\ th = [i \in Instances |-> Idle]
    /\ leaked = FALSE
    /\ cl = [c \in Clients |-> NoCall]

(* What a thread does of itself; a call to a Docker that is down fails.    *)
ThreadStep(i) ==
    \/ Begin(i)
    \/ LoopHead(i)
    \/ Fetch(i)
    \/ GetOtherConfig(i)
    \/ SetOtherConfig(i)
    \/ ClearMessage(i)
    \/ Subscribe(i)
    \/ HandleEvent(i)
    \/ ListenEnds(i)
    \/ RemoveKey(i)
    \/ SendMessage(i)
    \/ Sleep(i)
    \/ Final(i)
    \/ DockerFails(i)

ClientStep(c) ==
    \/ ClientCheck(c)
    \/ ClientFetch(c)
    \/ ClientGet(c)
    \/ ClientSet(c)
    \/ ClientRemoveKey(c)

MainStep == StartMonitoring \/ StopMonitoring

Environment ==
    \/ Halt
    \/ Boot
    \/ DockerStops
    \/ ContainersChange
    \/ ImageDeleted
    \/ MonitorEnds
    \/ \E i \in Instances : XapiFails(i) \/ Unexpected(i)
    \/ \E c \in Clients : ClientCall(c) \/ ClientFails(c)

Next ==
    \/ \E i \in Instances : ThreadStep(i)
    \/ \E c \in Clients : ClientStep(c)
    \/ MainStep
    \/ DockerStarts
    \/ Environment

Spec == Init /\ [][Next]_vars

(* Threads, calls and the main loop go on; no more is asked of the rest    *)
(* than that a Docker in a running VM comes back.                          *)
Fairness ==
    /\ \A i \in Instances : WF_vars(ThreadStep(i))
    /\ \A c \in Clients : WF_vars(ClientStep(c))
    /\ WF_vars(MainStep)
    /\ WF_vars(DockerStarts)

FairSpec == Spec /\ Fairness

-----------------------------------------------------------------------------
(***************************************************************************)
(* Properties                                                              *)
(***************************************************************************)
PCs == {"idle", "uuid", "wipe", "head", "fetch", "get", "set", "clear",
        "subscribe", "listen", "failed", "sleep", "final"}

(* Types; only threads that run have a stop request, and only while they   *)
(* listen a connection; the thread the registry knows was not asked to     *)
(* stop.                                                                   *)
TypeOK ==
    /\ other_config \in OtherConfig
    /\ running \in BOOLEAN /\ dockerUp \in BOOLEAN /\ (dockerUp => running)
    /\ containers \in Versions
    /\ current \in Instances \cup {NoInstance}
    /\ leaked \in BOOLEAN
    /\ stop \in [Instances -> BOOLEAN]
    /\ \A i \in Instances :
        /\ th[i].pc \in PCs
        /\ th[i].snap \in OtherConfig
        /\ th[i].value \in Versions \cup {"daemon", Absent}
        /\ th[i].message \in BOOLEAN
        /\ th[i].events \subseteq {"container", "image"}
        /\ th[i].stream # "none" <=> (th[i].why = "event")
        /\ stop[i] => i \in Alive /\ i # current

(* The thread has published docker_ps and will see that it is kept up to   *)
(* date or wiped.                                                          *)
Follows(i) ==
    \/ th[i].pc \in {"clear", "subscribe", "listen"}
    \/ th[i].why = "event"
    \/ /\ th[i].pc = "wipe" /\ th[i].why # "begin"
       /\ Head(th[i].left) = "docker_ps"

(* As long as XAPI answers, a list of containers is in the VM record only  *)
(* while a thread listens for what would change it: whatever Docker or the *)
(* VM does, the list goes before the thread stops looking.                 *)
(* (_monitoring_loop: the `finally')                                       *)
PublishedIsFollowed ==
    other_config.docker_ps # Absent => \E i \in Instances : Follows(i)

(* As long as XAPI answers, an error message is there only while a thread  *)
(* tries and fails: no thread that ended, and none that reached the events *)
(* of its VM, has one.  (_monitoring_loop: "Make sure that we don't leave  *)
(* back error messsages for VMs that are not monitored anymore")           *)
NoMessageLeft ==
    /\ ~leaked
    /\ \A i \in Instances :
        th[i].message => /\ i \in Alive
                         /\ th[i].pc \notin {"subscribe", "listen"}
                         /\ th[i].why # "event"

(* What a thread writes when it handled the last event it was told of is   *)
(* what Docker would answer now: no change that happens while an event is  *)
(* handled is overlooked, whatever else goes on.  (handle_docker_event)    *)
EventHandledIsFresh ==
    [][\A i \in Instances :
        (/\ th[i].pc = "set" /\ th[i].why = "event"
         /\ Head(th[i].left) = "docker_ps"
         /\ th'[i].pc = "listen" /\ th'[i].stream = "open"
         /\ "container" \notin th'[i].events)
        => other_config'.docker_ps = containers']_vars

(* The threads are those MonitorThread describes; in particular one that   *)
(* is asked to stop returns, wherever it is and whatever fails meanwhile.  *)
(* (_monitoring_loop, execute_docker_data_listen)                          *)
Threads == INSTANCE MonitorThread WITH
              alive <- Alive, stopreq <- {i \in Instances : stop[i]}

ImplementsMonitorThread == Threads!FairSpec

(* The environment comes to rest. *)
Disturbance ==
    \/ Environment
    \/ \E i \in Instances : dockerUp /\ th[i].stream # "closed" /\ DockerFails(i)

Settles == <>[][~Disturbance]_vars

(* When nothing fails or changes any more, a VM that is to be monitored    *)
(* has all three docker keys for good.  (_monitoring_loop)                 *)
Published ==
    Settles => <>[](Wanted => \A k \in DockerKeys : other_config[k] # Absent)

(* And one that is not has no docker_ps. *)
Unpublished == Settles => <>[](~Wanted => other_config.docker_ps = Absent)

-----------------------------------------------------------------------------
(***************************************************************************)
(* Expectations the code does not meet                                     *)
(***************************************************************************)
(* "It also can be deregistered anytime" (xscontainer-pluginexample): a VM *)
(* that was deregistered, and that nobody registers, stays so.             *)
DeregisteredStays ==
    [][other_config.registration = "False" =>
        other_config'.registration = "False"]_vars

(* The VM runs throughout, no other_config changes between the reading and *)
(* the writing of it, and the VM is registered again only when the main    *)
(* loop has let its thread go.                                             *)
Undisturbed ==
    /\ running
    /\ \A i \in Instances : th[i].pc = "set" => th[i].snap = other_config
    /\ \A c \in Clients :
        /\ cl[c].pc = "set" => cl[c].snap = other_config
        /\ cl[c].op = "register" => current = NoInstance

(* "After a moment, we can see the running Container in the                *)
(* VM.other-[c]onfig:docker_ps" (xscontainer-pluginexample), which         *)
(* deregisters and registers the VM just before, so that one thread        *)
(* follows another.  No lost update is to blame (Undisturbed).             *)
SeenAfterRegistering ==
    Settles /\ []Undisturbed => <>[](Wanted => other_config.docker_ps # Absent)

=============================================================================
