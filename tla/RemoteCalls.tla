---------------------------- MODULE RemoteCalls ----------------------------
(***************************************************************************)
(* The callers of module Connector: the operations of the plugin, which    *)
(* the host that gets them passes on to the one that runs the VM or has    *)
(* access to the disk (redirect_operation_owned_by_other_slave), and       *)
(* xscontainer-prepare-vm, which gives the VM the pool's key, verifies     *)
(* that Docker answers, and else says what is wrong                        *)
(* (determine_error_cause).                                                *)
(*                                                                         *)
(* One VM and one storage repository.  A behaviour has calls of the plugin,*)
(* of the script or of threads that monitor: they meet in the connector.   *)
(***************************************************************************)
EXTENDS Connector, Naturals

CONSTANTS
    Hosts, NoHost,
    Concurrent,   \* how many calls of either kind there are at once (a bound)
    MaxChanges,   \* how often the surroundings change then (a bound)
    MaxBroken,    \* how many layers are broken at first (a bound)
    MaxHops       \* forwards are counted up to this one (a bound)

Ops == {"plugin", "prepare", "monitor"}

ASSUME HostsAssumption ==
    /\ NoHost \notin Hosts
    /\ Concurrent \in [Ops -> Nat] /\ MaxChanges \in [Ops -> Nat]
    /\ MaxBroken \in Nat /\ MaxHops \in Nat

VARIABLES
    op,        \* who calls in this behaviour
    host,      \* resident_on of the VM, or NoHost when it is halted
    attached,  \* the hosts whose PBD of the storage is attached
    call,      \* the calls
    times,     \* how often the operation of a call was carried out
    changes    \* how often the surroundings have changed

callVars == <<op, host, attached, call, times, changes>>
vars == <<connVars, callVars>>

(* hops: how often it was forwarded; changed: the surroundings did, since  *)
(* the call or the diagnosis began; failed: the outcome; probe and cause:  *)
(* the command that is tried, and what was blamed.                         *)
Idle == [pc |-> "idle", kind |-> "start", at |-> NoHost, hops |-> 0, changed |-> 0,
         failed |-> FALSE, probe |-> "address", cause |-> {}]

Goes(c, t) == call' = [call EXCEPT ![c] = t]
At(c, pc) == [call[c] EXCEPT !.pc = pc]
To(c, pc) == Goes(c, At(c, pc))

(* What the host did is over; the answer goes back the way the call came.  *)
Served(c, pc) == [Idle EXCEPT !.pc = pc, !.hops = call[c].hops]
Returns(c, failed) == Goes(c, [Served(c, "return") EXCEPT !.failed = failed])

surroundings == <<op, host, attached, changes>>

(* What is broken, in the words of determine_error_cause.                  *)
Guilty ==
    IF mode = "tls"
      THEN (broken \cap {"network"}) \cup
           (IF broken \cap {"server", "key"} # {} THEN {"certificates"} ELSE {})
      ELSE (broken \ {"docker"}) \cup
           (IF known \in {Absent, hostKey} THEN {} ELSE {"host key"})

(* History: what is broken changes while others look for it. *)
Noticed(calls) ==
    [c \in Calls |->
        IF Guilty' # Guilty /\ calls[c].pc \in {"diagnose", "ask"}
          THEN [calls[c] EXCEPT !.changed = 1] ELSE calls[c]]

(* One call more. *)
Begins(c) ==
    /\ call[c].pc \in {"idle", "returned"}
    /\ Cardinality({d \in Calls \ {c} : call[d].pc # "idle"}) < Concurrent[op]

(***************************************************************************)
(* The plugin                                                              *)
(***************************************************************************)
(* Operations on a container have the argument vmuuid, create_config_drive *)
(* vmuuid and sruuid, get_config_drive_configuration vdiuuid.              *)
ContainerKinds == {"start", "pause"}
Kinds == ContainerKinds \cup {"create drive", "read drive"}

(* The first PBD that is attached; the order of PBDs is always the same.   *)
HostOfStorage == IF attached = {} THEN NoHost ELSE CHOOSE h \in attached : TRUE

RedirectTo(kind) ==
    IF kind # "read drive" /\ host # NoHost THEN host
    ELSE IF kind \notin ContainerKinds THEN HostOfStorage
    ELSE NoHost

Begin(c) ==
    /\ op = "plugin" /\ Begins(c)
    /\ \E kind \in Kinds, h \in Hosts :
          Goes(c, [Idle EXCEPT !.pc = "look", !.kind = kind, !.at = h])
    /\ times' = [times EXCEPT ![c] = 0]
    /\ UNCHANGED <<connVars, surroundings>>

(* Mutant: the host does not notice that it is the one. *)
IsHere_never(c) == RedirectTo(call[c].kind) = NoHost

IsHere(c) == RedirectTo(call[c].kind) \in {NoHost, call[c].at}

(* The host that is called looks who should be; the one that gets the call *)
(* then looks again.                                                       *)
Forward(c) ==
    /\ call[c].pc = "look" /\ ~IsHere(c)
    /\ Goes(c, [call[c] EXCEPT !.at = RedirectTo(call[c].kind),
                               !.hops = IF @ < MaxHops THEN @ + 1 ELSE @])
    /\ UNCHANGED <<connVars, surroundings, times>>

ForwardFails(c) ==
    /\ call[c].pc = "look" /\ ~IsHere(c)
    /\ Returns(c, TRUE)
    /\ UNCHANGED <<connVars, surroundings, times>>

Dispatch(c) ==
    /\ call[c].pc = "look" /\ IsHere(c)
    /\ \/ /\ call[c].kind \in ContainerKinds
          /\ To(c, "post") /\ ConnBegin(c, "docker")
       \/ /\ call[c].kind \notin ContainerKinds
          /\ To(c, "local") /\ UNCHANGED connVars
    /\ UNCHANGED <<surroundings, times>>

(* An operation on this host, that is modelled in VmDisks or only reads.   *)
Local(c) ==
    /\ call[c].pc = "local"
    /\ \E failed, done \in BOOLEAN :
         /\ failed \/ done
         /\ Returns(c, failed)
         /\ times' = [times EXCEPT ![c] = IF done THEN 1 ELSE 0]
    /\ UNCHANGED <<connVars, surroundings>>

(* A step of the connection; a POST is carried out when the command runs.  *)
Connection(c) ==
    /\ ConnStep(c)
    /\ times' = IF /\ call[c].pc = "post"
                   /\ conn[c].pc = "run" /\ conn'[c].pc = "answer"
                  THEN [times EXCEPT ![c] = @ + 1] ELSE times
    /\ call' = Noticed(call)
    /\ UNCHANGED surroundings

ConnectionBreaks(c) ==
    /\ ConnBreaks(c)
    /\ Goes(c, IF call[c].pc = "diagnose" THEN [call[c] EXCEPT !.changed = 1]
                                           ELSE call[c])
    /\ UNCHANGED <<surroundings, times>>

(* Mutant: what failed is tried once more. *)
PostEnds_retry(c) ==
    /\ call[c].pc = "post" /\ ConnEnd(c)
    /\ \/ conn[c].pc = "ok" /\ Returns(c, FALSE)
       \/ conn[c].pc = "failed" /\ To(c, "look")
    /\ UNCHANGED <<surroundings, times>>

(* _post_api; a message tells the user of a failure.  After pause and      *)
(* unpause update_docker_ps_workaround lists the containers, if there is a *)
(* list of them.                                                           *)
PostEnds(c) ==
    /\ call[c].pc = "post" /\ ConnEnd(c)
    /\ \/ conn[c].pc = "ok" /\ call[c].kind = "pause" /\ Goes(c, Served(c, "refresh"))
       \/ conn[c].pc = "ok" /\ Returns(c, FALSE)
       \/ conn[c].pc = "failed" /\ Returns(c, TRUE)
    /\ UNCHANGED <<surroundings, times>>

RefreshBegin(c) ==
    /\ call[c].pc = "refresh" /\ ConnBegin(c, "docker")
    /\ UNCHANGED callVars

RefreshEnds(c) ==
    /\ call[c].pc = "refresh" /\ ConnEnd(c)
    /\ Returns(c, conn[c].pc = "failed")
    /\ UNCHANGED <<surroundings, times>>

(* The way back, on which each hop may fail. *)
Return(c) ==
    /\ call[c].pc = "return"
    /\ \E failed \in {call[c].failed, call[c].failed \/ call[c].hops > 0} :
            Goes(c, [Idle EXCEPT !.pc = "returned", !.failed = failed])
    /\ UNCHANGED <<connVars, surroundings, times>>

(***************************************************************************)
(* xscontainer-prepare-vm                                                  *)
(***************************************************************************)
PrepareBegin(c) ==
    /\ op = "prepare" /\ Begins(c)
    /\ To(c, "push")
    /\ UNCHANGED <<connVars, surroundings, times>>

(* push_ssh_key; or the user runs the script that installs certificates,   *)
(* or says so only.  Either may be refused, or fail.                       *)
Push(c) ==
    /\ call[c].pc = "push"
    /\ UNCHANGED <<mode, hostKey, conn, remembered, surroundings, times>>
    /\ \/ /\ mode = "ssh" => broken \cap {"network", "server"} = {}
          /\ broken' = broken \ {"key"}
          /\ call' = Noticed([call EXCEPT ![c].pc = "verify"])
       \/ mode = "tls" /\ To(c, "verify") /\ UNCHANGED broken
       \/ Goes(c, Idle) /\ UNCHANGED broken

VerifyBegin(c) ==
    /\ call[c].pc = "verify" /\ ConnBegin(c, "docker")
    /\ UNCHANGED callVars

(* Docker has answered, and the VM is registered; or the cause is looked   *)
(* for; or an exception nobody expects ends the script.                    *)
VerifyEnds(c) ==
    /\ call[c].pc = "verify" /\ ConnEnd(c)
    /\ Goes(c, IF conn[c].pc = "ok" \/ conn[c].error = "socket" THEN Idle
               ELSE [Idle EXCEPT !.pc = "diagnose"])
    /\ UNCHANGED <<surroundings, times>>

Probe(c) ==
    /\ call[c].pc = "diagnose" /\ ConnBegin(c, call[c].probe)
    /\ UNCHANGED callVars

(* Over TLS a request, whatever its answer, is all there is to try. *)
NextProbe ==
    IF mode = "ssh"
      THEN [address |-> "echo", echo |-> "ncat", ncat |-> "socket",
            socket |-> "access", access |-> "none"]
      ELSE [address |-> "echo", echo |-> "none"]

Probed(c, cause, next) ==
    Goes(c, [call[c] EXCEPT !.pc = IF next = "none" THEN "ask" ELSE "diagnose",
                            !.probe = IF next = "none" THEN "address" ELSE next,
                            !.cause = cause])

ProbeOk(c) ==
    /\ call[c].pc = "diagnose" /\ conn[c].pc = "ok" /\ ConnEnd(c)
    /\ Probed(c, call[c].cause, NextProbe[call[c].probe])
    /\ UNCHANGED <<surroundings, times>>

(* Mutant: the clause for any SshException comes first. *)
Blamed_any_first(probe, error) ==
    IF probe = "address" THEN {"network"}
    ELSE IF probe # "echo" THEN {probe}
    ELSE IF error = "tls" THEN {"certificates"}
    ELSE IF mode = "ssh" THEN {"server"} ELSE {}

(* What a failing probe says, if it is an exception it knows. *)
Blamed(probe, error) ==
    IF probe = "address" THEN {"network"}
    ELSE IF probe # "echo" THEN {probe}
    ELSE CASE error = "auth"    -> {"key"}
           [] error = "hostkey" -> {"host key"}
           [] error = "ssh"     -> {"server"}
           [] error = "tls"     -> {"certificates"}
           [] OTHER             -> {}

(* Without ncat the others are still tried.  Over TLS an exception that is *)
(* no TlsException ends the script.                                        *)
ProbeFails(c) ==
    /\ call[c].pc = "diagnose" /\ conn[c].pc = "failed" /\ ConnEnd(c)
    /\ LET blamed == Blamed(call[c].probe, conn[c].error)
       IN  \/ /\ blamed # {}
              /\ Probed(c, call[c].cause \cup blamed,
                        IF call[c].probe = "ncat" THEN "socket" ELSE "none")
           \/ blamed = {} /\ Goes(c, Idle)
    /\ UNCHANGED <<surroundings, times>>

(* "Do you wish to retry?" *)
Ask(c) ==
    /\ call[c].pc = "ask"
    /\ Goes(c, Idle) \/ Goes(c, [Idle EXCEPT !.pc = "verify"])
    /\ UNCHANGED <<connVars, surroundings, times>>

(***************************************************************************)
(* Threads that monitor VMs, as far as they connect                        *)
(***************************************************************************)
RequestBegin(c) ==
    /\ op = "monitor" /\ Begins(c)
    /\ To(c, "request") /\ ConnBegin(c, "docker")
    /\ UNCHANGED <<surroundings, times>>

RequestEnds(c) ==
    /\ call[c].pc = "request" /\ ConnEnd(c)
    /\ Goes(c, Idle)
    /\ UNCHANGED <<surroundings, times>>

(***************************************************************************)
(* The surroundings                                                        *)
(***************************************************************************)
Changing ==
    /\ changes < MaxChanges[op] /\ changes' = changes + 1
    /\ call' = [c \in Calls |->
                  IF call[c].pc \in {"look", "post", "local", "diagnose", "ask"}
                    THEN [call[c] EXCEPT !.changed = @ + 1] ELSE call[c]]
    /\ UNCHANGED <<op, times>>

(* The VM starts, migrates or halts. *)
Move ==
    /\ op = "plugin" /\ Changing
    /\ host' \in (Hosts \cup {NoHost}) \ {host}
    /\ broken' = (broken \ {"network"}) \cup
                 (IF host' = NoHost THEN {"network"} ELSE {})
    /\ UNCHANGED <<mode, hostKey, conn, remembered, attached>>

Plug ==
    /\ op = "plugin" /\ Changing
    /\ \E h \in Hosts : attached' = (attached \ {h}) \cup ({h} \ attached)
    /\ UNCHANGED <<connVars, host>>

Change ==
    /\ op # "plugin" /\ Changing
    /\ Breaks \/ NewHostKey \/ ResetHostKey \/ LoseHostKey
    /\ UNCHANGED <<host, attached>>

-----------------------------------------------------------------------------
Init ==
    /\ op \in Ops
    /\ ConnInit
    /\ Cardinality(broken) <= MaxBroken
    /\ host \in Hosts \cup {NoHost} /\ (host = NoHost => "network" \in broken)
    /\ attached \in SUBSET Hosts
    /\ op # "plugin" => host = (CHOOSE h \in Hosts : TRUE) /\ attached = {}
    /\ op = "plugin" => known = hostKey
    /\ hostKey = CHOOSE k \in HostKeys : TRUE
    /\ call = [c \in Calls |-> Idle]
    /\ times = [c \in Calls |-> 0]
    /\ changes = 0

Plugin(c) ==
    \/ Forward(c) \/ ForwardFails(c) \/ Dispatch(c) \/ Local(c)
    \/ PostEnds(c) \/ RefreshBegin(c) \/ RefreshEnds(c) \/ Return(c)

Prepare(c) ==
    \/ VerifyBegin(c) \/ VerifyEnds(c) \/ Probe(c) \/ ProbeOk(c) \/ ProbeFails(c)

Step(c) == Plugin(c) \/ Prepare(c) \/ RequestEnds(c) \/ Connection(c)

Next ==
    \/ \E c \in Calls :
          \/ Begin(c) \/ PrepareBegin(c) \/ Push(c) \/ Ask(c) \/ RequestBegin(c)
          \/ Step(c)
          \/ ConnectionBreaks(c)
    \/ Move \/ Plug \/ Change

(* Hosts and VMs answer. *)
Spec == Init /\ [][Next]_vars /\ \A c \in Calls : WF_vars(Step(c))

-----------------------------------------------------------------------------
(***************************************************************************)
(* Properties                                                              *)
(***************************************************************************)
PCs == {"idle", "look", "post", "local", "refresh", "return", "returned",
        "push", "verify", "diagnose", "ask", "request"}

(* Types; only calls that are to connect do.  *)
TypeOK ==
    /\ broken \subseteq Layers
    /\ attached \subseteq Hosts /\ host \in Hosts \cup {NoHost}
    /\ \A c \in Calls :
        /\ call[c].pc \in PCs /\ call[c].kind \in Kinds
        /\ call[c].probe \in Commands
        /\ conn[c].pc \in ConnPCs /\ conn[c].error \in Errors \cup {"none"}
        /\ conn[c].pc # "none" =>
             call[c].pc \in {"post", "refresh", "verify", "diagnose", "request"}
        /\ call[c].pc \in {"post", "request"} => conn[c].pc # "none"

(* An operation on a container is carried out at most once, and was if the *)
(* call succeeds, wherever it was forwarded and whatever fails on the way. *)
(* (redirect_operation_owned_by_other_slave, _interact_with_api)           *)
Status(c) ==
    CASE op # "plugin" \/ call[c].pc = "idle" -> "none"
      [] call[c].pc = "returned" -> IF call[c].failed THEN "failed" ELSE "succeeded"
      [] OTHER -> "called"

Operation == INSTANCE RemoteOperation WITH status <- [c \in Calls |-> Status(c)]
CarriedOutOnce == Operation!Spec

(* A call is served by the host that runs the VM, or has access to the     *)
(* storage, unless that changed since the call was made; and it is not     *)
(* forwarded more than once for each change and once more.                 *)
(* (redirect_operation_owned_by_other_slave)                               *)
ServedByOwner ==
    \A c \in Calls :
        call[c].pc \in {"look", "post", "local"} =>
            /\ call[c].pc # "look" /\ call[c].changed = 0 => IsHere(c)
            /\ call[c].hops <= call[c].changed + 1

(* A diagnosis names only what is broken, and something if anything is     *)
(* that it knows of, unless something changed since it began.              *)
(* (determine_error_cause of ssh and tls)                                  *)
Diagnosed ==
    \A c \in Calls :
        call[c].pc = "ask" /\ call[c].changed = 0 =>
            /\ call[c].cause \subseteq Guilty
            /\ Guilty # {} => call[c].cause # {}

(* Every call comes back, and every diagnosis to an end, even if the VM    *)
(* moves while the call is on its way.                                     *)
(* (redirect_operation_owned_by_other_slave, determine_error_cause)        *)
ComesBack ==
    \A c \in Calls :
        call[c].pc \notin {"idle", "push", "ask"} ~>
            call[c].pc \in {"idle", "ask", "returned"}

=============================================================================
