----------------------------- MODULE Connector -----------------------------
(***************************************************************************)
(* Connections to a VM: execute_ssh with prepare_ssh_client and the policy *)
(* for host keys of remote_helper.ssh, and execute_docker of               *)
(* remote_helper.tls.  A connection runs one command and ends well or with *)
(* an exception, by whose class the callers go on.                         *)
(*                                                                         *)
(* What lies between the host and the containers are layers, any of which  *)
(* may be broken.  The SSH host key of the VM is remembered in its         *)
(* other_config when it is first seen, by a lookup and a later write that  *)
(* other connections may come between.                                     *)
(***************************************************************************)
EXTENDS FiniteSets

CONSTANTS Calls, HostKeys, Absent

ASSUME HostKeysAssumption == Absent \notin HostKeys

VARIABLES
    mode,      \* get_vm_xscontainer_mode: "ssh" or "tls"
    broken,    \* the layers that do not work
    hostKey,   \* the SSH host key of the VM
    known,     \* get_ssh_hostkey
    conn,      \* [Calls -> Connection]
    accepted,  \* history: keys that were accepted since `known' was reset
    doubt      \* history: keys that two lookups contested, or whose record was lost

connVars == <<mode, broken, hostKey, known, conn, accepted, doubt>>
connWorld == <<mode, broken, hostKey>>
remembered == <<known, accepted, doubt>>

(* network: an address whose port answers; server: SSH, or Docker's TLS;   *)
(* key: the pool's key in authorized_keys, or the certificates; ncat; the  *)
(* socket of Docker; access to it; docker: it does what it is asked to.    *)
Layers == {"network", "server", "key", "ncat", "socket", "access", "docker"}

(* "address" is get_suitable_vm_ip by itself. *)
Commands == {"address", "docker", "echo", "ncat", "socket", "access"}

(* The layers of the VM behind the connection that a command needs. *)
Needs(command) ==
    IF command \in Layers \ {"docker"} THEN {command}
    ELSE IF command = "docker" /\ mode = "ssh" THEN {"ncat", "socket", "access"}
    ELSE {}

(* The exceptions: XSContainerException of an address ("network") or of    *)
(* Docker's answer ("docker"), AuthenticationException, VmHostKeyException,*)
(* other SshExceptions, TlsException, and errors of a socket.              *)
Errors == {"network", "docker", "auth", "hostkey", "ssh", "tls", "socket"}

NoConnection ==
    [pc |-> "none", command |-> "address", offered |-> Absent, error |-> "none"]

ConnGoes(c, t) == conn' = [conn EXCEPT ![c] = t]
ConnAt(c, pc) == [conn[c] EXCEPT !.pc = pc]

ConnFails(c, error) ==
    /\ ConnGoes(c, [NoConnection EXCEPT !.pc = "failed", !.error = error])
    /\ UNCHANGED <<connWorld, remembered>>

Open == {"address", "connect", "remember", "auth", "run", "answer"}
ConnPCs == {"none", "ok", "failed"} \cup Open

ConnBegin(c, command) ==
    /\ conn[c].pc = "none"
    /\ ConnGoes(c, [NoConnection EXCEPT !.pc = "address", !.command = command])
    /\ UNCHANGED <<connWorld, remembered>>

(* get_suitable_vm_ip, whose exception execute_ssh turns into its own. *)
Address(c) ==
    /\ conn[c].pc = "address"
    /\ \/ /\ "network" \notin broken
          /\ ConnGoes(c, ConnAt(c, IF conn[c].command = "address" THEN "ok"
                                                                  ELSE "connect"))
          /\ UNCHANGED <<connWorld, remembered>>
       \/ /\ "network" \in broken
          /\ ConnFails(c, IF mode = "tls" \/ conn[c].command = "address"
                            THEN "network" ELSE "ssh")

ConnectTls(c) ==
    /\ conn[c].pc = "connect" /\ mode = "tls"
    /\ \/ /\ broken \cap {"server", "key"} = {}
          /\ ConnGoes(c, ConnAt(c, "run"))
          /\ UNCHANGED <<connWorld, remembered>>
       \/ broken \cap {"server", "key"} # {} /\ ConnFails(c, "tls")

(* The keys others are about to write; and those that contest the record   *)
(* with one that is offered meanwhile.                                     *)
Pending(c) ==
    {conn[d].offered : d \in {e \in Calls \ {c} : conn[e].pc = "remember"}}

Contested(c, offered) ==
    IF Pending(c) \subseteq {offered} THEN {} ELSE Pending(c) \cup {offered}

(* Mutant: another key than the known one is as good as a first one. *)
ConnectSsh_any_key(c) ==
    /\ conn[c].pc = "connect" /\ mode = "ssh"
    /\ \/ "server" \in broken /\ ConnFails(c, "ssh")
       \/ /\ "server" \notin broken
          /\ ConnGoes(c, [ConnAt(c, "remember") EXCEPT !.offered = hostKey])
          /\ doubt' = doubt \cup Contested(c, hostKey)
          /\ UNCHANGED <<connWorld, known, accepted>>

(* missing_host_key: the VM offers its key, known or not. *)
ConnectSsh(c) ==
    /\ conn[c].pc = "connect" /\ mode = "ssh"
    /\ \/ "server" \in broken /\ ConnFails(c, "ssh")
       \/ /\ "server" \notin broken /\ known = Absent
          /\ ConnGoes(c, [ConnAt(c, "remember") EXCEPT !.offered = hostKey])
          /\ doubt' = doubt \cup Contested(c, hostKey)
          /\ UNCHANGED <<connWorld, known, accepted>>
       \/ /\ "server" \notin broken /\ known = hostKey
          /\ ConnGoes(c, [ConnAt(c, "auth") EXCEPT !.offered = hostKey])
          /\ accepted' = accepted \cup {hostKey}
          /\ UNCHANGED <<connWorld, known, doubt>>
       \/ /\ "server" \notin broken /\ known \notin {Absent, hostKey}
          /\ ConnFails(c, "hostkey")

(* set_ssh_hostkey; nothing is doubtful about the key if nobody is about   *)
(* to write another one.                                                   *)
Remember(c) ==
    LET key == conn[c].offered IN
    /\ conn[c].pc = "remember"
    /\ known' = key
    /\ accepted' = accepted \cup {key}
    /\ ConnGoes(c, ConnAt(c, "auth"))
    /\ doubt' = IF Contested(c, key) = {} THEN doubt \ {key} ELSE doubt
    /\ UNCHANGED connWorld

Authenticate(c) ==
    /\ conn[c].pc = "auth"
    /\ \/ /\ "key" \notin broken
          /\ ConnGoes(c, ConnAt(c, "run"))
          /\ UNCHANGED <<connWorld, remembered>>
       \/ "key" \in broken /\ ConnFails(c, "auth")

(* The command runs, or exits with another code than 0; Docker answers     *)
(* with another status than 2xx.                                           *)
Run(c) ==
    /\ conn[c].pc = "run"
    /\ LET missing == Needs(conn[c].command) \cap broken
           refused == conn[c].command = "docker" /\ "docker" \in broken
       IN  \/ missing # {} /\ ConnFails(c, "ssh")
           \/ missing = {} /\ refused /\ ConnFails(c, "docker")
           \/ /\ missing = {} /\ ~refused
              /\ ConnGoes(c, ConnAt(c, "answer"))
              /\ UNCHANGED <<connWorld, remembered>>

Answer(c) ==
    /\ conn[c].pc = "answer"
    /\ ConnGoes(c, [NoConnection EXCEPT !.pc = "ok"])
    /\ UNCHANGED <<connWorld, remembered>>

(* At any time; or there is more to read than MAX_BUFFER_SIZE.  Of TLS not *)
(* all errors become a TlsException.                                       *)
ConnBreaks(c) ==
    /\ conn[c].pc \in Open \ {"address"}
    /\ \E error \in IF mode = "ssh" THEN {"ssh"} ELSE {"tls", "socket"} :
          ConnFails(c, error)

(* Mutant: the client is not closed. *)
ConnEnd_left_open(c) ==
    /\ conn[c].pc \in {"ok", "failed"}
    /\ UNCHANGED connVars

(* It is closed, however it ended. *)
ConnEnd(c) ==
    /\ conn[c].pc \in {"ok", "failed"}
    /\ ConnGoes(c, NoConnection)
    /\ UNCHANGED <<connWorld, remembered>>

(***************************************************************************)
(* The VM and its users                                                    *)
(***************************************************************************)
Breaks ==
    /\ \E l \in Layers : broken' = (broken \ {l}) \cup ({l} \ broken)
    /\ UNCHANGED <<mode, hostKey, conn, remembered>>

(* The VM gets a new host key. *)
NewHostKey ==
    /\ hostKey' \in HostKeys \ {hostKey}
    /\ UNCHANGED <<mode, broken, conn, remembered>>

(* xe vm-param-remove param-name=other-config param-key=xscontainer-sshhostkey *)
ResetHostKey ==
    /\ known' = Absent /\ accepted' = {}
    /\ UNCHANGED <<connWorld, conn, doubt>>

(* Somebody writes back an other_config read before the key was known. *)
LoseHostKey ==
    /\ known # Absent /\ known' = Absent
    /\ doubt' = doubt \cup {known}
    /\ UNCHANGED <<connWorld, conn, accepted>>

-----------------------------------------------------------------------------
ConnInit ==
    /\ mode \in {"ssh", "tls"}
    /\ broken \in SUBSET Layers
    /\ hostKey \in HostKeys /\ known \in HostKeys \cup {Absent}
    /\ conn = [c \in Calls |-> NoConnection]
    /\ accepted = {} /\ doubt = {}

ConnStep(c) ==
    \/ Address(c)
    \/ ConnectTls(c)
    \/ ConnectSsh(c)
    \/ Remember(c)
    \/ Authenticate(c)
    \/ Run(c)
    \/ Answer(c)

ConnNext ==
    \/ \E c \in Calls :
          \/ \E command \in Commands : ConnBegin(c, command)
          \/ ConnStep(c)
          \/ ConnBreaks(c)
          \/ ConnEnd(c)
    \/ Breaks \/ NewHostKey \/ ResetHostKey \/ LoseHostKey

ConnSpec == ConnInit /\ [][ConnNext]_connVars

-----------------------------------------------------------------------------
(***************************************************************************)
(* Properties                                                              *)
(***************************************************************************)
(* Every host key somebody accepted, from whatever host, since the record  *)
(* was last reset is the one on record, but for keys of which the record   *)
(* was lost to a stale write of other_config, and keys that two            *)
(* connections were offered at once while none was on record: a lost or    *)
(* contested key does not make a third one acceptable, and the one that is *)
(* remembered last is kept again.  (MyHostKeyPolicy.missing_host_key)      *)
HostKeyKept == accepted \subseteq doubt \cup {known}

=============================================================================
