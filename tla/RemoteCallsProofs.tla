------------------------- MODULE RemoteCallsProofs -------------------------
(***************************************************************************)
(* Proofs about Connector, for any number of connections and host keys,    *)
(* and about RemoteCalls, which makes them, for any number of hosts, calls *)
(* and changes of the surroundings.                                        *)
(***************************************************************************)
EXTENDS RemoteCalls, TLAPS

(***************************************************************************)
(* Connections                                                             *)
(***************************************************************************)
ConnectionType ==
    [pc : ConnPCs, command : Commands, offered : HostKeys \cup {Absent},
     error : Errors \cup {"none"}]

(* Types; who is about to remember a key was offered one. *)
ConnTypes ==
    /\ hostKey \in HostKeys /\ known \in HostKeys \cup {Absent}
    /\ conn \in [Calls -> ConnectionType]
    /\ accepted \subseteq HostKeys /\ doubt \subseteq HostKeys
    /\ \A c \in Calls : conn[c].pc = "remember" => conn[c].offered \in HostKeys

(* Who is about to remember a key agrees with what is known, and with all  *)
(* others about to remember one, but for keys that are in doubt.           *)
Agree(a, b) == a = b \/ {a, b} \subseteq doubt

Agreement ==
    \A c \in Calls : conn[c].pc = "remember" =>
        /\ known \in {Absent, conn[c].offered} \cup doubt
        /\ \A d \in Calls : conn[d].pc = "remember" =>
                              Agree(conn[c].offered, conn[d].offered)

ConnInv == ConnTypes /\ Agreement /\ HostKeyKept

(* All the invariant speaks of. *)
keyState == <<hostKey, known, conn, accepted, doubt>>

-----------------------------------------------------------------------------
LEMMA ConnInitial ==
    ASSUME ConnInit
    PROVE  ConnInv
<1>1. conn \in [Calls -> ConnectionType] /\ \A c \in Calls : conn[c].pc = "none"
  BY DEF ConnInit, NoConnection, ConnectionType, ConnPCs, Commands
<1>2. QED
  BY <1>1 DEF ConnInit, ConnInv, ConnTypes, Agreement, HostKeyKept

(* Steps that neither offer a key nor remember one. *)
LEMMA ConnMoves ==
    ASSUME ConnInv, NEW c \in Calls, NEW t \in ConnectionType,
           t.pc # "remember", conn' = [conn EXCEPT ![c] = t],
           UNCHANGED <<hostKey, known, accepted, doubt>>
    PROVE  ConnInv'
<1>1. ConnTypes'
  BY DEF ConnInv, ConnTypes
<1>2. \A d \in Calls : conn'[d].pc = "remember" => conn'[d] = conn[d]
  BY DEF ConnInv, ConnTypes
<1>3. Agreement' /\ HostKeyKept'
  BY <1>2 DEF ConnInv, Agreement, Agree, HostKeyKept
<1>4. QED BY <1>1, <1>3 DEF ConnInv

LEMMA ConnFailsKeeps ==
    ASSUME ConnInv, NEW c \in Calls, NEW error \in Errors, ConnFails(c, error)
    PROVE  ConnInv'
<1> DEFINE t == [NoConnection EXCEPT !.pc = "failed", !.error = error]
<1>1. t \in ConnectionType /\ t.pc # "remember"
  BY DEF NoConnection, ConnectionType, ConnPCs, Commands
<1>2. conn' = [conn EXCEPT ![c] = t] /\ UNCHANGED <<hostKey, known, accepted, doubt>>
  BY DEF ConnFails, ConnGoes, connWorld, remembered
<1> HIDE DEF t
<1>3. QED BY <1>1, <1>2, ConnMoves

(* The next state of a connection that goes on. *)
LEMMA ConnAtType ==
    ASSUME ConnInv, NEW c \in Calls, NEW pc \in ConnPCs
    PROVE  ConnAt(c, pc) \in ConnectionType /\ ConnAt(c, pc).pc = pc
BY DEF ConnInv, ConnTypes, ConnAt, ConnectionType

LEMMA ConnBeginKeeps ==
    ASSUME ConnInv, NEW c \in Calls, NEW command \in Commands, ConnBegin(c, command)
    PROVE  ConnInv'
<1> DEFINE t == [NoConnection EXCEPT !.pc = "address", !.command = command]
<1>1. t \in ConnectionType /\ t.pc # "remember"
  BY DEF NoConnection, ConnectionType, ConnPCs, Open
<1>2. conn' = [conn EXCEPT ![c] = t] /\ UNCHANGED <<hostKey, known, accepted, doubt>>
  BY DEF ConnBegin, ConnGoes, connWorld, remembered
<1> HIDE DEF t
<1>3. QED BY <1>1, <1>2, ConnMoves

LEMMA ConnEndKeeps ==
    ASSUME ConnInv, NEW c \in Calls, ConnEnd(c)
    PROVE  ConnInv'
<1>1. NoConnection \in ConnectionType /\ NoConnection.pc # "remember"
  BY DEF NoConnection, ConnectionType, ConnPCs, Commands
<1>2. /\ conn' = [conn EXCEPT ![c] = NoConnection]
      /\ UNCHANGED <<hostKey, known, accepted, doubt>>
  BY DEF ConnEnd, ConnGoes, connWorld, remembered
<1>3. QED BY <1>1, <1>2, ConnMoves

(* What contests the record: keys, and all that are offered at once with   *)
(* another one.                                                            *)
LEMMA ContestedKeys ==
    ASSUME ConnTypes, NEW c \in Calls, NEW key \in HostKeys
    PROVE  Contested(c, key) \subseteq HostKeys
BY DEF Contested, Pending, ConnTypes

LEMMA ContestedAgree ==
    ASSUME NEW c \in Calls, NEW key, NEW d \in Calls \ {c}, conn[d].pc = "remember"
    PROVE  key = conn[d].offered \/ {key, conn[d].offered} \subseteq Contested(c, key)
<1>1. conn[d].offered \in Pending(c)
  BY DEF Pending
<1>2. QED BY <1>1 DEF Contested

(* A key is offered that is on record, or the first. *)
LEMMA ConnectSshKeeps ==
    ASSUME ConnInv, NEW c \in Calls, ConnectSsh(c)
    PROVE  ConnInv'
<1>1. CASE \E error \in Errors : ConnFails(c, error)
  BY <1>1, ConnFailsKeeps
<1>2. CASE /\ known = Absent
           /\ ConnGoes(c, [ConnAt(c, "remember") EXCEPT !.offered = hostKey])
           /\ doubt' = doubt \cup Contested(c, hostKey)
           /\ UNCHANGED <<connWorld, known, accepted>>
  <2>1. /\ conn' \in [Calls -> ConnectionType]
        /\ conn'[c].pc = "remember" /\ conn'[c].offered = hostKey
        /\ \A d \in Calls \ {c} : conn'[d] = conn[d]
    BY <1>2 DEF ConnGoes, ConnAt, ConnInv, ConnTypes, ConnectionType, ConnPCs, Open
  <2>2. hostKey' = hostKey /\ known' = Absent
    BY <1>2 DEF connWorld
  <2>3. ConnTypes'
    BY <1>2, <2>1, <2>2, ContestedKeys DEF ConnInv, ConnTypes
  <2>4. ASSUME NEW d \in Calls \ {c}, conn[d].pc = "remember"
        PROVE  Agree(hostKey, conn[d].offered)'
    BY <1>2, <2>1, <2>2, <2>4, ContestedAgree DEF Agree
  <2>5. ASSUME NEW d \in Calls, NEW e \in Calls, conn'[d].pc = "remember",
               conn'[e].pc = "remember"
        PROVE  Agree(conn[d].offered, conn[e].offered)'
    <3>1. CASE d # c /\ e # c
      BY <1>2, <2>1, <2>5, <3>1 DEF ConnInv, Agreement, Agree
    <3>2. CASE d = c \/ e = c
      BY <2>1, <2>2, <2>4, <2>5, <3>2 DEF Agree
    <3>3. QED BY <3>1, <3>2
  <2>6. Agreement'
    BY <2>2, <2>5 DEF Agreement
  <2>7. HostKeyKept'
    BY <1>2 DEF ConnInv, HostKeyKept
  <2>8. QED BY <2>3, <2>6, <2>7 DEF ConnInv
<1>3. CASE /\ known = hostKey
           /\ ConnGoes(c, [ConnAt(c, "auth") EXCEPT !.offered = hostKey])
           /\ accepted' = accepted \cup {hostKey}
           /\ UNCHANGED <<connWorld, known, doubt>>
  <2>1. /\ conn' \in [Calls -> ConnectionType]
        /\ \A d \in Calls : conn'[d].pc = "remember" => conn'[d] = conn[d]
    BY <1>3 DEF ConnGoes, ConnAt, ConnInv, ConnTypes, ConnectionType, ConnPCs, Open
  <2>2. hostKey' = hostKey
    BY <1>3 DEF connWorld
  <2>3. ConnTypes'
    BY <1>3, <2>1, <2>2 DEF ConnInv, ConnTypes
  <2>4. Agreement' /\ HostKeyKept'
    BY <1>3, <2>1 DEF ConnInv, Agreement, Agree, HostKeyKept
  <2>5. QED BY <2>3, <2>4 DEF ConnInv
<1>4. QED BY <1>1, <1>2, <1>3 DEF ConnectSsh, Errors

(* It is remembered, and accepted. *)
LEMMA RememberKeeps ==
    ASSUME ConnInv, NEW c \in Calls, Remember(c)
    PROVE  ConnInv'
<1>1. /\ conn[c].pc = "remember" /\ conn[c].offered \in HostKeys
      /\ known' = conn[c].offered
      /\ accepted' = accepted \cup {conn[c].offered}
      /\ hostKey' = hostKey
      /\ doubt' = IF Contested(c, conn[c].offered) = {} THEN doubt \ {conn[c].offered}
                                                       ELSE doubt
  BY DEF Remember, connWorld, ConnInv, ConnTypes
<1>2. /\ conn' \in [Calls -> ConnectionType] /\ conn'[c].pc # "remember"
      /\ \A d \in Calls : conn'[d].pc = "remember" => conn'[d] = conn[d]
  BY DEF Remember, ConnGoes, ConnAt, ConnInv, ConnTypes, ConnectionType, ConnPCs, Open
<1>3. ConnTypes'
  BY <1>1, <1>2 DEF ConnInv, ConnTypes
<1>4. Agreement'
  <2>1. CASE doubt' = doubt
    BY <1>1, <1>2, <2>1 DEF ConnInv, Agreement, Agree
  <2>2. CASE Contested(c, conn[c].offered) = {}
    <3>1. ASSUME NEW d \in Calls, conn'[d].pc = "remember"
          PROVE  conn'[d].offered = conn[c].offered
      <4>1. d \in Calls \ {c} /\ conn'[d] = conn[d]
        BY <1>2, <3>1
      <4>2. QED BY <2>2, <3>1, <4>1, ContestedAgree
    <3>2. QED BY <1>1, <3>1 DEF Agreement, Agree
  <2>3. QED BY <1>1, <2>1, <2>2
<1>5. HostKeyKept'
  <2>1. /\ accepted \subseteq doubt \cup {known} /\ accepted \subseteq HostKeys
        /\ known \in {Absent, conn[c].offered} \cup doubt
    BY <1>1 DEF ConnInv, ConnTypes, Agreement, HostKeyKept
  <2>2. accepted' \subseteq doubt \cup {conn[c].offered}
    BY <1>1, <2>1, HostKeysAssumption
  <2>3. QED BY <1>1, <2>2 DEF HostKeyKept
<1>6. QED BY <1>3, <1>4, <1>5 DEF ConnInv

LEMMA ConnStepKeeps ==
    ASSUME ConnInv, NEW c \in Calls, ConnStep(c)
    PROVE  ConnInv'
<1>1. CASE \E error \in Errors : ConnFails(c, error)
  BY <1>1, ConnFailsKeeps
<1>2. ASSUME NEW pc \in ConnPCs \ {"remember"}, ConnGoes(c, ConnAt(c, pc)),
             UNCHANGED <<connWorld, remembered>>
      PROVE  ConnInv'
  <2>1. ConnAt(c, pc) \in ConnectionType /\ ConnAt(c, pc).pc # "remember"
    BY ConnAtType
  <2>2. QED
    BY <1>2, <2>1, ConnMoves DEF ConnGoes, connWorld, remembered
<1>3. CASE Answer(c)
  <2> DEFINE t == [NoConnection EXCEPT !.pc = "ok"]
  <2>1. t \in ConnectionType /\ t.pc # "remember"
    BY DEF NoConnection, ConnectionType, ConnPCs, Commands
  <2>2. conn' = [conn EXCEPT ![c] = t] /\ UNCHANGED <<hostKey, known, accepted, doubt>>
    BY <1>3 DEF Answer, ConnGoes, connWorld, remembered
  <2> HIDE DEF t
  <2>3. QED BY <2>1, <2>2, ConnMoves
<1>4. CASE Address(c)
  BY <1>1, <1>2, <1>4 DEF Address, Errors, ConnPCs, Open
<1>5. CASE ConnectTls(c)
  BY <1>1, <1>2, <1>5 DEF ConnectTls, Errors, ConnPCs, Open
<1>6. CASE Authenticate(c)
  BY <1>1, <1>2, <1>6 DEF Authenticate, Errors, ConnPCs, Open
<1>7. CASE Run(c)
  BY <1>1, <1>2, <1>7 DEF Run, Errors, ConnPCs, Open
<1>8. QED
  BY <1>3, <1>4, <1>5, <1>6, <1>7, ConnectSshKeeps, RememberKeeps DEF ConnStep

LEMMA ConnBreaksKeeps ==
    ASSUME ConnInv, NEW c \in Calls, ConnBreaks(c)
    PROVE  ConnInv'
BY ConnFailsKeeps DEF ConnBreaks, Errors

(* What the VM and its users do. *)
LEMMA WorldKeeps ==
    ASSUME ConnInv, Breaks \/ NewHostKey \/ ResetHostKey \/ LoseHostKey
    PROVE  ConnInv'
<1>1. CASE Breaks
  BY <1>1 DEF Breaks, remembered, ConnInv, ConnTypes, Agreement, Agree, HostKeyKept
<1>2. CASE NewHostKey
  BY <1>2 DEF NewHostKey, remembered, ConnInv, ConnTypes, Agreement, Agree, HostKeyKept
<1>3. CASE ResetHostKey
  BY <1>3 DEF ResetHostKey, connWorld, ConnInv, ConnTypes, Agreement, Agree, HostKeyKept
<1>4. CASE LoseHostKey
  BY <1>4 DEF LoseHostKey, connWorld, ConnInv, ConnTypes, Agreement, Agree, HostKeyKept
<1>5. QED BY <1>1, <1>2, <1>3, <1>4

LEMMA ConnUnchanged ==
    ASSUME ConnInv, UNCHANGED keyState
    PROVE  ConnInv'
BY DEF ConnInv, ConnTypes, Agreement, Agree, HostKeyKept, keyState

(* Every step of a connection, and every step that leaves keys and         *)
(* connections alone.                                                      *)
LEMMA ConnNextKeeps ==
    ASSUME ConnInv, [ConnNext]_keyState
    PROVE  ConnInv'
BY ConnBeginKeeps, ConnStepKeeps, ConnBreaksKeeps, ConnEndKeeps, WorldKeeps,
   ConnUnchanged DEF ConnNext

-----------------------------------------------------------------------------
(* However many hosts connect to a VM, and however often it changes its    *)
(* host key, every key that was accepted since the record was last reset   *)
(* is the one on record, but for the keys in doubt: those of which a stale *)
(* write of other_config lost the record, and those that were offered to   *)
(* two connections at once while there was none.                           *)
THEOREM HostKeyCorrect == ConnSpec => []HostKeyKept
<1>1. ConnInv /\ [ConnNext]_connVars => ConnInv'
  BY ConnNextKeeps DEF connVars, keyState
<1>2. ConnInv => HostKeyKept
  BY DEF ConnInv
<1>3. QED BY <1>1, <1>2, ConnInitial, PTL DEF ConnSpec

-----------------------------------------------------------------------------

(***************************************************************************)
(* The inductive invariant of the calls                                    *)
(***************************************************************************)
Causes == Commands \cup Layers \cup {"host key", "certificates"}

CallType ==
    [pc : PCs, kind : Kinds, at : Hosts \cup {NoHost}, hops : Nat, changed : Nat,
     failed : BOOLEAN, probe : DOMAIN NextProbe, cause : SUBSET Causes]

CallTypes ==
    /\ op \in Ops /\ mode \in {"ssh", "tls"} /\ broken \subseteq Layers
    /\ host \in Hosts \cup {NoHost} /\ attached \subseteq Hosts
    /\ call \in [Calls -> CallType]
    /\ times \in [Calls -> {0, 1}]

PluginPCs == {"look", "post", "local", "refresh", "return", "returned"}

(* Who is at which place, and who has a connection. *)
InPlace(c) ==
    /\ call[c].pc \in PluginPCs => op = "plugin"
    /\ op = "plugin" => call[c].pc \in PluginPCs \cup {"idle"}
    /\ conn[c].pc # "none" =>
         call[c].pc \in {"post", "refresh", "verify", "diagnose", "request"}
    /\ call[c].pc \in {"post", "request"} => conn[c].pc # "none"
    /\ call[c].pc = "post" /\ conn[c].pc \in Open => conn[c].command = "docker"

(* How far the operation of a call has come. *)
Progress(c) ==
    /\ op # "plugin" => times[c] = 0
    /\ call[c].pc \in {"look", "local"} => times[c] = 0
    /\ call[c].pc = "post" /\ conn[c].pc # "failed" =>
         times[c] = (IF conn[c].pc \in {"answer", "ok"} THEN 1 ELSE 0)
    /\ call[c].pc = "refresh" => times[c] = 1
    /\ call[c].pc = "return" /\ ~call[c].failed => times[c] = 1

Kept(c) == InPlace(c) /\ Progress(c)

CallsInv == ConnInv /\ CallTypes /\ \A c \in Calls : Kept(c)

Statuses == [c \in Calls |-> Status(c)]

-----------------------------------------------------------------------------
LEMMA CallsInitial ==
    ASSUME Init
    PROVE  CallsInv
<1>1. ConnInv /\ \A c \in Calls : conn[c] = NoConnection
  BY ConnInitial DEF Init, ConnInit
<1>2. Idle \in CallType
  BY DEF Idle, CallType, PCs, Kinds, ContainerKinds, NextProbe
<1>3. CallTypes
  BY <1>2 DEF Init, ConnInit, CallTypes, Ops
<1>4. \A c \in Calls : call[c].pc = "idle" /\ times[c] = 0
  BY DEF Init, Idle
<1>5. \A c \in Calls : Kept(c)
  BY <1>1, <1>4 DEF Kept, InPlace, Progress, PluginPCs, NoConnection
<1>6. QED BY <1>1, <1>3, <1>5 DEF CallsInv

(***************************************************************************)
(* What a connection does                                                  *)
(***************************************************************************)
LEMMA ConnOthers ==
    ASSUME ConnInv, NEW c \in Calls,
           \/ \E command \in Commands : ConnBegin(c, command)
           \/ ConnStep(c) \/ ConnBreaks(c) \/ ConnEnd(c)
    PROVE  /\ ConnInv' /\ conn' \in [Calls -> ConnectionType]
           /\ \A d \in Calls \ {c} : conn'[d] = conn[d]
           /\ UNCHANGED <<mode, broken>>
<1>1. ConnInv'
  BY ConnNextKeeps DEF ConnNext
<1>2. conn \in [Calls -> ConnectionType] /\ conn' \in [Calls -> ConnectionType]
  BY <1>1 DEF ConnInv, ConnTypes
<1>3. ASSUME NEW t, ConnGoes(c, t)
      PROVE  \A d \in Calls \ {c} : conn'[d] = conn[d]
  BY <1>2, <1>3 DEF ConnGoes
<1>4. /\ \E t : ConnGoes(c, t)
      /\ UNCHANGED <<mode, broken>>
  BY DEF ConnBegin, ConnStep, ConnBreaks, ConnEnd, Address, ConnectTls, ConnectSsh,
         Remember, Authenticate, Run, Answer, ConnFails, connWorld
<1>5. QED BY <1>1, <1>2, <1>3, <1>4

LEMMA ConnBegun ==
    ASSUME ConnInv, NEW c \in Calls, NEW command \in Commands, ConnBegin(c, command)
    PROVE  conn[c].pc = "none" /\ conn'[c].pc = "address" /\ conn'[c].command = command
BY DEF ConnBegin, ConnGoes, NoConnection, ConnInv, ConnTypes

LEMMA ConnEnded ==
    ASSUME ConnInv, NEW c \in Calls, ConnEnd(c)
    PROVE  conn[c].pc \in {"ok", "failed"} /\ conn'[c].pc = "none"
BY DEF ConnEnd, ConnGoes, NoConnection, ConnInv, ConnTypes

LEMMA ConnFailed ==
    ASSUME ConnInv, NEW c \in Calls, NEW error, ConnFails(c, error)
    PROVE  conn'[c].pc = "failed"
BY DEF ConnFails, ConnGoes, NoConnection, ConnInv, ConnTypes

(* A command runs once, between "run" and "answer". *)
Moves(from, to, c) ==
    conn[c].pc = from /\ conn'[c].pc = to /\ conn'[c].command = conn[c].command

LEMMA ConnStepped ==
    ASSUME ConnInv, NEW c \in Calls, ConnStep(c)
    PROVE  /\ conn[c].pc \in Open
           /\ \/ conn'[c].pc = "failed"
              \/ conn[c].pc = "answer" /\ conn'[c].pc = "ok"
              \/ Moves("run", "answer", c)
              \/ Moves("address", "ok", c) /\ conn[c].command = "address"
              \/ \E from, to \in Open \ {"answer"} : Moves(from, to, c)
<1>1. CASE conn[c].pc \in Open /\ \E error : ConnFails(c, error)
  BY <1>1, ConnFailed
<1>2. conn \in [Calls -> ConnectionType]
  BY DEF ConnInv, ConnTypes
<1>3. ASSUME NEW from \in Open, NEW to, conn[c].pc = from, ConnGoes(c, ConnAt(c, to))
      PROVE  Moves(from, to, c)
  BY <1>2, <1>3 DEF ConnGoes, ConnAt, Moves, ConnectionType
<1>4. ASSUME NEW from \in Open, NEW to, conn[c].pc = from,
             ConnGoes(c, [ConnAt(c, to) EXCEPT !.offered = hostKey])
      PROVE  Moves(from, to, c)
  BY <1>2, <1>4 DEF ConnGoes, ConnAt, Moves, ConnectionType
<1>5. CASE Address(c)
  BY <1>1, <1>3, <1>5 DEF Address, Open
<1>6. CASE ConnectTls(c)
  BY <1>1, <1>3, <1>6 DEF ConnectTls, Open
<1>7. CASE ConnectSsh(c)
  BY <1>1, <1>4, <1>7 DEF ConnectSsh, Open
<1>8. CASE Remember(c)
  BY <1>3, <1>8 DEF Remember, Open
<1>9. CASE Authenticate(c)
  BY <1>1, <1>3, <1>9 DEF Authenticate, Open
<1>10. CASE Run(c)
  BY <1>1, <1>3, <1>10 DEF Run, Open
<1>11. CASE Answer(c)
  BY <1>2, <1>11 DEF Answer, ConnGoes, NoConnection, Open
<1>12. QED
  BY <1>5, <1>6, <1>7, <1>8, <1>9, <1>10, <1>11 DEF ConnStep

-----------------------------------------------------------------------------
(***************************************************************************)
(* Steps of calls                                                          *)
(***************************************************************************)
(* All calls but those in S stay where they are. *)
Stays(c) ==
    /\ call'[c].pc = call[c].pc /\ call'[c].failed = call[c].failed
    /\ times'[c] = times[c] /\ conn'[c] = conn[c]

OnlyMove(S) ==
    /\ CallTypes' /\ ConnInv' /\ UNCHANGED <<op, mode>>
    /\ \A c \in Calls \ S : Stays(c)

LEMMA MovesKeep ==
    ASSUME CallsInv, NEW S, OnlyMove(S), \A c \in S \cap Calls : Kept(c)'
    PROVE  CallsInv'
<1>1. ASSUME NEW c \in Calls \ S
      PROVE  Kept(c)'
  BY <1>1 DEF OnlyMove, Stays, CallsInv, Kept, InPlace, Progress
<1>2. QED BY <1>1 DEF CallsInv, OnlyMove

(* In the abstract specification it is a step of the call, if any.         *)
LEMMA MovesMap ==
    ASSUME CallsInv, NEW c \in Calls, OnlyMove({c})
    PROVE  /\ Statuses' = [Statuses EXCEPT ![c] = Status(c)']
           /\ times' = [times EXCEPT ![c] = times'[c]]
<1>1. ASSUME NEW d \in Calls \ {c}
      PROVE  Status(d)' = Status(d) /\ times'[d] = times[d]
  BY <1>1 DEF OnlyMove, Stays, Status
<1>2. QED BY <1>1 DEF Statuses, OnlyMove, CallsInv, CallTypes

(* A step keeps the invariant, and is one of the abstract specification or *)
(* none.                                                                   *)
Fine == CallsInv' /\ [Operation!Next]_<<Statuses, times>>

LEMMA QuietMoves ==
    ASSUME CallsInv, NEW S, OnlyMove(S),
           \A c \in S \cap Calls :
              Kept(c)' /\ times'[c] = times[c] /\ Status(c)' = Status(c)
    PROVE  Fine
<1>1. ASSUME NEW c \in Calls
      PROVE  Status(c)' = Status(c) /\ times'[c] = times[c]
  BY <1>1 DEF OnlyMove, Stays, Status
<1>2. Statuses' = Statuses
  BY <1>1 DEF Statuses
<1>3. times' = times
  BY <1>1 DEF OnlyMove, CallsInv, CallTypes
<1>4. QED BY <1>2, <1>3, MovesKeep DEF Fine

(* Steps of a call that leave the surroundings and its history alone. *)
LEMMA CallGoes ==
    ASSUME CallsInv, NEW c \in Calls, NEW t \in CallType, Goes(c, t),
           UNCHANGED <<surroundings, times>>,
           \/ UNCHANGED connVars
           \/ \E command \in Commands : ConnBegin(c, command)
           \/ ConnBreaks(c) \/ ConnEnd(c)
    PROVE  /\ OnlyMove({c}) /\ call'[c] = t /\ times' = times /\ op' = op
           /\ conn' \in [Calls -> ConnectionType]
<1>1. /\ ConnInv' /\ UNCHANGED <<mode, broken>>
      /\ \A d \in Calls \ {c} : conn'[d] = conn[d]
  BY ConnOthers, ConnUnchanged DEF CallsInv, connVars, keyState
<1>2. /\ call' \in [Calls -> CallType] /\ call'[c] = t
      /\ \A d \in Calls \ {c} : call'[d] = call[d]
  BY DEF CallsInv, CallTypes, Goes
<1>3. CallTypes'
  BY <1>1, <1>2 DEF CallsInv, CallTypes, surroundings, CallType, NextProbe
<1>4. QED
  BY <1>1, <1>2, <1>3 DEF OnlyMove, Stays, surroundings, ConnInv, ConnTypes

LEMMA CallBegins ==
    ASSUME CallsInv, NEW c \in Calls, Begin(c)
    PROVE  Fine
<1>1. PICK kind \in Kinds, h \in Hosts :
        Goes(c, [Idle EXCEPT !.pc = "look", !.kind = kind, !.at = h])
  BY DEF Begin
<1> DEFINE t == [Idle EXCEPT !.pc = "look", !.kind = kind, !.at = h]
<1>2. t \in CallType /\ t.pc = "look"
  BY DEF Idle, CallType, PCs, NextProbe
<1>3. ConnInv' /\ conn' = conn /\ op = "plugin" /\ op' = op
  BY ConnUnchanged DEF CallsInv, Begin, connVars, keyState, surroundings
<1>4. Goes(c, t)
  BY <1>1
<1> HIDE DEF t
<1>5. /\ OnlyMove({c}) /\ call'[c] = t /\ times'[c] = 0
  BY <1>2, <1>3, <1>4 DEF OnlyMove, Stays, Begin, Goes, CallsInv, CallTypes, CallType,
     NextProbe, connVars, surroundings
<1>6. Kept(c)'
  BY <1>2, <1>3, <1>5 DEF CallsInv, Kept, InPlace, Progress, Begin, Begins, PluginPCs
<1>7. Operation!Call(c)
  <2>1. Statuses[c] # "called" /\ Status(c)' = "called"
    BY <1>2, <1>3, <1>5 DEF Begin, Begins, Statuses, Status
  <2>2. QED BY <1>5, <2>1, MovesMap DEF Operation!Call, Statuses
<1>8. QED BY <1>5, <1>6, <1>7, MovesKeep DEF Fine, Operation!Next, Statuses

(* The records calls are given. *)
LEMMA CallRecords ==
    ASSUME CallsInv, NEW c \in Calls
    PROVE  /\ Idle \in CallType /\ Idle.pc = "idle" /\ call[c] \in CallType
           /\ \A pc \in PCs :
                /\ At(c, pc) \in CallType /\ At(c, pc).pc = pc
                /\ [Idle EXCEPT !.pc = pc] \in CallType
                /\ [Idle EXCEPT !.pc = pc].pc = pc
                /\ Served(c, pc) \in CallType /\ Served(c, pc).pc = pc
           /\ \A failed \in BOOLEAN : Returns(c, failed) =>
                \E t \in CallType : Goes(c, t) /\ t.pc = "return" /\ t.failed = failed
<1>1. Idle \in CallType /\ Idle.pc = "idle"
  BY DEF Idle, CallType, PCs, Kinds, ContainerKinds, NextProbe
<1>2. call[c] \in CallType
  BY DEF CallsInv, CallTypes
<1> USE <1>1, <1>2
<1>3. ASSUME NEW pc \in PCs
      PROVE  /\ At(c, pc) \in CallType /\ At(c, pc).pc = pc
             /\ [Idle EXCEPT !.pc = pc] \in CallType /\ [Idle EXCEPT !.pc = pc].pc = pc
             /\ Served(c, pc) \in CallType /\ Served(c, pc).pc = pc
  BY DEF At, Served, CallType
<1>4. ASSUME NEW failed \in BOOLEAN, Returns(c, failed)
      PROVE  \E t \in CallType : Goes(c, t) /\ t.pc = "return" /\ t.failed = failed
  <2> DEFINE t == [Served(c, "return") EXCEPT !.failed = failed]
  <2>1. Served(c, "return") \in CallType /\ Served(c, "return").pc = "return"
    BY <1>3 DEF PCs
  <2>2. t \in CallType /\ t.pc = "return" /\ t.failed = failed
    BY <2>1 DEF CallType
  <2>3. Goes(c, t)
    BY <1>4 DEF Returns
  <2>4. QED BY <2>2, <2>3
<1>5. QED BY <1>3, <1>4

LEMMA CallsNotice ==
    ASSUME NEW calls \in [Calls -> CallType], call' = Noticed(calls)
    PROVE  /\ call' \in [Calls -> CallType]
           /\ \A c \in Calls : /\ call'[c].pc = calls[c].pc
                               /\ call'[c].failed = calls[c].failed
<1>1. ASSUME NEW c \in Calls
      PROVE  call'[c] = calls[c] \/ call'[c] = [calls[c] EXCEPT !.changed = 1]
  BY DEF Noticed
<1>2. ASSUME NEW c \in Calls
      PROVE  /\ call'[c] \in CallType
             /\ call'[c].pc = calls[c].pc /\ call'[c].failed = calls[c].failed
  <2>1. calls[c] \in CallType
    OBVIOUS
  <2>2. CASE call'[c] = calls[c]
    BY <2>1, <2>2
  <2>3. CASE call'[c] = [calls[c] EXCEPT !.changed = 1]
    BY <2>1, <2>3 DEF CallType
  <2>4. QED BY <1>1, <2>2, <2>3
<1>3. call' = [c \in Calls |-> call'[c]]
  BY DEF Noticed
<1>4. QED BY <1>2, <1>3

-----------------------------------------------------------------------------
(***************************************************************************)
(* The plugin                                                              *)
(***************************************************************************)
LEMMA ForwardFine ==
    ASSUME CallsInv, NEW c \in Calls, Forward(c)
    PROVE  Fine
<1> DEFINE at == RedirectTo(call[c].kind)
           hops == IF call[c].hops < MaxHops THEN call[c].hops + 1 ELSE call[c].hops
           t == [call[c] EXCEPT !.at = at, !.hops = hops]
<1>1. at \in Hosts \cup {NoHost}
  BY DEF RedirectTo, HostOfStorage, CallsInv, CallTypes
<1>2. t \in CallType /\ t.pc = "look" /\ call[c].pc = "look"
  <2>1. call[c] \in CallType /\ call[c].pc = "look"
    BY CallRecords DEF Forward
  <2>2. hops \in Nat
    BY <2>1 DEF CallType
  <2> HIDE DEF at, hops
  <2>3. QED BY <1>1, <2>1, <2>2 DEF CallType
<1>3. Goes(c, t) /\ UNCHANGED <<connVars, surroundings, times>>
  BY DEF Forward
<1> HIDE DEF t
<1>4. OnlyMove({c}) /\ call'[c] = t /\ times' = times /\ op' = op
  BY <1>2, <1>3, CallGoes
<1>5. Kept(c)' /\ Status(c)' = Status(c)
  BY <1>2, <1>3, <1>4 DEF CallsInv, Kept, InPlace, Progress, PluginPCs, connVars, Status
<1>6. QED BY <1>4, <1>5, QuietMoves

LEMMA ForwardFailsFine ==
    ASSUME CallsInv, NEW c \in Calls, ForwardFails(c)
    PROVE  Fine
<1>1. PICK t \in CallType : Goes(c, t) /\ t.pc = "return" /\ t.failed = TRUE
  BY CallRecords DEF ForwardFails
<1>2. call[c].pc = "look" /\ UNCHANGED <<connVars, surroundings, times>>
  BY DEF ForwardFails
<1>3. OnlyMove({c}) /\ call'[c] = t /\ times' = times /\ op' = op
  BY <1>1, <1>2, CallGoes
<1>4. Kept(c)' /\ Status(c)' = Status(c)
  BY <1>1, <1>2, <1>3 DEF CallsInv, Kept, InPlace, Progress, PluginPCs, connVars, Status
<1>5. QED BY <1>3, <1>4, QuietMoves

LEMMA DispatchFine ==
    ASSUME CallsInv, NEW c \in Calls, Dispatch(c)
    PROVE  Fine
<1>1. PICK t \in CallType :
        /\ Goes(c, t)
        /\ \/ t.pc = "post" /\ ConnBegin(c, "docker")
           \/ t.pc = "local" /\ UNCHANGED connVars
  BY CallRecords DEF Dispatch, To, PCs
<1>2. call[c].pc = "look" /\ UNCHANGED <<surroundings, times>> /\ "docker" \in Commands
  BY DEF Dispatch, Commands
<1>3. OnlyMove({c}) /\ call'[c] = t /\ times' = times /\ op' = op
  BY <1>1, <1>2, CallGoes
<1>4. CASE t.pc = "post" /\ ConnBegin(c, "docker")
  <2>1. conn'[c].pc = "address" /\ conn'[c].command = "docker"
    BY <1>2, <1>4, ConnBegun DEF CallsInv
  <2>2. Kept(c)' /\ Status(c)' = Status(c)
    BY <1>2, <1>3, <1>4, <2>1 DEF CallsInv, Kept, InPlace, Progress, PluginPCs, Status
  <2>3. QED BY <1>3, <2>2, QuietMoves
<1>5. CASE t.pc = "local" /\ UNCHANGED connVars
  <2>1. Kept(c)' /\ Status(c)' = Status(c)
    BY <1>2, <1>3, <1>5 DEF CallsInv, Kept, InPlace, Progress, PluginPCs, connVars, Status
  <2>2. QED BY <1>3, <2>1, QuietMoves
<1>6. QED BY <1>1, <1>4, <1>5

(* Whether it fails or not, the operation is carried out now, or it fails. *)
LEMMA LocalFine ==
    ASSUME CallsInv, NEW c \in Calls, Local(c)
    PROVE  Fine
<1>1. PICK failed \in BOOLEAN, done \in BOOLEAN :
        /\ failed \/ done
        /\ Returns(c, failed)
        /\ times' = [times EXCEPT ![c] = IF done THEN 1 ELSE 0]
  BY DEF Local
<1>2. PICK t \in CallType : Goes(c, t) /\ t.pc = "return" /\ t.failed = failed
  BY <1>1, CallRecords
<1>3. /\ call[c].pc = "local" /\ times[c] = 0 /\ op = "plugin" /\ op' = op
      /\ conn' = conn /\ ConnInv' /\ conn[c].pc = "none"
  BY ConnUnchanged DEF Local, connVars, keyState, surroundings, CallsInv, Kept, InPlace,
     Progress, PluginPCs
<1>4. OnlyMove({c}) /\ call'[c] = t /\ times'[c] = (IF done THEN 1 ELSE 0)
  BY <1>1, <1>2, <1>3 DEF OnlyMove, Stays, Local, Goes, CallsInv, CallTypes, CallType,
     NextProbe, connVars, surroundings
<1>5. Kept(c)'
  BY <1>1, <1>2, <1>3, <1>4 DEF Kept, InPlace, Progress, PluginPCs
<1>6. Statuses[c] = "called" /\ Status(c)' = Status(c)
  BY <1>2, <1>3, <1>4 DEF Statuses, Status
<1>7. CASE done
  <2>1. Operation!CarryOut(c)
    <3>1. Statuses' = [Statuses EXCEPT ![c] = Status(c)]
          /\ times' = [times EXCEPT ![c] = 1]
      BY <1>4, <1>6, <1>7, MovesMap
    <3>2. QED BY <1>3, <1>6, <3>1 DEF Operation!CarryOut, Statuses
  <2>2. QED BY <1>4, <1>5, <2>1, MovesKeep DEF Fine, Operation!Next, Statuses
<1>8. CASE ~done
  BY <1>3, <1>4, <1>5, <1>6, <1>8, QuietMoves
<1>9. QED BY <1>7, <1>8

LEMMA PostEndsFine ==
    ASSUME CallsInv, NEW c \in Calls, PostEnds(c)
    PROVE  Fine
<1>1. PICK t \in CallType :
        /\ Goes(c, t)
        /\ \/ conn[c].pc = "ok" /\ t.pc = "refresh"
           \/ conn[c].pc = "ok" /\ t.pc = "return"
           \/ conn[c].pc = "failed" /\ t.pc = "return" /\ t.failed = TRUE
  <2>1. CASE conn[c].pc = "ok" /\ Goes(c, Served(c, "refresh"))
    BY <2>1, CallRecords DEF PCs
  <2>2. CASE conn[c].pc = "ok" /\ Returns(c, FALSE)
    BY <2>2, CallRecords
  <2>3. CASE conn[c].pc = "failed" /\ Returns(c, TRUE)
    BY <2>3, CallRecords
  <2>4. QED BY <2>1, <2>2, <2>3 DEF PostEnds
<1>2. call[c].pc = "post" /\ UNCHANGED <<surroundings, times>> /\ ConnEnd(c)
  BY DEF PostEnds
<1>3. OnlyMove({c}) /\ call'[c] = t /\ times' = times /\ op' = op
  BY <1>1, <1>2, CallGoes
<1>4. conn'[c].pc = "none"
  BY <1>2, ConnEnded DEF CallsInv
<1>5. Kept(c)' /\ Status(c)' = Status(c)
  BY <1>1, <1>2, <1>3, <1>4 DEF CallsInv, Kept, InPlace, Progress, PluginPCs, Status
<1>6. QED BY <1>3, <1>5, QuietMoves

LEMMA RefreshBeginFine ==
    ASSUME CallsInv, NEW c \in Calls, RefreshBegin(c)
    PROVE  Fine
<1>1. call[c].pc = "refresh" /\ UNCHANGED callVars /\ ConnBegin(c, "docker")
      /\ "docker" \in Commands /\ call[c] \in CallType
  BY CallRecords DEF RefreshBegin, Commands
<1>2. Goes(c, call[c])
  BY <1>1 DEF Goes, callVars, CallsInv, CallTypes
<1>3. OnlyMove({c}) /\ call'[c] = call[c] /\ times' = times /\ op' = op
  BY <1>1, <1>2, CallGoes DEF callVars, surroundings
<1>4. Kept(c)' /\ Status(c)' = Status(c)
  BY <1>1, <1>3 DEF CallsInv, Kept, InPlace, Progress, PluginPCs, Status
<1>5. QED BY <1>3, <1>4, QuietMoves

LEMMA RefreshEndsFine ==
    ASSUME CallsInv, NEW c \in Calls, RefreshEnds(c)
    PROVE  Fine
<1>1. PICK t \in CallType : Goes(c, t) /\ t.pc = "return"
  BY CallRecords DEF RefreshEnds
<1>2. call[c].pc = "refresh" /\ UNCHANGED <<surroundings, times>> /\ ConnEnd(c)
  BY DEF RefreshEnds
<1>3. OnlyMove({c}) /\ call'[c] = t /\ times' = times /\ op' = op
  BY <1>1, <1>2, CallGoes
<1>4. conn'[c].pc = "none"
  BY <1>2, ConnEnded DEF CallsInv
<1>5. Kept(c)' /\ Status(c)' = Status(c)
  BY <1>1, <1>2, <1>3, <1>4 DEF CallsInv, Kept, InPlace, Progress, PluginPCs, Status
<1>6. QED BY <1>3, <1>5, QuietMoves

(* The answer comes back: only an operation that was carried out succeeds. *)
LEMMA ReturnFine ==
    ASSUME CallsInv, NEW c \in Calls, Return(c)
    PROVE  Fine
<1>1. PICK failed \in BOOLEAN :
        /\ Goes(c, [Idle EXCEPT !.pc = "returned", !.failed = failed])
        /\ call[c].failed => failed
  BY CallRecords DEF Return, CallType
<1> DEFINE t == [Idle EXCEPT !.pc = "returned", !.failed = failed]
<1>2. t \in CallType /\ t.pc = "returned" /\ t.failed = failed /\ Goes(c, t)
  <2>1. Idle \in CallType /\ "returned" \in PCs
    BY CallRecords DEF PCs
  <2>2. t \in CallType /\ t.pc = "returned" /\ t.failed = failed
    BY <2>1 DEF CallType
  <2>3. QED BY <1>1, <2>2
<1> HIDE DEF t
<1>3. call[c].pc = "return" /\ UNCHANGED <<connVars, surroundings, times>>
  BY DEF Return
<1>4. OnlyMove({c}) /\ call'[c] = t /\ times' = times /\ op' = op
  BY <1>2, <1>3, CallGoes
<1>5. Kept(c)' /\ op = "plugin" /\ (~failed => times[c] = 1)
  BY <1>1, <1>2, <1>3, <1>4 DEF CallsInv, Kept, InPlace, Progress, PluginPCs, connVars
<1>6. Operation!Fail(c) \/ Operation!Succeed(c)
  <2>1. Statuses[c] = "called" /\ Status(c)' = IF failed THEN "failed" ELSE "succeeded"
    BY <1>2, <1>3, <1>4, <1>5 DEF Statuses, Status
  <2>2. Statuses' = [Statuses EXCEPT ![c] = IF failed THEN "failed" ELSE "succeeded"]
    BY <1>4, <2>1, MovesMap
  <2>3. QED BY <1>4, <1>5, <2>1, <2>2 DEF Operation!Fail, Operation!Succeed, Statuses
<1>7. QED BY <1>4, <1>5, <1>6, MovesKeep DEF Fine, Operation!Next, Statuses

(* A step of a connection; the operation is carried out when Docker does   *)
(* what it is asked to.                                                    *)
LEMMA ConnectionFine ==
    ASSUME CallsInv, NEW c \in Calls, Connection(c)
    PROVE  Fine
<1> DEFINE ran == call[c].pc = "post" /\ conn[c].pc = "run" /\ conn'[c].pc = "answer"
<1>1. /\ ConnInv' /\ UNCHANGED <<mode, broken>>
      /\ \A d \in Calls \ {c} : conn'[d] = conn[d]
  BY ConnOthers DEF CallsInv, Connection
<1>2. /\ call' \in [Calls -> CallType]
      /\ \A d \in Calls : call'[d].pc = call[d].pc /\ call'[d].failed = call[d].failed
  BY CallsNotice DEF Connection, CallsInv, CallTypes
<1>3. UNCHANGED <<op, host, attached>>
  BY DEF Connection, surroundings
<1>4. ran => times[c] = 0
  BY DEF CallsInv, Kept, Progress
<1>5. times' = [times EXCEPT ![c] = IF ran THEN 1 ELSE times[c]]
  <2>1. CASE ran
    <3>1. times' = [times EXCEPT ![c] = times[c] + 1] /\ times[c] + 1 = 1
      BY <1>4, <2>1 DEF Connection
    <3>2. QED BY <2>1, <3>1
  <2>2. CASE ~ran
    BY <2>2 DEF Connection, CallsInv, CallTypes
  <2>3. QED BY <2>1, <2>2
<1>6. OnlyMove({c})
  <2>1. CallTypes'
    BY <1>1, <1>2, <1>3, <1>5 DEF CallsInv, CallTypes, CallType, NextProbe
  <2>2. QED BY <1>1, <1>2, <1>3, <1>5, <2>1 DEF OnlyMove, Stays, CallsInv, CallTypes
<1>7. /\ conn[c].pc \in Open
      /\ \/ conn'[c].pc = "failed"
         \/ conn[c].pc = "answer" /\ conn'[c].pc = "ok"
         \/ Moves("run", "answer", c)
         \/ Moves("address", "ok", c) /\ conn[c].command = "address"
         \/ \E from, to \in Open \ {"answer"} : Moves(from, to, c)
  BY ConnStepped DEF CallsInv, Connection
<1>8. times'[c] = IF ran THEN 1 ELSE times[c]
  BY <1>5 DEF CallsInv, CallTypes
<1>9. Kept(c)'
  <2>1. InPlace(c)'
    BY <1>2, <1>3, <1>7 DEF CallsInv, Kept, InPlace, Moves, Open, PluginPCs
  <2>2. Progress(c)'
    BY <1>2, <1>3, <1>7, <1>8 DEF CallsInv, Kept, InPlace, Progress, Moves, Open, PluginPCs
  <2>3. QED BY <2>1, <2>2 DEF Kept
<1>10. Status(c)' = Status(c)
  BY <1>2, <1>3 DEF Status
<1>11. CASE ran
  <2>1. Statuses[c] = "called"
    BY <1>11 DEF CallsInv, Kept, InPlace, PluginPCs, Statuses, Status
  <2>2. Statuses' = Statuses
    <3>1. Statuses' = [Statuses EXCEPT ![c] = Status(c)]
      BY <1>6, <1>10, MovesMap
    <3>2. QED BY <3>1 DEF Statuses
  <2>3. Operation!CarryOut(c)
    BY <1>4, <1>5, <1>11, <2>1, <2>2 DEF Operation!CarryOut, Statuses
  <2>4. QED BY <1>6, <1>9, <2>3, MovesKeep DEF Fine, Operation!Next, Statuses
<1>12. CASE ~ran
  BY <1>6, <1>8, <1>9, <1>10, <1>12, QuietMoves
<1>13. QED BY <1>11, <1>12

LEMMA ConnectionBreaksFine ==
    ASSUME CallsInv, NEW c \in Calls, ConnectionBreaks(c)
    PROVE  Fine
<1>1. PICK t \in CallType : Goes(c, t) /\ t.pc = call[c].pc /\ t.failed = call[c].failed
  BY CallRecords DEF ConnectionBreaks, CallType
<1>2. UNCHANGED <<surroundings, times>> /\ ConnBreaks(c)
  BY DEF ConnectionBreaks
<1>3. OnlyMove({c}) /\ call'[c] = t /\ times' = times /\ op' = op
  BY <1>1, <1>2, CallGoes
<1>4. conn[c].pc # "none" /\ conn'[c].pc = "failed"
  BY <1>2, ConnFailed DEF CallsInv, ConnBreaks, Open
<1>5. Kept(c)' /\ Status(c)' = Status(c)
  BY <1>1, <1>3, <1>4 DEF CallsInv, Kept, InPlace, Progress, PluginPCs, Open, Status
<1>6. QED BY <1>3, <1>5, QuietMoves

-----------------------------------------------------------------------------
(***************************************************************************)
(* xscontainer-prepare-vm and threads that monitor                         *)
(***************************************************************************)
LEMMA OtherCall ==
    ASSUME CallsInv, NEW c \in Calls, op # "plugin",
           NEW t \in CallType, t.pc \notin PluginPCs, Goes(c, t),
           UNCHANGED <<surroundings, times>>,
           \/ UNCHANGED connVars
           \/ \E command \in Commands : ConnBegin(c, command)
           \/ ConnBreaks(c) \/ ConnEnd(c),
           conn'[c].pc # "none" => t.pc \in {"verify", "diagnose", "request"},
           t.pc = "request" => conn'[c].pc # "none"
    PROVE  Fine
<1>1. OnlyMove({c}) /\ call'[c] = t /\ times' = times /\ op' = op
  BY CallGoes
<1>2. Kept(c)' /\ Status(c)' = Status(c)
  BY <1>1 DEF CallsInv, Kept, InPlace, Progress, PluginPCs, Status
<1>3. QED BY <1>1, <1>2, QuietMoves

LEMMA PrepareBeginFine ==
    ASSUME CallsInv, NEW c \in Calls, PrepareBegin(c)
    PROVE  Fine
<1>1. At(c, "push") \in CallType /\ At(c, "push").pc = "push"
  BY CallRecords DEF PCs
<1>2. op # "plugin" /\ Goes(c, At(c, "push")) /\ UNCHANGED <<connVars, surroundings, times>>
  BY DEF PrepareBegin, To
<1>3. conn'[c].pc = "none"
  BY <1>2 DEF connVars, PrepareBegin, Begins, CallsInv, Kept, InPlace
<1>4. QED BY <1>1, <1>2, <1>3, OtherCall DEF PluginPCs

LEMMA PushFine ==
    ASSUME CallsInv, NEW c \in Calls, Push(c)
    PROVE  Fine
<1>1. /\ call[c].pc = "push" /\ op # "plugin" /\ conn[c].pc = "none"
      /\ UNCHANGED <<mode, hostKey, conn, known, accepted, doubt, op, host, attached,
                     changes, times>>
  BY DEF Push, remembered, surroundings, CallsInv, Kept, InPlace, PluginPCs
<1>2. CASE broken' = broken \ {"key"} /\ call' = Noticed([call EXCEPT ![c].pc = "verify"])
  <2>1. /\ [call EXCEPT ![c].pc = "verify"] \in [Calls -> CallType]
        /\ [call EXCEPT ![c].pc = "verify"][c].pc = "verify"
        /\ \A d \in Calls \ {c} : [call EXCEPT ![c].pc = "verify"][d] = call[d]
    BY DEF CallsInv, CallTypes, CallType, PCs
  <2> DEFINE calls == [call EXCEPT ![c].pc = "verify"]
  <2>2. call' = Noticed(calls)
    BY <1>2
  <2> HIDE DEF calls
  <2>3. /\ call' \in [Calls -> CallType] /\ call'[c].pc = "verify"
        /\ \A d \in Calls \ {c} : call'[d].pc = call[d].pc
                               /\ call'[d].failed = call[d].failed
    BY <2>1, <2>2, CallsNotice DEF calls
  <2>4. ConnInv'
    BY <1>1, ConnUnchanged DEF CallsInv, keyState
  <2>5. CallTypes'
    BY <1>1, <1>2, <2>3 DEF CallsInv, CallTypes, CallType, NextProbe
  <2>6. OnlyMove({c})
    BY <1>1, <2>3, <2>4, <2>5 DEF OnlyMove, Stays
  <2>7. Kept(c)' /\ times'[c] = times[c] /\ Status(c)' = Status(c)
    BY <1>1, <2>3 DEF CallsInv, Kept, InPlace, Progress, PluginPCs, Status
  <2>8. QED BY <2>6, <2>7, QuietMoves
<1>3. CASE UNCHANGED broken /\ (To(c, "verify") \/ Goes(c, Idle))
  <2>1. PICK t \in CallType : Goes(c, t) /\ t.pc \in {"verify", "idle"}
    BY <1>3, CallRecords DEF To, PCs
  <2>2. UNCHANGED <<connVars, surroundings, times>>
    BY <1>1, <1>3 DEF connVars, surroundings
  <2>3. QED BY <1>1, <2>1, <2>2, OtherCall DEF PluginPCs
<1>4. QED BY <1>2, <1>3 DEF Push

LEMMA VerifyBeginFine ==
    ASSUME CallsInv, NEW c \in Calls, VerifyBegin(c) \/ Probe(c)
    PROVE  Fine
<1>1. /\ call[c].pc \in {"verify", "diagnose"} /\ UNCHANGED callVars
      /\ call[c] \in CallType
  BY CallRecords DEF VerifyBegin, Probe
<1>2. PICK command \in Commands : ConnBegin(c, command)
  BY <1>1 DEF VerifyBegin, Probe, CallType, NextProbe, Commands
<1>3. op # "plugin" /\ Goes(c, call[c]) /\ UNCHANGED <<surroundings, times>>
  BY <1>1 DEF Goes, callVars, surroundings, CallsInv, CallTypes, Kept, InPlace, PluginPCs
<1>4. QED BY <1>1, <1>2, <1>3, OtherCall DEF PluginPCs

(* The connection has ended, and the script or the thread goes on. *)
LEMMA EndedFine ==
    ASSUME CallsInv, NEW c \in Calls, ConnEnd(c), op # "plugin",
           NEW t \in CallType, Goes(c, t), t.pc \in {"idle", "diagnose", "ask"},
           UNCHANGED <<surroundings, times>>
    PROVE  Fine
<1>1. conn'[c].pc = "none"
  BY ConnEnded DEF CallsInv
<1>2. QED BY <1>1, OtherCall DEF PluginPCs

LEMMA VerifyEndsFine ==
    ASSUME CallsInv, NEW c \in Calls, VerifyEnds(c)
    PROVE  Fine
<1>1. PICK t \in CallType : Goes(c, t) /\ t.pc \in {"idle", "diagnose"}
  <2>1. Idle \in CallType /\ Idle.pc = "idle"
    BY CallRecords
  <2>2. /\ [Idle EXCEPT !.pc = "diagnose"] \in CallType
        /\ [Idle EXCEPT !.pc = "diagnose"].pc = "diagnose"
    BY CallRecords DEF PCs
  <2>3. Goes(c, Idle) \/ Goes(c, [Idle EXCEPT !.pc = "diagnose"])
    BY DEF VerifyEnds
  <2>4. QED BY <2>1, <2>2, <2>3
<1>2. op # "plugin" /\ UNCHANGED <<surroundings, times>> /\ ConnEnd(c)
  BY DEF VerifyEnds, CallsInv, Kept, InPlace, PluginPCs
<1>3. QED BY <1>1, <1>2, EndedFine

LEMMA ProbedRecord ==
    ASSUME CallsInv, NEW c \in Calls, NEW cause \in SUBSET Causes,
           NEW next \in DOMAIN NextProbe \cup {"none"}, Probed(c, cause, next)
    PROVE  \E t \in CallType : Goes(c, t) /\ t.pc \in {"diagnose", "ask"}
<1> DEFINE pc == IF next = "none" THEN "ask" ELSE "diagnose"
           probe == IF next = "none" THEN "address" ELSE next
           t == [call[c] EXCEPT !.pc = pc, !.probe = probe, !.cause = cause]
<1>1. call[c] \in CallType
  BY CallRecords
<1>2. pc \in PCs /\ pc \in {"diagnose", "ask"} /\ probe \in DOMAIN NextProbe
  BY DEF PCs, NextProbe
<1>3. Goes(c, t)
  BY DEF Probed
<1> HIDE DEF pc, probe
<1>4. t \in CallType /\ t.pc = pc
  BY <1>1, <1>2 DEF CallType
<1>5. QED BY <1>2, <1>3, <1>4

LEMMA ProbeOkFine ==
    ASSUME CallsInv, NEW c \in Calls, ProbeOk(c)
    PROVE  Fine
<1>1. call[c] \in CallType
  BY CallRecords
<1>2. /\ call[c].cause \in SUBSET Causes
      /\ NextProbe[call[c].probe] \in DOMAIN NextProbe \cup {"none"}
  BY <1>1 DEF CallType, NextProbe
<1>3. PICK t \in CallType : Goes(c, t) /\ t.pc \in {"diagnose", "ask"}
  BY <1>2, ProbedRecord DEF ProbeOk
<1>4. op # "plugin" /\ UNCHANGED <<surroundings, times>> /\ ConnEnd(c)
  BY DEF ProbeOk, CallsInv, Kept, InPlace, PluginPCs
<1>5. QED BY <1>3, <1>4, EndedFine

LEMMA ProbeFailsFine ==
    ASSUME CallsInv, NEW c \in Calls, ProbeFails(c)
    PROVE  Fine
<1> DEFINE blamed == Blamed(call[c].probe, conn[c].error)
           next == IF call[c].probe = "ncat" THEN "socket" ELSE "none"
<1>1. call[c] \in CallType
  BY CallRecords
<1>2. blamed \subseteq Causes
  BY <1>1 DEF CallType, NextProbe, Blamed, Causes, Commands, Layers
<1>3. next \in DOMAIN NextProbe \cup {"none"}
  BY <1>1 DEF CallType, NextProbe
<1>4. PICK t \in CallType : Goes(c, t) /\ t.pc \in {"idle", "diagnose", "ask"}
  <2>1. CASE Probed(c, call[c].cause \cup blamed, next)
    <3>1. call[c].cause \cup blamed \in SUBSET Causes
      BY <1>1, <1>2 DEF CallType
    <3> HIDE DEF blamed, next
    <3>2. QED BY <1>3, <2>1, <3>1, ProbedRecord
  <2>2. CASE Goes(c, Idle)
    BY <2>2, CallRecords
  <2>3. QED BY <2>1, <2>2 DEF ProbeFails
<1>5. op # "plugin" /\ UNCHANGED <<surroundings, times>> /\ ConnEnd(c)
  BY DEF ProbeFails, CallsInv, Kept, InPlace, PluginPCs
<1> HIDE DEF blamed, next
<1>6. QED BY <1>4, <1>5, EndedFine

LEMMA AskFine ==
    ASSUME CallsInv, NEW c \in Calls, Ask(c)
    PROVE  Fine
<1>1. PICK t \in CallType : Goes(c, t) /\ t.pc \in {"idle", "verify"}
  <2>1. Idle \in CallType /\ Idle.pc = "idle"
    BY CallRecords
  <2>2. /\ [Idle EXCEPT !.pc = "verify"] \in CallType
        /\ [Idle EXCEPT !.pc = "verify"].pc = "verify"
    BY CallRecords DEF PCs
  <2>3. Goes(c, Idle) \/ Goes(c, [Idle EXCEPT !.pc = "verify"])
    BY DEF Ask
  <2>4. QED BY <2>1, <2>2, <2>3
<1>2. /\ op # "plugin" /\ UNCHANGED <<connVars, surroundings, times>>
      /\ conn'[c].pc = "none"
  BY DEF Ask, connVars, CallsInv, Kept, InPlace, PluginPCs
<1>3. QED BY <1>1, <1>2, OtherCall DEF PluginPCs

LEMMA RequestBeginFine ==
    ASSUME CallsInv, NEW c \in Calls, RequestBegin(c)
    PROVE  Fine
<1>1. At(c, "request") \in CallType /\ At(c, "request").pc = "request"
  BY CallRecords DEF PCs
<1>2. /\ op # "plugin" /\ Goes(c, At(c, "request")) /\ UNCHANGED <<surroundings, times>>
      /\ ConnBegin(c, "docker") /\ "docker" \in Commands
  BY DEF RequestBegin, To, Commands
<1>3. conn'[c].pc # "none"
  BY <1>2, ConnBegun DEF CallsInv
<1>4. QED BY <1>1, <1>2, <1>3, OtherCall DEF PluginPCs

LEMMA RequestEndsFine ==
    ASSUME CallsInv, NEW c \in Calls, RequestEnds(c)
    PROVE  Fine
<1>1. op # "plugin" /\ UNCHANGED <<surroundings, times>> /\ ConnEnd(c) /\ Goes(c, Idle)
  BY DEF RequestEnds, CallsInv, Kept, InPlace, PluginPCs
<1>2. QED BY <1>1, CallRecords, EndedFine

-----------------------------------------------------------------------------
(***************************************************************************)
(* The surroundings, and the theorems                                      *)
(***************************************************************************)
LEMMA ChangeFine ==
    ASSUME CallsInv, Move \/ Plug \/ Change
    PROVE  Fine
<1>1. Changing
  BY DEF Move, Plug, Change
<1>2. /\ call' \in [Calls -> CallType] /\ UNCHANGED <<op, times>>
      /\ \A c \in Calls : call'[c].pc = call[c].pc /\ call'[c].failed = call[c].failed
  <2>1. ASSUME NEW c \in Calls
        PROVE  /\ call'[c] \in CallType
               /\ call'[c].pc = call[c].pc /\ call'[c].failed = call[c].failed
    <3>1. call[c] \in CallType
      BY CallRecords
    <3>2. call'[c] = call[c] \/ call'[c] = [call[c] EXCEPT !.changed = call[c].changed + 1]
      BY <1>1 DEF Changing
    <3>3. QED BY <3>1, <3>2 DEF CallType
  <2>2. QED BY <1>1, <2>1 DEF Changing
<1>3. ConnInv' /\ UNCHANGED <<mode, conn>>
  <2>1. Breaks \/ NewHostKey \/ ResetHostKey \/ LoseHostKey \/ UNCHANGED keyState
    BY DEF Move, Plug, Change, remembered, keyState, connVars
  <2>2. ConnInv'
    BY <2>1, WorldKeeps, ConnUnchanged DEF CallsInv
  <2>3. QED
    BY <2>2 DEF Move, Plug, Change, connVars, Breaks, NewHostKey, ResetHostKey,
                LoseHostKey, connWorld
<1>4. broken' \subseteq Layers /\ host' \in Hosts \cup {NoHost} /\ attached' \subseteq Hosts
  BY DEF Move, Plug, Change, connVars, Breaks, NewHostKey, ResetHostKey, LoseHostKey,
         connWorld, CallsInv, CallTypes, Layers
<1>5. OnlyMove({})
  <2>1. CallTypes'
    BY <1>2, <1>3, <1>4 DEF CallsInv, CallTypes, CallType, NextProbe
  <2>2. QED BY <1>2, <1>3, <2>1 DEF OnlyMove, Stays
<1>6. QED BY <1>5, QuietMoves

LEMMA EveryStepFine ==
    ASSUME CallsInv, [Next]_vars
    PROVE  Fine
<1>1. ASSUME NEW c \in Calls, Plugin(c)
      PROVE  Fine
  BY <1>1, ForwardFine, ForwardFailsFine, DispatchFine, LocalFine, PostEndsFine,
     RefreshBeginFine, RefreshEndsFine, ReturnFine DEF Plugin
<1>2. ASSUME NEW c \in Calls, Prepare(c)
      PROVE  Fine
  BY <1>2, VerifyBeginFine, VerifyEndsFine, ProbeOkFine, ProbeFailsFine DEF Prepare
<1>3. CASE UNCHANGED vars
  <2>1. OnlyMove({})
    BY <1>3, ConnUnchanged DEF vars, connVars, callVars, keyState, OnlyMove, Stays,
       CallsInv, CallTypes, CallType, NextProbe
  <2>2. QED BY <2>1, QuietMoves
<1>4. QED
  BY <1>1, <1>2, <1>3, CallBegins, PrepareBeginFine, PushFine, AskFine, RequestBeginFine,
     RequestEndsFine, ConnectionFine, ConnectionBreaksFine, ChangeFine DEF Next, Step

(* The inductive invariant: a caller that waits for a connection has one,   *)
(* which is for it, and what the operation did agrees with its place.       *)
THEOREM CallsCorrect == Spec => []CallsInv
<1>1. CallsInv /\ [Next]_vars => CallsInv'
  BY EveryStepFine DEF Fine
<1>2. QED BY <1>1, CallsInitial, PTL DEF Spec

(* The places of calls and connections agree, for any number of them.      *)
THEOREM CallsTyped == Spec => []TypeOK
<1>1. CallsInv => TypeOK
  BY DEF CallsInv, CallTypes, CallType, ConnInv, ConnTypes, ConnectionType, Kept, InPlace,
         TypeOK, NextProbe, Commands
<1>2. QED BY <1>1, CallsCorrect, PTL

(* The plugin, prepare-vm and the threads keep one host key per VM: what   *)
(* HostKeyCorrect shows of connections holds of all their callers.         *)
THEOREM CallersKeepHostKey == Spec => []HostKeyKept
<1>1. CallsInv => HostKeyKept
  BY DEF CallsInv, ConnInv
<1>2. QED BY <1>1, CallsCorrect, PTL

(* However often a call is forwarded, whatever fails and wherever the VM   *)
(* moves, the operation is carried out at most once, and was if the call   *)
(* succeeds: the calls implement RemoteOperation.                          *)
THEOREM CallsImplement == Spec => CarriedOutOnce
<1>1. Init => Operation!Init
  BY DEF Init, Idle, Operation!Init, Status
<1>2. CallsInv /\ [Next]_vars => [Operation!Next]_<<Statuses, times>>
  BY EveryStepFine DEF Fine
<1>3. CallsInv /\ [Next]_vars => [Operation!Next]_Operation!vars
  BY <1>2 DEF Operation!vars, Statuses
<1>4. QED
  BY <1>1, <1>3, CallsCorrect, PTL DEF Spec, CarriedOutOnce, Operation!Spec
-----------------------------------------------------------------------------
(***************************************************************************)
(* Where calls are served                                                  *)
(***************************************************************************)
OnTheWay == {"look", "post", "local"}

(* A call is forwarded once, and once for each change; having used that up *)
(* it is where it should be.                                               *)
Owned(c) ==
    call[c].pc \in OnTheWay =>
        /\ call[c].hops <= call[c].changed + 1
        /\ \/ call[c].changed # 0 /\ call[c].pc # "look"
           \/ call[c].hops <= call[c].changed /\ call[c].pc = "look"
           \/ IsHere(c)

LEMMA OwnedRest ==
    ASSUME CallsInv, \A c \in Calls : Owned(c), NEW c \in Calls, NEW t, Goes(c, t),
           UNCHANGED surroundings, t.pc \in OnTheWay => Owned(c)'
    PROVE  \A d \in Calls : Owned(d)'
<1>1. ASSUME NEW d \in Calls \ {c}
      PROVE  call'[d] = call[d]
  BY DEF Goes, CallsInv, CallTypes
<1>2. ASSUME NEW d \in Calls \ {c}
      PROVE  Owned(d)'
  BY <1>1, <1>2 DEF Owned, surroundings, IsHere, RedirectTo, HostOfStorage
<1>3. call'[c] = t
  BY DEF Goes, CallsInv, CallTypes
<1>4. Owned(c)'
  BY <1>3 DEF Owned
<1>5. QED BY <1>2, <1>4

LEMMA OwnedPlugin ==
    ASSUME CallsInv, \A c \in Calls : Owned(c), NEW c \in Calls, Plugin(c) \/ Begin(c)
    PROVE  \A d \in Calls : Owned(d)'
<1>1. UNCHANGED surroundings
  BY DEF Plugin, Begin, Forward, ForwardFails, Dispatch, Local, PostEnds, RefreshBegin,
         RefreshEnds, Return, callVars, surroundings
<1>2. call[c] \in CallType
  BY CallRecords
<1>3. CASE Begin(c)
  <2>1. PICK kind \in Kinds, h \in Hosts :
          Goes(c, [Idle EXCEPT !.pc = "look", !.kind = kind, !.at = h])
    BY <1>3 DEF Begin
  <2> DEFINE t == [Idle EXCEPT !.pc = "look", !.kind = kind, !.at = h]
  <2>2. t.hops = 0 /\ t.changed = 0 /\ t.pc = "look"
    BY DEF Idle
  <2>3. call'[c] = t
    BY <2>1 DEF Goes, CallsInv, CallTypes
  <2>4. Owned(c)'
    BY <2>2, <2>3 DEF Owned
  <2>5. QED BY <1>1, <2>1, <2>4, OwnedRest
<1>4. CASE Forward(c)
  <2> DEFINE at == RedirectTo(call[c].kind)
             hops == IF call[c].hops < MaxHops THEN call[c].hops + 1 ELSE call[c].hops
             t == [call[c] EXCEPT !.at = at, !.hops = hops]
  <2>1. call[c].pc = "look" /\ ~IsHere(c) /\ Goes(c, t)
    BY <1>4 DEF Forward
  <2> HIDE DEF at, hops
  <2>2. t.kind = call[c].kind /\ t.at = at /\ t.hops = hops /\ t.changed = call[c].changed
    BY <1>2 DEF CallType
  <2>3. call'[c] = t
    BY <2>1 DEF Goes, CallsInv, CallTypes
  <2>4. hops <= call[c].changed + 1
    BY <1>2, <2>1 DEF hops, Owned, OnTheWay, CallType
  <2>5. IsHere(c)'
    <3>1. RedirectTo(call[c].kind)' = at
      BY <1>1, <2>2, <2>3 DEF at, RedirectTo, HostOfStorage, surroundings
    <3>2. QED BY <2>2, <2>3, <3>1 DEF IsHere
  <2>6. Owned(c)'
    BY <2>2, <2>3, <2>4, <2>5 DEF Owned
  <2>7. QED BY <1>1, <2>1, <2>6, OwnedRest
<1>5. CASE Dispatch(c)
  <2>1. PICK pc \in PCs : Goes(c, At(c, pc)) /\ pc # "look"
    BY <1>5 DEF Dispatch, To, PCs
  <2>2. /\ At(c, pc).kind = call[c].kind /\ At(c, pc).at = call[c].at
        /\ At(c, pc).hops = call[c].hops /\ At(c, pc).changed = call[c].changed
        /\ At(c, pc).pc = pc
    BY <1>2 DEF CallType, At
  <2>3. call'[c] = At(c, pc) /\ call[c].pc = "look" /\ IsHere(c)
    BY <1>5, <2>1 DEF Dispatch, Goes, CallsInv, CallTypes
  <2>4. call'[c].kind = call[c].kind /\ UNCHANGED <<host, attached>>
    BY <1>1, <2>2, <2>3 DEF surroundings
  <2>5. IsHere(c)'
    BY <2>2, <2>3, <2>4 DEF IsHere, RedirectTo, HostOfStorage
  <2>6. Owned(c)'
    BY <2>2, <2>3, <2>5 DEF Owned, OnTheWay
  <2>7. QED BY <1>1, <2>1, <2>6, OwnedRest
<1>6. CASE ForwardFails(c) \/ Local(c) \/ RefreshEnds(c)
  <2>1. PICK failed \in BOOLEAN : Returns(c, failed)
    BY <1>6 DEF ForwardFails, Local, RefreshEnds
  <2>2. PICK t \in CallType : Goes(c, t) /\ t.pc = "return"
    BY <2>1, CallRecords
  <2>3. QED BY <1>1, <2>2, OwnedRest DEF OnTheWay
<1>7. CASE PostEnds(c) \/ Return(c)
  <2>1. \E t : Goes(c, t) /\ t.pc \in {"refresh", "return", "returned"}
    <3>1. CASE Goes(c, Served(c, "refresh"))
      BY <3>1, CallRecords DEF PCs
    <3>2. CASE \E failed \in BOOLEAN : Returns(c, failed)
      BY <3>2, CallRecords
    <3>3. ASSUME NEW failed, Goes(c, [Idle EXCEPT !.pc = "returned", !.failed = failed])
          PROVE  \E t : Goes(c, t) /\ t.pc \in {"refresh", "return", "returned"}
      <4> DEFINE t == [Idle EXCEPT !.pc = "returned", !.failed = failed]
      <4>1. t.pc = "returned" /\ Goes(c, t)
        BY <3>3 DEF Idle
      <4> HIDE DEF t
      <4>2. QED BY <4>1
    <3>4. QED BY <1>7, <3>1, <3>2, <3>3 DEF PostEnds, Return
  <2>2. QED BY <1>1, <2>1, OwnedRest DEF OnTheWay
<1>8. CASE RefreshBegin(c)
  <2>1. UNCHANGED <<call, surroundings>>
    BY <1>8 DEF RefreshBegin, callVars, surroundings
  <2>2. QED BY <2>1 DEF Owned, surroundings, IsHere, RedirectTo, HostOfStorage
<1>9. QED BY <1>3, <1>4, <1>5, <1>6, <1>7, <1>8 DEF Plugin

(* Other steps leave a call of the plugin as it is.                        *)
LEMMA OwnedOthers ==
    ASSUME CallsInv, CallsInv', \A c \in Calls : Owned(c), UNCHANGED surroundings,
           \/ op # "plugin"
           \/ \A c \in Calls : /\ call'[c].pc = call[c].pc
                               /\ call[c].pc \in OnTheWay => call'[c] = call[c]
    PROVE  \A c \in Calls : Owned(c)'
<1>1. ASSUME NEW c \in Calls, op # "plugin"
      PROVE  Owned(c)'
  BY <1>1 DEF CallsInv, Kept, InPlace, PluginPCs, OnTheWay, Owned, surroundings
<1>2. ASSUME NEW c \in Calls, op = "plugin"
      PROVE  Owned(c)'
  BY <1>2 DEF Owned, surroundings, IsHere, RedirectTo, HostOfStorage
<1>3. QED BY <1>1, <1>2

LEMMA OwnedConnection ==
    ASSUME CallsInv, CallsInv', \A c \in Calls : Owned(c),
           NEW c \in Calls, Connection(c) \/ ConnectionBreaks(c)
    PROVE  \A d \in Calls : Owned(d)'
<1>1. CASE Connection(c)
  <2>1. ASSUME NEW d \in Calls
        PROVE  /\ call'[d].pc = call[d].pc
               /\ call[d].pc \in OnTheWay => call'[d] = call[d]
    <3>1. call'[d].pc = call[d].pc
      BY <1>1, CallsNotice DEF Connection, CallsInv, CallTypes
    <3>2. call[d].pc \in OnTheWay => call'[d] = call[d]
      BY <1>1 DEF Connection, Noticed, OnTheWay
    <3>3. QED BY <3>1, <3>2
  <2>2. QED BY <1>1, <2>1, OwnedOthers DEF Connection
<1>2. CASE ConnectionBreaks(c)
  <2>1. op # "plugin" \/ call' = call
    BY <1>2 DEF ConnectionBreaks, Goes, CallsInv, CallTypes, Kept, InPlace, PluginPCs
  <2>2. QED BY <1>2, <2>1, OwnedOthers DEF ConnectionBreaks
<1>3. QED BY <1>1, <1>2

LEMMA OwnedChange ==
    ASSUME CallsInv, CallsInv', \A c \in Calls : Owned(c), Changing
    PROVE  \A c \in Calls : Owned(c)'
<1> SUFFICES ASSUME NEW c \in Calls
             PROVE  Owned(c)'
  OBVIOUS
<1>1. call[c] \in CallType
  BY CallRecords
<1>2. CASE call[c].pc \in OnTheWay
  <2> DEFINE t == [call[c] EXCEPT !.changed = call[c].changed + 1]
  <2>1. call'[c] = t
    BY <1>2 DEF Changing, OnTheWay
  <2>2. t.changed = call[c].changed + 1 /\ t.pc = call[c].pc /\ t.hops = call[c].hops
    BY <1>1 DEF CallType
  <2>3. call[c].changed \in Nat /\ call[c].hops \in Nat
    BY <1>1 DEF CallType
  <2> HIDE DEF t
  <2>4. QED BY <1>2, <2>1, <2>2, <2>3 DEF Owned
<1>3. CASE call[c].pc \notin OnTheWay
  <2>1. call'[c] = call[c] \/ call'[c] = [call[c] EXCEPT !.changed = call[c].changed + 1]
    BY DEF Changing
  <2>2. call'[c].pc = call[c].pc
    BY <1>1, <2>1 DEF CallType
  <2>3. QED BY <1>3, <2>2 DEF Owned
<1>4. QED BY <1>2, <1>3

LEMMA OwnedNext ==
    ASSUME CallsInv, CallsInv', \A c \in Calls : Owned(c), [Next]_vars
    PROVE  \A c \in Calls : Owned(c)'
<1>1. ASSUME NEW c \in Calls,
             \/ Prepare(c) \/ PrepareBegin(c) \/ Push(c) \/ Ask(c)
             \/ RequestBegin(c) \/ RequestEnds(c)
      PROVE  op # "plugin" /\ UNCHANGED surroundings
  BY <1>1 DEF Prepare, VerifyBegin, VerifyEnds, Probe, ProbeOk, ProbeFails, PrepareBegin,
     Push, Ask, RequestBegin, RequestEnds, callVars, surroundings, CallsInv, Kept,
     InPlace, PluginPCs
<1>2. CASE UNCHANGED vars
  BY <1>2, OwnedOthers DEF vars, callVars, surroundings
<1>3. CASE Move \/ Plug \/ Change
  BY <1>3, OwnedChange DEF Move, Plug, Change
<1>4. QED
  BY <1>1, <1>2, <1>3, OwnedPlugin, OwnedConnection, OwnedOthers DEF Next, Step

(* Wherever the VM and the storage move, on any number of hosts: a call is *)
(* forwarded once and once more for each move, and then served by the host *)
(* that should, unless something moved since.                              *)
THEOREM CallsServedByOwner == Spec => []ServedByOwner
<1> DEFINE Inv == CallsInv /\ \A c \in Calls : Owned(c)
<1>1. Init => Inv
  BY CallsInitial DEF Init, Idle, Owned, OnTheWay
<1>2. Inv /\ [Next]_vars => Inv'
  BY OwnedNext, EveryStepFine DEF Fine
<1>3. Inv => ServedByOwner
  <2>1. ASSUME Inv, NEW c \in Calls
        PROVE  call[c].hops \in Nat /\ call[c].changed \in Nat
    BY <2>1, CallRecords DEF CallType
  <2>2. QED BY <2>1 DEF Owned, OnTheWay, ServedByOwner
<1> HIDE DEF Inv
<1>4. QED BY <1>1, <1>2, <1>3, PTL DEF Spec

-----------------------------------------------------------------------------
(***************************************************************************)
(* What a diagnosis finds                                                  *)
(***************************************************************************)
(* What is not to blame once a diagnosis has come to a probe, and what is  *)
(* not once its connection has come to a place.                            *)
Cleared(probe) ==
    CASE probe = "address" -> {}
      [] probe = "echo"    -> {"network"}
      [] probe = "access"  -> {"network", "server", "host key", "key", "socket"}
      [] OTHER             -> {"network", "server", "host key", "key"}

Passed(pc, probe) ==
    CASE pc = "connect"             -> {"network"}
      [] pc \in {"remember", "auth"} -> {"network", "server", "host key"}
      [] pc = "run"    -> {"network", "server", "host key", "key", "certificates"}
      [] pc = "answer" -> {"network", "server", "host key", "key", "certificates", probe}
      [] pc = "ok"     -> IF probe = "address" THEN {"network"}
                          ELSE {"network", "server", "host key", "key", "certificates", probe}
      [] OTHER         -> {}

(* A diagnosis during which nothing changed. *)
Looking(c) ==
    /\ Cleared(call[c].probe) \cap Guilty = {}
    /\ call[c].cause = IF call[c].probe \in {"socket", "access"}
                         THEN {"ncat"} \cap Guilty ELSE {}
    /\ conn[c].pc \in Open => conn[c].command = call[c].probe
    /\ conn[c].pc \in Open \ {"address"} => call[c].probe # "address"
    /\ conn[c].pc \in {"remember", "auth"} => mode = "ssh"
    /\ Passed(conn[c].pc, call[c].probe) \cap Guilty = {}
    /\ conn[c].pc = "failed" =>
         LET blamed == Blamed(call[c].probe, conn[c].error)
         IN  blamed # {} /\ blamed \subseteq Guilty

Diag(c) ==
    call[c].changed = 0 =>
        /\ call[c].pc = "diagnose" => Looking(c)
        /\ call[c].pc = "ask" => /\ call[c].cause \subseteq Guilty
                                 /\ Guilty # {} => call[c].cause # {}

LEMMA GuiltyWords ==
    ASSUME CallsInv
    PROVE  /\ Guilty \subseteq {"network", "server", "key", "ncat", "socket", "access",
                                "host key", "certificates"}
           /\ "network" \in Guilty <=> "network" \in broken
           /\ mode = "ssh" =>
                /\ \A l \in {"server", "key", "ncat", "socket", "access"} :
                      l \in Guilty <=> l \in broken
                /\ "host key" \in Guilty <=> known \notin {Absent, hostKey}
                /\ "certificates" \notin Guilty
           /\ mode = "tls" =>
                /\ Guilty \subseteq {"network", "certificates"}
                /\ "certificates" \in Guilty <=> broken \cap {"server", "key"} # {}
BY DEF CallsInv, CallTypes, Guilty, Layers

LEMMA ConnGoesTo ==
    ASSUME CallsInv, NEW c \in Calls, NEW to,
           \/ ConnGoes(c, ConnAt(c, to))
           \/ ConnGoes(c, [ConnAt(c, to) EXCEPT !.offered = hostKey])
    PROVE  conn'[c].pc = to /\ conn'[c].command = conn[c].command
<1>1. conn \in [Calls -> ConnectionType]
  BY DEF CallsInv, ConnInv, ConnTypes
<1>2. CASE ConnGoes(c, ConnAt(c, to))
  BY <1>1, <1>2 DEF ConnGoes, ConnAt, ConnectionType
<1>3. CASE ConnGoes(c, [ConnAt(c, to) EXCEPT !.offered = hostKey])
  BY <1>1, <1>3 DEF ConnGoes, ConnAt, ConnectionType
<1>4. QED BY <1>2, <1>3

LEMMA ConnGoesWrong ==
    ASSUME CallsInv, NEW c \in Calls, NEW error, ConnFails(c, error)
    PROVE  conn'[c].pc = "failed" /\ conn'[c].error = error
BY DEF ConnFails, ConnGoes, NoConnection, CallsInv, ConnInv, ConnTypes

(* The connection of a probe gets further, or breaks off. *)
LEMMA LookingOn ==
    ASSUME NEW c \in Calls, Looking(c), call'[c] = call[c], Guilty' = Guilty,
           conn'[c].pc \in Open \ {"address"}, conn'[c].command = call[c].probe,
           call[c].probe # "address", mode' = mode,
           conn'[c].pc \in {"remember", "auth"} => mode = "ssh",
           Passed(conn'[c].pc, call[c].probe) \cap Guilty = {}
    PROVE  Looking(c)'
BY DEF Looking, Open

LEMMA LookingFailed ==
    ASSUME NEW c \in Calls, Looking(c), call'[c] = call[c], Guilty' = Guilty,
           conn'[c].pc = "failed", Blamed(call[c].probe, conn'[c].error) # {},
           Blamed(call[c].probe, conn'[c].error) \subseteq Guilty
    PROVE  Looking(c)'
BY DEF Looking, Open, Passed

LEMMA ConnectionLooks ==
    ASSUME CallsInv, NEW c \in Calls, Looking(c), ConnStep(c), call[c].pc = "diagnose",
           call'[c] = call[c], Guilty' = Guilty
    PROVE  Looking(c)'
<1> DEFINE probe == call[c].probe
<1>1. /\ probe \in DOMAIN NextProbe /\ mode \in {"ssh", "tls"}
      /\ conn[c].pc \in {"remember", "auth"} => mode = "ssh"
      /\ Cleared(probe) \cap Guilty = {} /\ Passed(conn[c].pc, probe) \cap Guilty = {}
      /\ conn[c].pc \in Open => conn[c].command = probe
      /\ conn[c].pc \in Open \ {"address"} => probe # "address"
  BY DEF CallsInv, CallTypes, CallType, Looking
<1>2. /\ probe \in {"address", "echo", "ncat", "socket", "access"}
      /\ mode = "tls" => probe \in {"address", "echo"}
      /\ mode' = mode
  BY <1>1, ConnOthers DEF NextProbe, CallsInv
<1> HIDE DEF probe
<1>3. CASE Address(c)
  <2>1. conn[c].pc = "address" /\ conn[c].command = probe
    BY <1>1, <1>3 DEF Address, Open
  <2>2. CASE "network" \in broken /\ ConnFails(c, IF mode = "tls" \/ conn[c].command = "address"
                                                   THEN "network" ELSE "ssh")
    <3>1. probe = "address"
      BY <1>1, <1>2, <2>2, GuiltyWords DEF Cleared
    <3>2. Blamed(probe, conn'[c].error) = {"network"}
      BY <3>1 DEF Blamed
    <3>3. QED BY <2>2, <3>2, GuiltyWords, ConnGoesWrong, LookingFailed DEF probe
  <2>3. CASE /\ "network" \notin broken
             /\ ConnGoes(c, ConnAt(c, IF conn[c].command = "address" THEN "ok" ELSE "connect"))
    <3>1. conn'[c].pc = (IF probe = "address" THEN "ok" ELSE "connect")
          /\ conn'[c].command = probe
      BY <2>1, <2>3, ConnGoesTo
    <3>2. CASE probe = "address"
      <4>1. Passed("ok", probe) \cap Guilty = {}
        BY <2>3, <3>2, GuiltyWords DEF Passed
      <4>2. QED BY <3>1, <3>2, <4>1 DEF Looking, Open, probe
    <3>3. CASE probe # "address"
      <4>1. Passed("connect", probe) \cap Guilty = {}
        BY <2>3, GuiltyWords DEF Passed
      <4>2. QED BY <3>1, <3>3, <4>1, <1>2, LookingOn DEF Open, probe
    <3>4. QED BY <3>2, <3>3
  <2>4. QED BY <1>3, <2>2, <2>3 DEF Address
<1>4. CASE ConnectTls(c)
  <2>1. /\ conn[c].pc = "connect" /\ mode = "tls" /\ probe = "echo"
        /\ conn[c].command = probe
    BY <1>1, <1>2, <1>4 DEF ConnectTls, Open
  <2>2. CASE broken \cap {"server", "key"} # {} /\ ConnFails(c, "tls")
    <3>1. conn'[c].pc = "failed" /\ conn'[c].error = "tls"
      BY <2>2, ConnGoesWrong
    <3>2. Blamed(probe, "tls") = {"certificates"}
      BY <2>1 DEF Blamed
    <3>3. QED BY <2>1, <2>2, <3>1, <3>2, GuiltyWords, LookingFailed DEF probe
  <2>3. CASE broken \cap {"server", "key"} = {} /\ ConnGoes(c, ConnAt(c, "run"))
    <3>1. conn'[c].pc = "run" /\ conn'[c].command = probe
      BY <2>1, <2>3, ConnGoesTo
    <3>2. Passed("run", probe) \cap Guilty = {}
      <4>1. Guilty \subseteq {"network"}
        BY <2>1, <2>3, GuiltyWords
      <4>2. "network" \notin Guilty
        BY <1>1, <2>1 DEF Passed
      <4>3. QED BY <4>1, <4>2
    <3>3. QED BY <2>1, <3>1, <3>2, <1>2, LookingOn DEF Open, probe
  <2>4. QED BY <1>4, <2>2, <2>3 DEF ConnectTls
<1>5. CASE ConnectSsh(c)
  <2>1. conn[c].pc = "connect" /\ mode = "ssh" /\ probe # "address" /\ conn[c].command = probe
    BY <1>1, <1>5 DEF ConnectSsh, Open
  <2>2. ASSUME NEW error \in {"ssh", "hostkey"}, ConnFails(c, error),
               IF error = "ssh" THEN "server" \in Guilty ELSE "host key" \in Guilty
        PROVE  Looking(c)'
    <3>1. conn'[c].pc = "failed" /\ conn'[c].error = error
      BY <2>2, ConnGoesWrong
    <3>2. probe = "echo"
      BY <1>1, <1>2, <2>1, <2>2 DEF Cleared
    <3>3. Blamed(probe, error) = IF error = "ssh" THEN {"server"} ELSE {"host key"}
      BY <2>2, <3>2 DEF Blamed
    <3>4. QED BY <2>2, <3>1, <3>3, LookingFailed DEF probe
  <2>3. ASSUME NEW to \in {"remember", "auth"}, "server" \notin broken,
               known \in {Absent, hostKey},
               ConnGoes(c, [ConnAt(c, to) EXCEPT !.offered = hostKey])
        PROVE  Looking(c)'
    <3>1. conn'[c].pc = to /\ conn'[c].command = probe
      BY <2>1, <2>3, ConnGoesTo
    <3>2. Passed(to, probe) \cap Guilty = {}
      BY <1>1, <2>1, <2>3, GuiltyWords DEF Passed
    <3>3. QED BY <2>1, <3>1, <3>2, <1>2, LookingOn DEF Open, probe
  <2>4. QED BY <1>5, <2>1, <2>2, <2>3, GuiltyWords DEF ConnectSsh
<1>6. CASE Remember(c)
  <2>1. /\ conn[c].pc = "remember" /\ probe # "address" /\ conn[c].command = probe
        /\ ConnGoes(c, ConnAt(c, "auth"))
    BY <1>1, <1>6 DEF Remember, Open
  <2>2. conn'[c].pc = "auth" /\ conn'[c].command = probe
    BY <2>1, ConnGoesTo
  <2>3. Passed("auth", probe) \cap Guilty = {}
    BY <1>1, <2>1 DEF Passed
  <2>4. QED BY <1>1, <1>2, <2>1, <2>2, <2>3, LookingOn DEF Open, probe
<1>7. CASE Authenticate(c)
  <2>1. conn[c].pc = "auth" /\ probe # "address" /\ conn[c].command = probe
    BY <1>1, <1>7 DEF Authenticate, Open
  <2>2. CASE "key" \in Guilty /\ ConnFails(c, "auth")
    <3>1. conn'[c].pc = "failed" /\ conn'[c].error = "auth"
      BY <2>2, ConnGoesWrong
    <3>2. probe = "echo"
      BY <1>1, <1>2, <2>1, <2>2 DEF Cleared
    <3>3. Blamed(probe, "auth") = {"key"}
      BY <3>2 DEF Blamed
    <3>4. QED BY <2>2, <3>1, <3>3, LookingFailed DEF probe
  <2>3. CASE /\ "key" \notin Guilty /\ "certificates" \notin Guilty
             /\ ConnGoes(c, ConnAt(c, "run"))
    <3>1. conn'[c].pc = "run" /\ conn'[c].command = probe
      BY <2>1, <2>3, ConnGoesTo
    <3>2. Passed("run", probe) \cap Guilty = {}
      BY <1>1, <2>1, <2>3 DEF Passed
    <3>3. QED BY <2>1, <3>1, <3>2, <1>2, LookingOn DEF Open, probe
  <2>4. QED BY <1>1, <1>7, <2>1, <2>2, <2>3, GuiltyWords DEF Authenticate
<1>8. CASE Run(c)
  <2>1. /\ conn[c].pc = "run" /\ probe \in {"echo", "ncat", "socket", "access"}
        /\ conn[c].command = probe
    BY <1>1, <1>2, <1>8 DEF Run, Open
  <2>2. Needs(probe) = IF probe = "echo" THEN {} ELSE {probe}
    BY <2>1 DEF Needs, Layers
  <2>3. CASE probe \in broken \ {"echo"} /\ ConnFails(c, "ssh")
    <3>1. conn'[c].pc = "failed" /\ mode = "ssh"
      BY <1>1, <1>2, <2>1, <2>3, ConnGoesWrong
    <3>2. Blamed(probe, conn'[c].error) = {probe}
      BY <2>1, <2>3 DEF Blamed
    <3>3. QED BY <2>1, <2>3, <3>1, <3>2, GuiltyWords, LookingFailed DEF probe
  <2>4. CASE (probe = "echo" \/ probe \notin broken) /\ ConnGoes(c, ConnAt(c, "answer"))
    <3>1. conn'[c].pc = "answer" /\ conn'[c].command = probe
      BY <2>1, <2>4, ConnGoesTo
    <3>2. probe \notin Guilty
      BY <1>1, <1>2, <2>1, <2>4, GuiltyWords
    <3>3. Passed("answer", probe) \cap Guilty = {}
      BY <1>1, <2>1, <3>2 DEF Passed
    <3>4. QED BY <2>1, <3>1, <3>3, <1>2, LookingOn DEF Open, probe
  <2>5. QED BY <1>8, <2>1, <2>2, <2>3, <2>4 DEF Run
<1>9. CASE Answer(c)
  <2>1. conn[c].pc = "answer" /\ probe # "address" /\ conn'[c].pc = "ok"
    BY <1>1, <1>9 DEF Answer, Open, ConnGoes, NoConnection, CallsInv, ConnInv, ConnTypes
  <2>2. Passed("ok", probe) \cap Guilty = {}
    BY <1>1, <2>1 DEF Passed
  <2>3. QED BY <2>1, <2>2 DEF Looking, Open, probe
<1>10. QED
  BY <1>3, <1>4, <1>5, <1>6, <1>7, <1>8, <1>9 DEF ConnStep

(***************************************************************************)
(* Steps of a diagnosis, and of others meanwhile                           *)
(***************************************************************************)
LEMMA DiagElsewhere ==
    ASSUME NEW c \in Calls,
           call'[c].pc \notin {"diagnose", "ask"} \/ call'[c].changed # 0
    PROVE  Diag(c)'
BY DEF Diag

LEMMA DiagStays ==
    ASSUME NEW c \in Calls, Diag(c), call'[c] = call[c], Guilty' = Guilty, mode' = mode,
           conn'[c] = conn[c] \/ call[c].pc # "diagnose"
    PROVE  Diag(c)'
BY DEF Diag, Looking

LEMMA GuiltySame ==
    ASSUME CallsInv, NEW c \in Calls,
           \/ UNCHANGED connVars
           \/ \E command \in Commands : ConnBegin(c, command)
           \/ ConnBreaks(c) \/ ConnEnd(c)
    PROVE  /\ Guilty' = Guilty /\ mode' = mode
           /\ \A d \in Calls \ {c} : conn'[d] = conn[d]
<1>1. /\ UNCHANGED <<mode, broken, hostKey, known>>
      /\ \/ conn' = conn
         \/ \E t : ConnGoes(c, t)
  BY DEF connVars, ConnBegin, ConnBreaks, ConnEnd, ConnFails, connWorld, remembered
<1>2. QED BY <1>1 DEF Guilty, ConnGoes, CallsInv, ConnInv, ConnTypes

LEMMA DiagCall ==
    ASSUME CallsInv, \A d \in Calls : Diag(d), NEW c \in Calls, NEW t, Goes(c, t),
           t.pc \in {"diagnose", "ask"} => Diag(c)',
           \/ UNCHANGED connVars
           \/ \E command \in Commands : ConnBegin(c, command)
           \/ ConnBreaks(c) \/ ConnEnd(c)
    PROVE  \A d \in Calls : Diag(d)'
<1>1. call'[c] = t /\ \A d \in Calls \ {c} : call'[d] = call[d]
  BY DEF Goes, CallsInv, CallTypes
<1>2. Diag(c)'
  BY <1>1, DiagElsewhere
<1>3. ASSUME NEW d \in Calls \ {c}
      PROVE  Diag(d)'
  BY <1>1, GuiltySame, DiagStays
<1>4. QED BY <1>2, <1>3

(* Whoever looks for the cause notices when it changes. *)
LEMMA DiagNoticed ==
    ASSUME CallsInv, \A d \in Calls : Diag(d), NEW c \in Calls,
           NEW calls \in [Calls -> CallType], call' = Noticed(calls), mode' = mode,
           \A d \in Calls \ {c} : calls[d] = call[d] /\ conn'[d] = conn[d],
           Guilty' = Guilty => Diag(c)'
    PROVE  \A d \in Calls : Diag(d)'
<1>1. CASE Guilty' = Guilty
  <2>1. \A d \in Calls \ {c} : call'[d] = call[d]
    BY <1>1 DEF Noticed
  <2>2. QED BY <1>1, <2>1, DiagStays
<1>2. CASE Guilty' # Guilty
  <2>1. ASSUME NEW d \in Calls
        PROVE  call'[d].pc \notin {"diagnose", "ask"} \/ call'[d].changed # 0
    <3>1. calls[d] \in CallType
      OBVIOUS
    <3>2. CASE calls[d].pc \in {"diagnose", "ask"}
      <4>1. call'[d] = [calls[d] EXCEPT !.changed = 1]
        BY <1>2, <3>2 DEF Noticed
      <4>2. QED BY <3>1, <4>1 DEF CallType
    <3>3. CASE calls[d].pc \notin {"diagnose", "ask"}
      BY <3>3 DEF Noticed
    <3>4. QED BY <3>2, <3>3
  <2>2. QED BY <2>1, DiagElsewhere
<1>3. QED BY <1>1, <1>2

LEMMA DiagConnection ==
    ASSUME CallsInv, \A d \in Calls : Diag(d), NEW c \in Calls,
           Connection(c) \/ ConnectionBreaks(c)
    PROVE  \A d \in Calls : Diag(d)'
<1>1. call \in [Calls -> CallType]
  BY DEF CallsInv, CallTypes
<1>2. CASE Connection(c)
  <2>1. /\ ConnStep(c) /\ call' = Noticed(call) /\ mode' = mode
        /\ \A d \in Calls \ {c} : conn'[d] = conn[d]
    BY <1>2, ConnOthers DEF Connection, CallsInv
  <2>2. ASSUME Guilty' = Guilty
        PROVE  Diag(c)'
    <3>1. call'[c] = call[c]
      BY <2>1, <2>2 DEF Noticed
    <3>2. CASE call[c].pc = "diagnose" /\ call[c].changed = 0
      <4>1. Looking(c)
        BY <3>2 DEF Diag
      <4>2. QED BY <2>1, <2>2, <3>1, <3>2, <4>1, ConnectionLooks DEF Diag
    <3>3. CASE call[c].pc # "diagnose"
      BY <2>1, <2>2, <3>1, <3>3, DiagStays
    <3>4. CASE call[c].changed # 0
      BY <3>1, <3>4, DiagElsewhere
    <3>5. QED BY <3>2, <3>3, <3>4
  <2>3. QED BY <1>1, <2>1, <2>2, DiagNoticed
<1>3. CASE ConnectionBreaks(c)
  <2> DEFINE t == [call[c] EXCEPT !.changed = 1]
  <2>1. t.changed = 1
    BY <1>1 DEF CallType
  <2>2. CASE call[c].pc = "diagnose"
    <3>1. Goes(c, t) /\ ConnBreaks(c)
      BY <1>3, <2>2 DEF ConnectionBreaks
    <3>2. call'[c] = t
      BY <1>1, <3>1 DEF Goes
    <3> HIDE DEF t
    <3>3. Diag(c)'
      BY <2>1, <3>2, DiagElsewhere
    <3>4. QED BY <3>1, <3>3, DiagCall
  <2>3. CASE call[c].pc # "diagnose"
    <3>1. Goes(c, call[c]) /\ ConnBreaks(c)
      BY <1>3, <2>3 DEF ConnectionBreaks
    <3>2. call[c].pc # "ask"
      BY <3>1 DEF ConnBreaks, Open, CallsInv, Kept, InPlace
    <3>3. QED BY <2>3, <3>1, <3>2, DiagCall
  <2>4. QED BY <2>2, <2>3
<1>4. QED BY <1>2, <1>3

LEMMA DiagBegins ==
    ASSUME CallsInv, \A d \in Calls : Diag(d), NEW c \in Calls,
           \/ PrepareBegin(c) \/ Push(c) \/ Ask(c) \/ RequestBegin(c) \/ RequestEnds(c)
           \/ VerifyBegin(c) \/ VerifyEnds(c)
    PROVE  \A d \in Calls : Diag(d)'
<1>1. /\ call \in [Calls -> CallType] /\ Idle.pc = "idle"
      /\ \A pc \in PCs : At(c, pc).pc = pc /\ [Idle EXCEPT !.pc = pc].pc = pc
  BY CallRecords DEF CallsInv, CallTypes
<1>2. CASE PrepareBegin(c)
  BY <1>1, <1>2, DiagCall DEF PrepareBegin, To, PCs
<1>3. CASE Ask(c)
  BY <1>1, <1>3, DiagCall DEF Ask, PCs
<1>4. CASE RequestBegin(c)
  <2>1. ConnBegin(c, "docker") /\ "docker" \in Commands /\ Goes(c, At(c, "request"))
    BY <1>4 DEF RequestBegin, To, Commands
  <2>2. At(c, "request").pc = "request"
    BY <1>1 DEF PCs
  <2>3. QED BY <2>1, <2>2, DiagCall
<1>5. CASE RequestEnds(c)
  BY <1>1, <1>5, DiagCall DEF RequestEnds
<1>6. CASE VerifyBegin(c)
  <2>1. ConnBegin(c, "docker") /\ "docker" \in Commands /\ Goes(c, call[c])
    BY <1>1, <1>6 DEF VerifyBegin, callVars, Commands, Goes
  <2>2. call[c].pc = "verify"
    BY <1>6 DEF VerifyBegin
  <2>3. QED BY <2>1, <2>2, DiagCall
<1>7. CASE VerifyEnds(c)
  <2>1. ConnEnd(c) /\ conn'[c].pc = "none"
    BY <1>7, ConnEnded DEF VerifyEnds, CallsInv
  <2>2. CASE Goes(c, Idle)
    BY <1>1, <2>1, <2>2, DiagCall
  <2>3. CASE Goes(c, [Idle EXCEPT !.pc = "diagnose"])
    <3> DEFINE t == [Idle EXCEPT !.pc = "diagnose"]
    <3>1. t.pc = "diagnose" /\ t.probe = "address" /\ t.cause = {}
      BY DEF Idle
    <3>2. call'[c] = t /\ Goes(c, t)
      BY <1>1, <2>3 DEF Goes
    <3> HIDE DEF t
    <3>3. Diag(c)'
      BY <2>1, <3>1, <3>2 DEF Diag, Looking, Cleared, Passed, Open
    <3>4. QED BY <2>1, <3>2, <3>3, DiagCall
  <2>4. QED BY <1>7, <2>2, <2>3 DEF VerifyEnds
<1>8. CASE Push(c)
  <2>1. mode' = mode /\ conn' = conn
    BY <1>8 DEF Push
  <2>2. CASE UNCHANGED broken /\ \E t : Goes(c, t) /\ t.pc \in {"verify", "idle"}
    <3>1. UNCHANGED connVars
      BY <1>8, <2>2 DEF Push, connVars, remembered
    <3>2. QED BY <2>2, <3>1, DiagCall
  <2>3. CASE call' = Noticed([call EXCEPT ![c].pc = "verify"])
    <3> DEFINE calls == [call EXCEPT ![c].pc = "verify"]
    <3>1. calls \in [Calls -> CallType] /\ calls[c].pc = "verify"
      BY <1>1 DEF CallType, PCs
    <3>2. /\ \A d \in Calls \ {c} : calls[d] = call[d]
          /\ call' = Noticed(calls)
      BY <1>1, <2>3
    <3> HIDE DEF calls
    <3>3. Diag(c)'
      BY <3>1, <3>2, CallsNotice, DiagElsewhere
    <3>4. QED BY <2>1, <3>1, <3>2, <3>3, DiagNoticed
  <2>4. QED BY <1>1, <1>8, <2>2, <2>3 DEF Push, To, PCs
<1>9. QED BY <1>2, <1>3, <1>4, <1>5, <1>6, <1>7, <1>8

LEMMA DiagProbed ==
    ASSUME CallsInv, \A d \in Calls : Diag(d), NEW c \in Calls, NEW cause, NEW next,
           Probed(c, cause, next), ConnEnd(c),
           call[c].changed = 0 =>
             IF next = "none"
               THEN cause \subseteq Guilty /\ (Guilty # {} => cause # {})
               ELSE /\ Cleared(next) \cap Guilty = {}
                    /\ cause = IF next \in {"socket", "access"} THEN {"ncat"} \cap Guilty
                                                                 ELSE {}
    PROVE  \A d \in Calls : Diag(d)'
<1> DEFINE pc == IF next = "none" THEN "ask" ELSE "diagnose"
           probe == IF next = "none" THEN "address" ELSE next
           t == [call[c] EXCEPT !.pc = pc, !.probe = probe, !.cause = cause]
<1>1. call[c] \in CallType /\ call \in [Calls -> CallType]
  BY CallRecords DEF CallsInv, CallTypes
<1>2. Goes(c, t)
  BY DEF Probed
<1> HIDE DEF pc, probe
<1>3. /\ t.pc = pc /\ t.probe = probe /\ t.cause = cause /\ t.changed = call[c].changed
  BY <1>1 DEF CallType
<1> HIDE DEF t
<1>4. call'[c] = t
  BY <1>1, <1>2 DEF Goes
<1>5. conn'[c].pc = "none" /\ Guilty' = Guilty
  BY ConnEnded, GuiltySame DEF CallsInv
<1>6. CASE call[c].changed = 0 /\ next = "none"
  <2>1. Diag(c)'
    BY <1>3, <1>4, <1>5, <1>6 DEF Diag, pc
  <2>2. QED BY <1>2, <2>1, DiagCall
<1>7. CASE call[c].changed = 0 /\ next # "none"
  <2>1. /\ call'[c].pc = "diagnose" /\ call'[c].probe = next /\ call'[c].cause = cause
        /\ Passed(conn'[c].pc, next) = {}
    BY <1>3, <1>4, <1>5, <1>7 DEF pc, probe, Passed
  <2>2. Looking(c)'
    BY <1>5, <1>7, <2>1 DEF Looking, Open
  <2>3. Diag(c)'
    BY <2>1, <2>2 DEF Diag
  <2>4. QED BY <1>2, <2>3, DiagCall
<1>8. CASE call[c].changed # 0
  <2>1. Diag(c)'
    BY <1>3, <1>4, <1>8 DEF Diag
  <2>2. QED BY <1>2, <2>1, DiagCall
<1>9. QED BY <1>6, <1>7, <1>8

(* What has gone well clears its layers, and what went wrong blames one.   *)
LEMMA DiagProbeOk ==
    ASSUME CallsInv, \A d \in Calls : Diag(d), NEW c \in Calls, ProbeOk(c)
    PROVE  \A d \in Calls : Diag(d)'
<1> DEFINE probe == call[c].probe
           next == NextProbe[probe]
<1>1. /\ call[c].pc = "diagnose" /\ conn[c].pc = "ok" /\ ConnEnd(c)
      /\ Probed(c, call[c].cause, next)
  BY DEF ProbeOk
<1>2. probe \in DOMAIN NextProbe /\ mode \in {"ssh", "tls"}
  BY CallRecords DEF CallType, CallsInv, CallTypes
<1> HIDE DEF probe
<1>3. ASSUME call[c].changed = 0
      PROVE  IF next = "none"
               THEN call[c].cause \subseteq Guilty /\ (Guilty # {} => call[c].cause # {})
               ELSE /\ Cleared(next) \cap Guilty = {}
                    /\ call[c].cause = IF next \in {"socket", "access"}
                                         THEN {"ncat"} \cap Guilty ELSE {}
  <2>1. /\ Cleared(probe) \cap Guilty = {} /\ Passed("ok", probe) \cap Guilty = {}
        /\ call[c].cause = IF probe \in {"socket", "access"} THEN {"ncat"} \cap Guilty
                                                             ELSE {}
    BY <1>1, <1>3 DEF Diag, Looking, probe
  <2>2. CASE probe = "address"
    <3>1. next = "echo" /\ "network" \notin Guilty
      BY <1>2, <2>1, <2>2 DEF NextProbe, Passed
    <3>2. QED BY <2>1, <2>2, <3>1 DEF Cleared
  <2>3. CASE probe = "echo" /\ mode = "tls"
    <3>1. next = "none"
      BY <2>3 DEF NextProbe
    <3>2. Guilty \subseteq {"network", "certificates"}
      BY <2>3, GuiltyWords
    <3>3. Guilty \cap {"network", "certificates"} = {}
      BY <2>1, <2>3 DEF Passed
    <3>4. QED BY <2>1, <2>3, <3>1, <3>2, <3>3
  <2>4. CASE mode = "ssh" /\ probe \in {"echo", "ncat", "socket", "access"}
    <3>1. Guilty \cap {"network", "server", "host key", "key", "certificates", probe} = {}
      BY <2>1, <2>4 DEF Passed
    <3>2. CASE probe = "echo"
      <4>1. next = "ncat"
        BY <2>4, <3>2 DEF NextProbe
      <4>2. QED BY <2>1, <3>1, <3>2, <4>1 DEF Cleared
    <3>3. CASE probe = "ncat"
      <4>1. next = "socket"
        BY <2>4, <3>3 DEF NextProbe
      <4>2. QED BY <2>1, <3>1, <3>3, <4>1 DEF Cleared
    <3>4. CASE probe = "socket"
      <4>1. next = "access"
        BY <2>4, <3>4 DEF NextProbe
      <4>2. QED BY <2>1, <3>1, <3>4, <4>1 DEF Cleared
    <3>5. CASE probe = "access"
      <4>1. next = "none"
        BY <2>4, <3>5 DEF NextProbe
      <4>2. Guilty \subseteq {"ncat"}
        BY <2>1, <3>1, <3>5, GuiltyWords DEF Cleared
      <4>3. QED BY <2>1, <3>5, <4>1, <4>2
    <3>6. QED BY <2>4, <3>2, <3>3, <3>4, <3>5
  <2>5. QED BY <1>2, <2>2, <2>3, <2>4 DEF NextProbe
<1> HIDE DEF next
<1>4. QED BY <1>1, <1>3, DiagProbed

LEMMA DiagProbeFails ==
    ASSUME CallsInv, \A d \in Calls : Diag(d), NEW c \in Calls, ProbeFails(c)
    PROVE  \A d \in Calls : Diag(d)'
<1> DEFINE probe == call[c].probe
           blamed == Blamed(probe, conn[c].error)
           cause == call[c].cause \cup blamed
           next == IF probe = "ncat" THEN "socket" ELSE "none"
<1>1. call[c].pc = "diagnose" /\ conn[c].pc = "failed" /\ ConnEnd(c)
  BY DEF ProbeFails
<1>2. CASE Goes(c, Idle)
  BY <1>1, <1>2, DiagCall DEF Idle
<1>3. CASE Probed(c, cause, next)
  <2>1. ASSUME call[c].changed = 0
        PROVE  IF next = "none"
                 THEN cause \subseteq Guilty /\ (Guilty # {} => cause # {})
                 ELSE /\ Cleared(next) \cap Guilty = {}
                      /\ cause = IF next \in {"socket", "access"}
                                   THEN {"ncat"} \cap Guilty ELSE {}
    <3>1. /\ blamed # {} /\ blamed \subseteq Guilty /\ Cleared(probe) \cap Guilty = {}
          /\ call[c].cause = IF probe \in {"socket", "access"} THEN {"ncat"} \cap Guilty
                                                               ELSE {}
      BY <1>1, <2>1 DEF Diag, Looking
    <3>2. probe = "ncat" => /\ blamed = {"ncat"}
                            /\ Cleared("socket") = Cleared(probe)
      BY DEF Blamed, Cleared
    <3> HIDE DEF probe, blamed
    <3>3. CASE probe = "ncat"
      BY <3>1, <3>2, <3>3
    <3>4. CASE probe # "ncat"
      BY <3>1, <3>4
    <3>5. QED BY <3>3, <3>4
  <2> HIDE DEF cause, next
  <2>2. QED BY <1>1, <1>3, <2>1, DiagProbed
<1>4. QED BY <1>2, <1>3 DEF ProbeFails

LEMMA DiagProbe ==
    ASSUME CallsInv, \A d \in Calls : Diag(d), NEW c \in Calls, Probe(c)
    PROVE  \A d \in Calls : Diag(d)'
<1>1. /\ call[c].pc = "diagnose" /\ call' = call /\ ConnBegin(c, call[c].probe)
      /\ call[c].probe \in Commands
  BY CallRecords DEF Probe, callVars, CallType, NextProbe, Commands
<1>2. /\ conn[c].pc = "none" /\ conn'[c].pc = "address"
      /\ conn'[c].command = call[c].probe
  BY <1>1, ConnBegun DEF CallsInv
<1>3. Goes(c, call[c]) /\ Guilty' = Guilty
  BY <1>1, GuiltySame DEF Goes, CallsInv, CallTypes
<1>4. Diag(c)'
  <2>1. Passed("address", call[c].probe) = {}
    BY DEF Passed
  <2>2. QED BY <1>1, <1>2, <1>3, <2>1 DEF Diag, Looking, Open
<1>5. QED BY <1>1, <1>3, <1>4, DiagCall

LEMMA DiagChange ==
    ASSUME CallsInv, Changing, NEW c \in Calls
    PROVE  Diag(c)'
<1>1. call[c] \in CallType
  BY CallRecords
<1>2. CASE call[c].pc \in {"diagnose", "ask"}
  <2> DEFINE t == [call[c] EXCEPT !.changed = call[c].changed + 1]
  <2>1. call'[c] = t
    BY <1>2 DEF Changing
  <2>2. t.changed = call[c].changed + 1 /\ call[c].changed \in Nat
    BY <1>1 DEF CallType
  <2> HIDE DEF t
  <2>3. QED BY <2>1, <2>2, DiagElsewhere
<1>3. CASE call[c].pc \notin {"diagnose", "ask"}
  <2>1. call'[c] = call[c] \/ call'[c] = [call[c] EXCEPT !.changed = call[c].changed + 1]
    BY DEF Changing
  <2>2. call'[c].pc = call[c].pc
    BY <1>1, <2>1 DEF CallType
  <2>3. QED BY <1>3, <2>2, DiagElsewhere
<1>4. QED BY <1>2, <1>3

LEMMA DiagNext ==
    ASSUME CallsInv, CallsInv', \A c \in Calls : Diag(c), [Next]_vars
    PROVE  \A c \in Calls : Diag(c)'
<1>1. CASE op' = "plugin"
  <2>1. ASSUME NEW c \in Calls
        PROVE  call'[c].pc \notin {"diagnose", "ask"}
    BY <1>1 DEF CallsInv, Kept, InPlace, PluginPCs
  <2>2. QED BY <2>1, DiagElsewhere
<1>2. ASSUME NEW c \in Calls, Plugin(c) \/ Begin(c)
      PROVE  op' = "plugin"
  BY <1>2 DEF Plugin, Begin, Forward, ForwardFails, Dispatch, Local, PostEnds, RefreshBegin,
     RefreshEnds, Return, callVars, surroundings, CallsInv, Kept, InPlace, PluginPCs
<1>3. CASE Move \/ Plug \/ Change
  BY <1>3, DiagChange DEF Move, Plug, Change
<1>4. CASE UNCHANGED vars
  <2>1. call' = call /\ conn' = conn /\ mode' = mode /\ Guilty' = Guilty
    BY <1>4 DEF vars, connVars, callVars, Guilty
  <2>2. QED BY <2>1, DiagStays
<1>5. QED
  BY <1>1, <1>2, <1>3, <1>4, DiagBegins, DiagConnection, DiagProbe, DiagProbeOk,
     DiagProbeFails DEF Next, Step, Prepare

(* However many callers connect meanwhile, whatever breaks and whoever     *)
(* changes the host key: determine_error_cause names only what is broken,  *)
(* and something if anything is, unless something changed as it looked.    *)
THEOREM DiagnosesRight == Spec => []Diagnosed
<1> DEFINE Inv == CallsInv /\ \A c \in Calls : Diag(c)
<1>1. Init => Inv
  BY CallsInitial DEF Init, Idle, Diag
<1>2. Inv /\ [Next]_vars => Inv'
  BY DiagNext, EveryStepFine DEF Fine
<1>3. Inv => Diagnosed
  BY DEF Diag, Diagnosed
<1> HIDE DEF Inv
<1>4. QED BY <1>1, <1>2, <1>3, PTL DEF Spec

=============================================================================
