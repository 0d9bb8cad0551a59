------------------------- MODULE MonitoredVMProofs -------------------------
(***************************************************************************)
(* Proofs about MonitoredVM, for any number of threads that overlap, any   *)
(* number of plugin calls, any containers and any faults.                  *)
(***************************************************************************)
EXTENDS MonitoredVM, TLAPS

(***************************************************************************)
(* The inductive invariant                                                 *)
(***************************************************************************)
(* What may be left of an update or of a wipe, while there is something.   *)
InfoVersionPs == <<"docker_info", "docker_version", "docker_ps">>
VersionPs == <<"docker_version", "docker_ps">>
PsInfoVersion == <<"docker_ps", "docker_info", "docker_version">>
InfoVersion == <<"docker_info", "docker_version">>

UpdateLefts == {InfoVersionPs, VersionPs, <<"docker_ps">>, <<"docker_info">>}
WipeLefts == {PsInfoVersion, InfoVersion, <<"docker_version">>}
Lefts == UpdateLefts \cup WipeLefts \cup {<<>>}

ThreadType ==
    [pc : PCs, why : {"none", "begin", "loop", "event", "ended", "raised", "unexpected"},
     left : Lefts, value : Versions \cup {"daemon", Absent}, snap : OtherConfig,
     stream : {"none", "open", "closed"}, events : SUBSET {"container", "image"},
     message : BOOLEAN]
CallType ==
    [pc : {"idle", "check", "fetch", "get", "set", "wipe"}, op : Operations \cup {"none"},
     left : Lefts, value : Versions \cup {Absent}, snap : OtherConfig]

Resting == {"idle", "uuid", "head", "failed", "sleep", "final"}

(* Why a thread is where it is, and what it has there. *)
Sound(t) ==
    /\ t \in ThreadType
    /\ t.stream # "none" <=> t.why = "event"
    /\ t.pc \in Resting => t.why = "none"
    /\ t.pc \in {"fetch", "get", "set"} => t.why \in {"loop", "event"} /\ t.left \in UpdateLefts
    /\ t.pc \in {"get", "set"} =>
         t.value \in (IF Head(t.left) = "docker_ps" THEN Versions ELSE {"daemon"})
    /\ t.pc \in {"clear", "subscribe"} => t.why = "loop"
    /\ t.pc = "listen" => t.why = "event"
    /\ t.pc = "wipe" =>
         t.why \in {"begin", "ended", "raised", "unexpected"} /\ t.left \in WipeLefts

SoundCall(t) ==
    /\ t \in CallType
    /\ t.pc = "check" => t.op \in {"mark", "pause"}
    /\ t.pc = "fetch" => t.op = "pause"
    /\ t.pc \in {"get", "set"} => t.op \in {"register", "deregister", "update", "pause"}
    /\ t.pc = "wipe" => t.left \in WipeLefts
    /\ t.pc \in {"get", "set"} /\ t.op = "pause" => t.value \in Versions

(* A thread that handles a container event, and was not told of another,   *)
(* has the answer Docker would give now.                                   *)
Fresh(t) ==
    /\ t.pc \in {"get", "set"} /\ t.why = "event" /\ Head(t.left) = "docker_ps"
    /\ t.stream = "open" /\ "container" \notin t.events
    => t.value = containers

Shared ==
    /\ other_config \in OtherConfig
    /\ running \in BOOLEAN /\ dockerUp \in BOOLEAN /\ (dockerUp => running)
    /\ containers \in Versions
    /\ current \in Instances \cup {NoInstance}
    /\ leaked \in BOOLEAN /\ stop \in [Instances -> BOOLEAN]
    /\ th \in [Instances -> ThreadType] /\ cl \in [Clients -> CallType]

Requests == \A i \in Instances : stop[i] => th[i].pc # "idle" /\ i # current

VMInv ==
    /\ Shared /\ Requests
    /\ \A i \in Instances : Sound(th[i]) /\ Fresh(th[i])
    /\ \A c \in Clients : SoundCall(cl[c])

(* A thread that has an error message is one that tries and fails.         *)
Quiet(t) ==
    /\ t.why # "unexpected"
    /\ t.message => /\ t.pc \in {"head", "fetch", "get", "set", "clear", "failed", "sleep",
                                 "final"}
                    /\ t.why \in {"none", "loop"}

QuietInv == ~leaked /\ \A i \in Instances : Quiet(th[i])

-----------------------------------------------------------------------------
(***************************************************************************)
(* Keys that are left, and records                                         *)
(***************************************************************************)
LEMMA TailsOfLefts ==
    /\ Tail(InfoVersionPs) = VersionPs /\ Tail(VersionPs) = <<"docker_ps">>
    /\ Tail(<<"docker_ps">>) = <<>> /\ Tail(<<"docker_info">>) = <<>>
    /\ Tail(PsInfoVersion) = InfoVersion /\ Tail(InfoVersion) = <<"docker_version">>
    /\ Tail(<<"docker_version">>) = <<>>
<1>1. Tail(InfoVersionPs) = VersionPs
  BY DEF InfoVersionPs, VersionPs
<1>2. Tail(VersionPs) = <<"docker_ps">>
  BY DEF VersionPs
<1>3. Tail(PsInfoVersion) = InfoVersion
  BY DEF PsInfoVersion, InfoVersion
<1>4. Tail(InfoVersion) = <<"docker_version">>
  BY DEF InfoVersion
<1>5. Tail(<<"docker_ps">>) = <<>>
  OBVIOUS
<1>6. Tail(<<"docker_info">>) = <<>>
  OBVIOUS
<1>7. Tail(<<"docker_version">>) = <<>>
  OBVIOUS
<1>8. QED BY <1>1, <1>2, <1>3, <1>4, <1>5, <1>6, <1>7

LEMMA HeadsOfLefts ==
    /\ Head(InfoVersionPs) = "docker_info" /\ Head(VersionPs) = "docker_version"
    /\ Head(<<"docker_ps">>) = "docker_ps" /\ Head(<<"docker_info">>) = "docker_info"
    /\ Head(PsInfoVersion) = "docker_ps" /\ Head(InfoVersion) = "docker_info"
    /\ Head(<<"docker_version">>) = "docker_version"
BY DEF InfoVersionPs, VersionPs, PsInfoVersion, InfoVersion

LEMMA NotEmpty ==
    /\ VersionPs # <<>> /\ InfoVersion # <<>> /\ <<"docker_ps">> # <<>>
    /\ <<"docker_version">> # <<>>
BY DEF VersionPs, InfoVersion

LEMMA UpdateLeft ==
    ASSUME NEW l \in UpdateLefts
    PROVE  /\ Head(l) \in DockerKeys
           /\ Tail(l) = <<>> \/ Tail(l) \in UpdateLefts
           /\ Head(l) = "docker_ps" => Tail(l) = <<>>
BY TailsOfLefts, HeadsOfLefts DEF UpdateLefts, DockerKeys

LEMMA WipeLeft ==
    ASSUME NEW l \in WipeLefts
    PROVE  /\ Head(l) \in DockerKeys
           /\ Tail(l) = <<>> \/ Tail(l) \in WipeLefts
           /\ Len(l) > 1 => Tail(l) \in WipeLefts
<1>1. Len(<<"docker_version">>) = 1
  OBVIOUS
<1>2. l # <<"docker_version">> => Tail(l) \in WipeLefts
  BY TailsOfLefts DEF WipeLefts
<1>3. Tail(l) = <<>> \/ Tail(l) \in WipeLefts
  BY <1>2, TailsOfLefts
<1>4. Len(l) > 1 => l # <<"docker_version">>
  BY <1>1
<1>5. Head(l) \in DockerKeys
  BY HeadsOfLefts DEF WipeLefts, DockerKeys
<1>6. QED BY <1>2, <1>3, <1>4, <1>5

LEMMA Orders ==
    /\ UpdateOrder = InfoVersionPs /\ UpdateOrder \in UpdateLefts
    /\ WipeOrder = PsInfoVersion /\ WipeOrder \in WipeLefts
BY DEF UpdateOrder, InfoVersionPs, UpdateLefts, WipeOrder, PsInfoVersion, WipeLefts

LEMMA EmptyConfig ==
    /\ Empty \in OtherConfig
    /\ \A r \in {"absent", "True"} : [Empty EXCEPT !.registration = r] \in OtherConfig
BY DEF Empty, OtherConfig

LEMMA AtRest ==
    /\ Sound(Idle) /\ Fresh(Idle) /\ Quiet(Idle) /\ Idle.pc = "idle" /\ Idle \in ThreadType
    /\ SoundCall(NoCall) /\ NoCall.pc = "idle" /\ NoCall \in CallType
BY EmptyConfig
   DEF Idle, NoCall, Sound, Fresh, Quiet, SoundCall, ThreadType, CallType, PCs, Lefts, Resting

(* A key of the VM record gets the value a thread has for it, or none.     *)
LEMMA KeyWritten ==
    ASSUME NEW s \in OtherConfig, NEW k \in DockerKeys,
           NEW v, v \in (IF k = "docker_ps" THEN Versions ELSE {"daemon"}) \/ v = Absent
    PROVE  [s EXCEPT ![k] = v] \in OtherConfig
BY DEF OtherConfig, DockerKeys

-----------------------------------------------------------------------------
(***************************************************************************)
(* Where a thread goes                                                     *)
(***************************************************************************)
LEMMA Records ==
    ASSUME NEW i \in Instances, Sound(th[i])
    PROVE  /\ \A pc \in PCs : LET t == To(i, pc) IN
                /\ t \in ThreadType /\ t.pc = pc /\ t.why = th[i].why
                /\ t.left = th[i].left /\ t.value = th[i].value /\ t.snap = th[i].snap
                /\ t.stream = th[i].stream /\ t.events = th[i].events
                /\ t.message = th[i].message
           /\ \A pc \in PCs : LET t == Forget(To(i, pc)) IN
                /\ t \in ThreadType /\ t.pc = pc /\ t.why = th[i].why
                /\ t.left = <<>> /\ t.value = Absent /\ t.snap = Empty
                /\ t.stream = th[i].stream /\ t.events = th[i].events
                /\ t.message = th[i].message
           /\ \A pc \in PCs : LET t == Done(i, pc) IN
                /\ t \in ThreadType /\ t.pc = pc /\ t.why = "none"
                /\ t.stream = th[i].stream /\ t.message = th[i].message
           /\ \A why \in {"begin", "ended", "raised", "unexpected"} :
                LET t == ToWipe(i, why) IN
                /\ t \in ThreadType /\ t.pc = "wipe" /\ t.why = why
                /\ t.left = WipeOrder /\ t.stream = "none" /\ t.message = th[i].message
<1>1. /\ th[i] \in ThreadType /\ <<>> \in Lefts /\ WipeOrder \in Lefts /\ Empty \in OtherConfig
      /\ {} \in SUBSET {"container", "image"}
  BY Orders, EmptyConfig DEF Sound, Lefts
<1>2. \A pc \in PCs : LET t == To(i, pc) IN
         /\ t \in ThreadType /\ t.pc = pc /\ t.why = th[i].why
         /\ t.left = th[i].left /\ t.value = th[i].value /\ t.snap = th[i].snap
         /\ t.stream = th[i].stream /\ t.events = th[i].events
         /\ t.message = th[i].message
  BY <1>1 DEF To, ThreadType
<1>3. \A pc \in PCs : LET t == Forget(To(i, pc)) IN
         /\ t \in ThreadType /\ t.pc = pc /\ t.why = th[i].why
         /\ t.left = <<>> /\ t.value = Absent /\ t.snap = Empty
         /\ t.stream = th[i].stream /\ t.events = th[i].events
         /\ t.message = th[i].message
  BY <1>1 DEF Forget, To, ThreadType
<1>4. \A pc \in PCs : LET t == Done(i, pc) IN
         /\ t \in ThreadType /\ t.pc = pc /\ t.why = "none"
         /\ t.stream = th[i].stream /\ t.message = th[i].message
  BY <1>1 DEF Done, Forget, To, ThreadType
<1>5. \A why \in {"begin", "ended", "raised", "unexpected"} :
         LET t == ToWipe(i, why) IN
         /\ t \in ThreadType /\ t.pc = "wipe" /\ t.why = why
         /\ t.left = WipeOrder /\ t.stream = "none" /\ t.message = th[i].message
  BY <1>1 DEF ToWipe, ThreadType, PCs
<1>6. QED BY <1>2, <1>3, <1>4, <1>5

(* XAPI answers, and nothing happens that _monitoring_loop does not expect.*)
Calm == Faults \subseteq {"docker"}

(* A thread goes on soundly, and is quiet if it was. *)
Moves(i, t) ==
    /\ Goes(i, t) /\ Sound(t) /\ Fresh(t)
    /\ t.pc # "idle" /\ th[i].pc # "idle"
    /\ Calm /\ Quiet(th[i]) => Quiet(t)

LEMMA GoesToWipe ==
    ASSUME NEW i \in Instances, Sound(th[i]), th[i].pc # "idle",
           NEW why \in {"begin", "ended", "raised", "unexpected"}, Goes(i, ToWipe(i, why)),
           Calm /\ Quiet(th[i]) => ~th[i].message /\ why # "unexpected"
    PROVE  Moves(i, ToWipe(i, why))
<1> DEFINE t == ToWipe(i, why)
<1>1. /\ t \in ThreadType /\ t.pc = "wipe" /\ t.why = why
      /\ t.left \in WipeLefts /\ t.stream = "none" /\ t.message = th[i].message
  BY Records, Orders
<1>2. Goes(i, t)
  OBVIOUS
<1> HIDE DEF t
<1>3. Sound(t) /\ Fresh(t)
  BY <1>1 DEF Sound, Fresh, Resting
<1>4. Calm /\ Quiet(th[i]) => Quiet(t)
  BY <1>1 DEF Quiet
<1>5. Moves(i, t)
  BY <1>1, <1>2, <1>3, <1>4 DEF Moves
<1>6. QED BY <1>5 DEF t

LEMMA GoesDone ==
    ASSUME NEW i \in Instances, Sound(th[i]), NEW pc \in Resting \ {"idle", "uuid"},
           th[i].why # "event", th[i].pc # "idle", Goes(i, Done(i, pc)),
           Calm /\ Quiet(th[i]) => th[i].why # "unexpected"
    PROVE  Moves(i, Done(i, pc))
<1> DEFINE t == Done(i, pc)
<1>1. /\ t \in ThreadType /\ t.pc = pc /\ t.why = "none"
      /\ t.stream = th[i].stream /\ t.message = th[i].message
  BY Records DEF Resting, PCs
<1>2. Goes(i, t)
  OBVIOUS
<1> HIDE DEF t
<1>3. Sound(t) /\ Fresh(t)
  BY <1>1 DEF Sound, Fresh, Resting
<1>4. Calm /\ Quiet(th[i]) => Quiet(t)
  BY <1>1 DEF Quiet, Resting
<1>5. Moves(i, t)
  BY <1>1, <1>2, <1>3, <1>4 DEF Moves, Resting
<1>6. QED BY <1>5 DEF t

(* Only the place changes. *)
LEMMA GoesTo ==
    ASSUME NEW i \in Instances, Sound(th[i]), NEW pc \in PCs \ {"idle"}, th[i].pc # "idle",
           Goes(i, To(i, pc)), th[i].pc \in Resting, pc \in Resting \ {"uuid"}
    PROVE  Moves(i, To(i, pc))
<1> DEFINE t == To(i, pc)
<1>1. /\ t \in ThreadType /\ t.pc = pc /\ t.why = th[i].why
      /\ t.stream = th[i].stream /\ t.message = th[i].message
  BY Records
<1>2. Goes(i, t)
  OBVIOUS
<1> HIDE DEF t
<1>3. Sound(t) /\ Fresh(t)
  BY <1>1 DEF Sound, Fresh, Resting
<1>4. Calm /\ Quiet(th[i]) => Quiet(t)
  BY <1>1 DEF Quiet, Resting
<1>5. Moves(i, t)
  BY <1>1, <1>2, <1>3, <1>4 DEF Moves, Resting
<1>6. QED BY <1>5 DEF t

(* The next key of an update is fetched, or nothing is left. *)
LEMMA GoesToUpdate ==
    ASSUME NEW i \in Instances, Sound(th[i]), th[i].pc # "idle",
           NEW why \in {"loop", "event"}, NEW keys \in UpdateLefts,
           NEW events \in SUBSET {"container", "image"}, NEW t, Goes(i, t),
           \/ t = ToUpdate(i, why, keys)
           \/ t = [ToUpdate(i, why, keys) EXCEPT !.events = events],
           why = "event" <=> th[i].why = "event",
           th[i].pc \in {"head", "listen"}
    PROVE  Moves(i, t)
<1>1. /\ t \in ThreadType /\ t.pc = "fetch" /\ t.why = why /\ t.left = keys
      /\ t.stream = th[i].stream /\ t.message = th[i].message
  <2>1. th[i] \in ThreadType /\ keys \in Lefts
    BY DEF Sound, Lefts
  <2>2. QED BY <2>1 DEF ToUpdate, ThreadType, PCs
<1>2. Sound(t) /\ Fresh(t)
  BY <1>1 DEF Sound, Fresh, Resting
<1>3. Calm /\ Quiet(th[i]) => Quiet(t)
  BY <1>1 DEF Quiet, Sound
<1>4. QED BY <1>1, <1>2, <1>3 DEF Moves

-----------------------------------------------------------------------------
(***************************************************************************)
(* The steps of a thread, when nothing fails                               *)
(***************************************************************************)
LEMMA LoopMoves ==
    ASSUME NEW i \in Instances, Sound(th[i]), Begin(i) \/ LoopHead(i) \/ Sleep(i)
    PROVE  \E t \in ThreadType : Moves(i, t)
<1>1. CASE Begin(i)
  <2>1. th[i].pc = "uuid" /\ Goes(i, ToWipe(i, "begin"))
    BY <1>1 DEF Begin
  <2>2. Moves(i, ToWipe(i, "begin"))
    BY <2>1, GoesToWipe DEF Quiet
  <2>3. QED BY <2>2 DEF Moves, Sound
<1>2. CASE LoopHead(i)
  <2>1. CASE stop[i]
    <3>1. Moves(i, To(i, "final"))
      BY <1>2, <2>1, GoesTo DEF LoopHead, Resting, PCs
    <3>2. QED BY <3>1 DEF Moves, Sound
  <2>2. CASE ~stop[i]
    <3>1. th[i].pc = "head" /\ Goes(i, ToUpdate(i, "loop", UpdateOrder))
      BY <1>2, <2>2 DEF LoopHead
    <3>2. th[i].why # "event" /\ UpdateOrder \in UpdateLefts
      BY <3>1, Orders DEF Sound, Resting
    <3>3. Moves(i, ToUpdate(i, "loop", UpdateOrder))
      BY <3>1, <3>2, GoesToUpdate
    <3>4. QED BY <3>3 DEF Moves, Sound
  <2>3. QED BY <2>1, <2>2
<1>3. CASE Sleep(i)
  <2>1. Moves(i, To(i, "head"))
    BY <1>3, GoesTo DEF Sleep, Resting, PCs
  <2>2. QED BY <2>1 DEF Moves, Sound
<1>4. QED BY <1>1, <1>2, <1>3

(* What was fetched is what Docker answers now.                            *)
LEMMA FetchMoves ==
    ASSUME Shared, NEW i \in Instances, Sound(th[i]), Fetch(i)
    PROVE  \E t \in ThreadType : Moves(i, t)
<1> DEFINE v == Content(Head(th[i].left))
           t == [To(i, "get") EXCEPT !.value = v]
<1>1. /\ th[i].pc = "fetch" /\ Goes(i, t)
      /\ th[i].left \in UpdateLefts /\ th[i].why \in {"loop", "event"}
  BY DEF Fetch, Sound
<1>2. /\ v \in (IF Head(th[i].left) = "docker_ps" THEN Versions ELSE {"daemon"})
      /\ Head(th[i].left) = "docker_ps" => v = containers
  BY DEF Content, Shared
<1> HIDE DEF v
<1>3. /\ t \in ThreadType /\ t.pc = "get" /\ t.why = th[i].why /\ t.left = th[i].left
      /\ t.value = v /\ t.stream = th[i].stream /\ t.message = th[i].message
  <2>1. LET u == To(i, "get") IN
          /\ u \in ThreadType /\ u.pc = "get" /\ u.why = th[i].why /\ u.left = th[i].left
          /\ u.stream = th[i].stream /\ u.message = th[i].message
    BY Records DEF PCs
  <2>2. QED BY <1>2, <2>1 DEF ThreadType
<1> HIDE DEF t
<1>4. Sound(t)
  BY <1>1, <1>2, <1>3 DEF Sound, Resting
<1>5. Fresh(t)
  BY <1>2, <1>3 DEF Fresh
<1>6. Calm /\ Quiet(th[i]) => Quiet(t)
  BY <1>1, <1>3 DEF Quiet
<1>7. QED BY <1>1, <1>3, <1>4, <1>5, <1>6 DEF Moves

LEMMA GetMoves ==
    ASSUME Shared, NEW i \in Instances, Sound(th[i]), Fresh(th[i]), GetOtherConfig(i)
    PROVE  \E t \in ThreadType : Moves(i, t)
<1> DEFINE t == [To(i, "set") EXCEPT !.snap = other_config]
<1>1. th[i].pc = "get" /\ Goes(i, t)
  BY DEF GetOtherConfig
<1>2. /\ t \in ThreadType /\ t.pc = "set" /\ t.why = th[i].why /\ t.left = th[i].left
      /\ t.value = th[i].value /\ t.stream = th[i].stream /\ t.events = th[i].events
      /\ t.message = th[i].message
  <2>1. LET u == To(i, "set") IN
          /\ u \in ThreadType /\ u.pc = "set" /\ u.why = th[i].why /\ u.left = th[i].left
          /\ u.value = th[i].value /\ u.stream = th[i].stream /\ u.events = th[i].events
          /\ u.message = th[i].message
    BY Records DEF PCs
  <2>2. QED BY <2>1 DEF ThreadType, Shared
<1> HIDE DEF t
<1>3. Sound(t)
  BY <1>1, <1>2 DEF Sound, Resting
<1>4. Fresh(t)
  BY <1>1, <1>2 DEF Fresh
<1>5. Calm /\ Quiet(th[i]) => Quiet(t)
  BY <1>1, <1>2 DEF Quiet
<1>6. QED BY <1>1, <1>2, <1>3, <1>4, <1>5 DEF Moves

(* The map that is written has the types of the map that was read.         *)
LEMMA WrittenTyped ==
    ASSUME NEW i \in Instances, Sound(th[i]), th[i].pc = "set"
    PROVE  Written(i) \in OtherConfig
<1>1. /\ th[i].snap \in OtherConfig /\ Head(th[i].left) \in DockerKeys
      /\ th[i].value \in (IF Head(th[i].left) = "docker_ps" THEN Versions ELSE {"daemon"})
  BY UpdateLeft DEF Sound, ThreadType
<1>2. QED BY <1>1, KeyWritten DEF Written

LEMMA SetMoves ==
    ASSUME NEW i \in Instances, Sound(th[i]), SetOtherConfig(i)
    PROVE  \E t \in ThreadType : Moves(i, t)
<1>1. /\ th[i].pc = "set" /\ th[i].why \in {"loop", "event"} /\ th[i].left \in UpdateLefts
      /\ Goes(i, AfterSet(i))
  BY DEF SetOtherConfig, Sound
<1>2. CASE Tail(th[i].left) # <<>>
  <2> DEFINE t == [Forget(To(i, "fetch")) EXCEPT !.left = Tail(th[i].left)]
  <2>1. Goes(i, t)
    BY <1>1, <1>2 DEF AfterSet
  <2>2. /\ t \in ThreadType /\ t.pc = "fetch" /\ t.why = th[i].why
        /\ t.left = Tail(th[i].left) /\ t.left \in UpdateLefts
        /\ t.stream = th[i].stream /\ t.message = th[i].message
    <3>1. LET u == Forget(To(i, "fetch")) IN
            /\ u \in ThreadType /\ u.pc = "fetch" /\ u.why = th[i].why
            /\ u.stream = th[i].stream /\ u.message = th[i].message
      BY Records DEF PCs
    <3>2. Tail(th[i].left) \in UpdateLefts /\ Tail(th[i].left) \in Lefts
      BY <1>1, <1>2, UpdateLeft DEF Lefts
    <3>3. QED BY <3>1, <3>2 DEF ThreadType
  <2> HIDE DEF t
  <2>3. Sound(t) /\ Fresh(t)
    BY <1>1, <2>2 DEF Sound, Fresh, Resting
  <2>4. Calm /\ Quiet(th[i]) => Quiet(t)
    BY <1>1, <2>2 DEF Quiet
  <2>5. QED BY <1>1, <2>1, <2>2, <2>3, <2>4 DEF Moves
<1>3. CASE Tail(th[i].left) = <<>>
  <2>1. PICK pc \in {"listen", "clear"} :
          /\ Goes(i, Forget(To(i, pc)))
          /\ pc = "listen" <=> th[i].why = "event"
    BY <1>1, <1>3 DEF AfterSet
  <2> DEFINE t == Forget(To(i, pc))
  <2>2. /\ t \in ThreadType /\ t.pc = pc /\ t.why = th[i].why
        /\ t.stream = th[i].stream /\ t.message = th[i].message
    BY Records DEF PCs
  <2>3. Goes(i, t)
    BY <2>1
  <2> HIDE DEF t
  <2>4. Sound(t) /\ Fresh(t)
    BY <1>1, <2>1, <2>2 DEF Sound, Fresh, Resting
  <2>5. Calm /\ Quiet(th[i]) => Quiet(t)
    BY <1>1, <2>1, <2>2 DEF Quiet
  <2>6. QED BY <1>1, <2>2, <2>3, <2>4, <2>5 DEF Moves
<1>4. QED BY <1>2, <1>3

(* No thread that listens has an error message.                            *)
LEMMA ClearMoves ==
    ASSUME NEW i \in Instances, Sound(th[i]), ClearMessage(i)
    PROVE  \E t \in ThreadType : Moves(i, t)
<1> DEFINE t == [To(i, "subscribe") EXCEPT !.message = FALSE]
<1>1. th[i].pc = "clear" /\ Goes(i, t)
  BY DEF ClearMessage
<1>2. /\ t \in ThreadType /\ t.pc = "subscribe" /\ t.why = th[i].why
      /\ t.stream = th[i].stream /\ ~t.message
  <2>1. LET u == To(i, "subscribe") IN
          /\ u \in ThreadType /\ u.pc = "subscribe" /\ u.why = th[i].why
          /\ u.stream = th[i].stream
    BY Records DEF PCs
  <2>2. QED BY <2>1 DEF ThreadType
<1> HIDE DEF t
<1>3. Sound(t) /\ Fresh(t)
  BY <1>1, <1>2 DEF Sound, Fresh, Resting
<1>4. Calm /\ Quiet(th[i]) => Quiet(t)
  BY <1>2 DEF Quiet
<1>5. QED BY <1>1, <1>2, <1>3, <1>4 DEF Moves

LEMMA SubscribeMoves ==
    ASSUME NEW i \in Instances, Sound(th[i]), Subscribe(i)
    PROVE  \E t \in ThreadType : Moves(i, t)
<1> DEFINE t == [To(i, "listen") EXCEPT !.stream = "open", !.why = "event"]
<1>1. th[i].pc = "subscribe" /\ Goes(i, t)
  BY DEF Subscribe
<1>2. /\ t \in ThreadType /\ t.pc = "listen" /\ t.why = "event" /\ t.stream = "open"
      /\ t.message = th[i].message
  <2>1. LET u == To(i, "listen") IN
          u \in ThreadType /\ u.pc = "listen" /\ u.message = th[i].message
    BY Records DEF PCs
  <2>2. QED BY <2>1 DEF ThreadType
<1> HIDE DEF t
<1>3. Sound(t) /\ Fresh(t)
  BY <1>2 DEF Sound, Fresh, Resting
<1>4. Calm /\ Quiet(th[i]) => Quiet(t)
  BY <1>1, <1>2 DEF Quiet
<1>5. QED BY <1>1, <1>2, <1>3, <1>4 DEF Moves

LEMMA ListenMoves ==
    ASSUME NEW i \in Instances, Sound(th[i]), HandleEvent(i) \/ ListenEnds(i)
    PROVE  \E t \in ThreadType : Moves(i, t)
<1>1. CASE HandleEvent(i)
  <2>1. th[i].pc = "listen" /\ th[i].why = "event" /\ th[i] \in ThreadType
    BY <1>1 DEF HandleEvent, Sound
  <2>2. PICK e \in th[i].events :
          LET key == IF e = "container" THEN "docker_ps" ELSE "docker_info"
          IN  Goes(i, [ToUpdate(i, "event", <<key>>)
                         EXCEPT !.events = ToUpdate(i, "event", <<key>>).events \ {e}])
    BY <1>1 DEF HandleEvent
  <2>3. PICK key \in {"docker_ps", "docker_info"} :
          Goes(i, [ToUpdate(i, "event", <<key>>)
                     EXCEPT !.events = ToUpdate(i, "event", <<key>>).events \ {e}])
    BY <2>2
  <2>4. ToUpdate(i, "event", <<key>>).events = th[i].events
    BY <2>1 DEF ToUpdate, ThreadType
  <2> DEFINE events == th[i].events \ {e}
             t == [ToUpdate(i, "event", <<key>>) EXCEPT !.events = events]
  <2>5. Goes(i, t) /\ events \in SUBSET {"container", "image"} /\ <<key>> \in UpdateLefts
    BY <2>1, <2>3, <2>4 DEF ThreadType, UpdateLefts
  <2>6. Moves(i, t)
    BY <2>1, <2>5, GoesToUpdate
  <2>7. QED BY <2>6 DEF Moves, Sound
<1>2. CASE ListenEnds(i)
  <2>1. th[i].pc = "listen" /\ Goes(i, ToWipe(i, "ended"))
    BY <1>2 DEF ListenEnds
  <2>2. Moves(i, ToWipe(i, "ended"))
    BY <2>1, GoesToWipe DEF Quiet
  <2>3. QED BY <2>2 DEF Moves, Sound
<1>3. QED BY <1>1, <1>2

LEMMA SendMoves ==
    ASSUME NEW i \in Instances, Sound(th[i]), SendMessage(i)
    PROVE  \E t \in ThreadType : Moves(i, t)
<1>1. LET u == To(i, "sleep") IN
        /\ u \in ThreadType /\ u.pc = "sleep" /\ u.why = th[i].why /\ u.stream = th[i].stream
        /\ u.message = th[i].message
  BY Records DEF PCs
<1>2. PICK m \in BOOLEAN : Goes(i, [To(i, "sleep") EXCEPT !.message = m])
  <2>1. PICK late \in BOOLEAN :
          Goes(i, [To(i, "sleep") EXCEPT !.message = (To(i, "sleep").message \/ late)])
    BY DEF SendMessage
  <2>2. (To(i, "sleep").message \/ late) \in BOOLEAN
    OBVIOUS
  <2>3. QED BY <2>1, <2>2, Zenon
<1> DEFINE t == [To(i, "sleep") EXCEPT !.message = m]
<1>3. t \in ThreadType /\ t.pc = "sleep" /\ t.why = th[i].why /\ t.stream = th[i].stream
  BY <1>1 DEF ThreadType
<1>4. th[i].pc = "failed" /\ Goes(i, t)
  BY <1>2 DEF SendMessage
<1> HIDE DEF t
<1>5. Sound(t) /\ Fresh(t)
  BY <1>3, <1>4 DEF Sound, Fresh, Resting
<1>6. Calm /\ Quiet(th[i]) => Quiet(t)
  BY <1>3, <1>4 DEF Quiet, Sound, Resting
<1>7. QED BY <1>3, <1>4, <1>5, <1>6 DEF Moves

(***************************************************************************)
(* The end of a thread                                                     *)
(***************************************************************************)
Ended(i) ==
    /\ th' = [th EXCEPT ![i] = Idle] /\ stop' = [stop EXCEPT ![i] = FALSE]
    /\ th[i].pc # "idle" /\ leaked' \in BOOLEAN
    /\ Calm /\ Quiet(th[i]) => leaked' = leaked

LEMMA EndsEnded ==
    ASSUME NEW i \in Instances, Ends(i), th[i].pc # "idle", ~(Calm /\ Quiet(th[i]))
    PROVE  Ended(i)
<1>1. leaked' = (leaked \/ th[i].message)
  BY DEF Ends
<1>2. leaked' \in BOOLEAN
  BY <1>1, Zenon
<1>3. QED BY <1>2 DEF Ends, Ended

LEMMA RemoveMoves ==
    ASSUME NEW i \in Instances, Sound(th[i]), RemoveKey(i)
    PROVE  Ended(i) \/ \E t \in ThreadType : Moves(i, t)
<1> DEFINE rest == Tail(th[i].left)
<1>1. th[i].pc = "wipe" /\ th[i].left \in WipeLefts /\ th[i] \in ThreadType
  BY DEF RemoveKey, Sound
<1>2. CASE rest # <<>> /\ Goes(i, [th[i] EXCEPT !.left = rest])
  <2> DEFINE t == [th[i] EXCEPT !.left = rest]
  <2>1. rest \in WipeLefts /\ rest \in Lefts
    BY <1>1, <1>2, WipeLeft DEF Lefts
  <2> HIDE DEF rest
  <2>2. /\ t \in ThreadType /\ t.pc = "wipe" /\ t.why = th[i].why /\ t.left \in WipeLefts
        /\ t.stream = th[i].stream /\ t.message = th[i].message
    BY <1>1, <2>1 DEF ThreadType
  <2>3. Goes(i, t)
    BY <1>2
  <2> HIDE DEF t
  <2>4. Sound(t) /\ Fresh(t)
    BY <1>1, <2>2 DEF Sound, Fresh, Resting
  <2>5. Calm /\ Quiet(th[i]) => Quiet(t)
    BY <1>1, <2>2 DEF Quiet
  <2>6. QED BY <1>1, <2>2, <2>3, <2>4, <2>5 DEF Moves
<1>3. ASSUME NEW pc \in {"head", "sleep", "failed"}, Goes(i, Done(i, pc))
      PROVE  \E t \in ThreadType : Moves(i, t)
  <2>1. th[i].why # "event" /\ pc \in Resting \ {"idle", "uuid"}
    BY <1>1 DEF Sound, Resting
  <2>2. Moves(i, Done(i, pc))
    BY <1>1, <1>3, <2>1, GoesDone DEF Quiet
  <2>3. QED BY <2>2 DEF Moves, Sound
<1>4. CASE th[i].why = "unexpected" /\ Ends(i)
  BY <1>1, <1>4, EndsEnded DEF Quiet
<1>5. QED BY <1>2, <1>3, <1>4 DEF RemoveKey

LEMMA FinalEnds ==
    ASSUME Shared, NEW i \in Instances, Final(i)
    PROVE  Ended(i)
BY DEF Final, Ended, Shared

(***************************************************************************)
(* The steps of a thread, when something fails                             *)
(***************************************************************************)
LEMMA CaughtMoves ==
    ASSUME NEW i \in Instances, Sound(th[i]), Goes(i, Caught(i)),
           th[i].pc \in {"fetch", "get", "set", "subscribe", "listen"}
    PROVE  \E t \in ThreadType : Moves(i, t)
<1>1. CASE th[i].why = "event" \/ th[i].pc = "subscribe"
  <2>1. Goes(i, ToWipe(i, "raised"))
    BY <1>1 DEF Caught
  <2>2. Calm /\ Quiet(th[i]) => ~th[i].message
    BY <1>1 DEF Quiet
  <2>3. Moves(i, ToWipe(i, "raised"))
    BY <2>1, <2>2, GoesToWipe
  <2>4. QED BY <2>3 DEF Moves, Sound
<1>2. CASE ~(th[i].why = "event" \/ th[i].pc = "subscribe")
  <2>1. Goes(i, Done(i, "failed")) /\ th[i].why # "event"
    BY <1>2 DEF Caught
  <2>2. Moves(i, Done(i, "failed"))
    BY <2>1, GoesDone DEF Resting, Quiet
  <2>3. QED BY <2>2 DEF Moves, Sound
<1>3. QED BY <1>1, <1>2

LEMMA DockerFailsMoves ==
    ASSUME NEW i \in Instances, Sound(th[i]), DockerFails(i)
    PROVE  \E t \in ThreadType : Moves(i, t)
<1>1. CASE /\ th[i].pc = "fetch" /\ th[i].why = "event"
           /\ Goes(i, Forget(To(i, "listen")))
  <2> DEFINE t == Forget(To(i, "listen"))
  <2>1. /\ t \in ThreadType /\ t.pc = "listen" /\ t.why = "event"
        /\ t.stream = th[i].stream /\ t.message = th[i].message
    BY <1>1, Records DEF PCs
  <2>2. Goes(i, t)
    BY <1>1
  <2> HIDE DEF t
  <2>3. Sound(t) /\ Fresh(t)
    BY <1>1, <2>1 DEF Sound, Fresh, Resting
  <2>4. Calm /\ Quiet(th[i]) => Quiet(t)
    BY <1>1, <2>1 DEF Quiet
  <2>5. QED BY <1>1, <2>1, <2>2, <2>3, <2>4 DEF Moves
<1>2. CASE th[i].pc \in {"fetch", "subscribe", "listen"} /\ Goes(i, Caught(i))
  BY <1>2, CaughtMoves
<1>3. QED BY <1>1, <1>2 DEF DockerFails

(* A failure of XAPI may leave a message behind.                           *)
Fails(i, t) ==
    /\ ~Calm
    /\ th' = [th EXCEPT ![i] = t] /\ stop' = stop /\ leaked' \in BOOLEAN
    /\ Sound(t) /\ Fresh(t) /\ t.pc # "idle" /\ th[i].pc # "idle"

LEMMA XapiFailsMoves ==
    ASSUME Shared, NEW i \in Instances, Sound(th[i]), XapiFails(i)
    PROVE  Ended(i) \/ \E t \in ThreadType : Moves(i, t) \/ Fails(i, t)
<1>1. ~Calm
  BY DEF XapiFails, Calm
<1>2. CASE /\ Ends(i)
           /\ th[i].pc \in {"uuid", "wipe", "final"}
  BY <1>1, <1>2, EndsEnded
<1>3. CASE th[i].pc = "wipe" /\ Goes(i, Done(i, "failed"))
  <2>1. th[i].why # "event"
    BY <1>3 DEF Sound
  <2>2. Moves(i, Done(i, "failed"))
    BY <1>1, <1>3, <2>1, GoesDone DEF Resting
  <2>3. QED BY <2>2 DEF Moves, Sound
<1>4. CASE th[i].pc \in {"fetch", "get", "set", "subscribe"} /\ Goes(i, Caught(i))
  BY <1>4, CaughtMoves
<1>5. CASE /\ th[i].pc = "clear" /\ stop' = stop
           /\ th' = [th EXCEPT ![i] = [To(i, "subscribe") EXCEPT !.message = FALSE]]
           /\ leaked' = (leaked \/ th[i].message)
  <2> DEFINE t == [To(i, "subscribe") EXCEPT !.message = FALSE]
  <2>1. /\ t \in ThreadType /\ t.pc = "subscribe" /\ t.why = th[i].why
        /\ t.stream = th[i].stream
    <3>1. LET u == To(i, "subscribe") IN
            /\ u \in ThreadType /\ u.pc = "subscribe" /\ u.why = th[i].why
            /\ u.stream = th[i].stream
      BY Records DEF PCs
    <3>2. QED BY <3>1 DEF ThreadType
  <2>2. th' = [th EXCEPT ![i] = t]
    BY <1>5
  <2> HIDE DEF t
  <2>3. Sound(t) /\ Fresh(t)
    BY <1>5, <2>1 DEF Sound, Fresh, Resting
  <2>4. leaked' \in BOOLEAN
    BY <1>5, Zenon
  <2>5. QED BY <1>1, <1>5, <2>1, <2>2, <2>3, <2>4 DEF Fails
<1>6. CASE /\ th[i].pc = "failed" /\ stop' = stop
           /\ th' = [th EXCEPT ![i] = To(i, "sleep")] /\ leaked' \in {leaked, TRUE}
  <2> DEFINE t == To(i, "sleep")
  <2>1. /\ t \in ThreadType /\ t.pc = "sleep" /\ t.why = th[i].why
        /\ t.stream = th[i].stream
    BY Records DEF PCs
  <2>2. th' = [th EXCEPT ![i] = t]
    BY <1>6
  <2> HIDE DEF t
  <2>3. Sound(t) /\ Fresh(t)
    BY <1>6, <2>1 DEF Sound, Fresh, Resting
  <2>4. leaked' \in BOOLEAN
    BY <1>6 DEF Shared
  <2>5. QED BY <1>1, <1>6, <2>1, <2>2, <2>3, <2>4 DEF Fails
<1>7. QED BY <1>2, <1>3, <1>4, <1>5, <1>6 DEF XapiFails

LEMMA UnexpectedMoves ==
    ASSUME NEW i \in Instances, Sound(th[i]), Unexpected(i)
    PROVE  Ended(i) \/ \E t \in ThreadType : Moves(i, t)
<1>1. ~Calm /\ th[i].pc # "idle"
  BY DEF Unexpected, Calm
<1>2. CASE Goes(i, ToWipe(i, "unexpected"))
  <2>1. Moves(i, ToWipe(i, "unexpected"))
    BY <1>1, <1>2, GoesToWipe
  <2>2. QED BY <2>1 DEF Moves, Sound
<1>3. CASE Ends(i)
  BY <1>1, <1>3, EndsEnded
<1>4. QED BY <1>2, <1>3 DEF Unexpected

(* Whether or not a failed write was done, the map has its types.          *)
LEMMA MaybeTyped ==
    ASSUME Shared, NEW i \in Instances, Sound(th[i]), MaybeDone(i)
    PROVE  other_config' \in OtherConfig
<1>1. CASE th[i].pc = "set"
  BY <1>1, WrittenTyped DEF MaybeDone, Shared
<1>2. CASE th[i].pc = "wipe"
  <2>1. Head(th[i].left) \in DockerKeys
    BY <1>2, WipeLeft DEF Sound
  <2>2. [other_config EXCEPT ![Head(th[i].left)] = Absent] \in OtherConfig
    BY <2>1, KeyWritten DEF Shared
  <2>3. QED BY <1>2, <2>2 DEF MaybeDone, Shared
<1>3. CASE th[i].pc \notin {"set", "wipe"}
  BY <1>3 DEF MaybeDone, Shared
<1>4. QED BY <1>1, <1>2, <1>3

(* All a thread may do, by itself or because something fails.              *)
LEMMA ThreadMoves ==
    ASSUME VMInv, NEW i \in Instances, ThreadStep(i) \/ XapiFails(i) \/ Unexpected(i)
    PROVE  /\ Ended(i) \/ \E t \in ThreadType : Moves(i, t) \/ Fails(i, t)
           /\ other_config' \in OtherConfig
           /\ UNCHANGED <<world, current, cl>>
<1>1. Shared /\ Sound(th[i]) /\ Fresh(th[i])
  BY DEF VMInv
<1>2. Ended(i) \/ \E t \in ThreadType : Moves(i, t) \/ Fails(i, t)
  BY <1>1, LoopMoves, FetchMoves, GetMoves, SetMoves, ClearMoves, SubscribeMoves,
     ListenMoves, RemoveMoves, SendMoves, FinalEnds, DockerFailsMoves, XapiFailsMoves,
     UnexpectedMoves DEF ThreadStep
<1>3. UNCHANGED <<world, current, cl>>
  BY DEF ThreadStep, Begin, LoopHead, Fetch, GetOtherConfig, SetOtherConfig, ClearMessage,
     Subscribe, HandleEvent, ListenEnds, RemoveKey, SendMessage, Sleep, Final, DockerFails,
     XapiFails, Unexpected
<1>4. other_config' \in OtherConfig
  <2>1. CASE SetOtherConfig(i)
    BY <1>1, <2>1, WrittenTyped DEF SetOtherConfig
  <2>2. CASE RemoveKey(i)
    <3>1. Head(th[i].left) \in DockerKeys
      BY <1>1, <2>2, WipeLeft DEF RemoveKey, Sound
    <3>2. QED BY <1>1, <2>2, <3>1, KeyWritten DEF RemoveKey, Shared
  <2>3. CASE XapiFails(i) \/ Unexpected(i)
    BY <1>1, <2>3, MaybeTyped DEF XapiFails, Unexpected
  <2>4. CASE ThreadStep(i) /\ ~SetOtherConfig(i) /\ ~RemoveKey(i)
    <3>1. other_config' = other_config
      BY <2>4 DEF ThreadStep, Begin, LoopHead, Fetch, GetOtherConfig, ClearMessage,
         Subscribe, HandleEvent, ListenEnds, SendMessage, Sleep, Final, DockerFails
    <3>2. QED BY <1>1, <3>1 DEF Shared
  <2>5. QED BY <2>1, <2>2, <2>3, <2>4
<1>5. QED BY <1>2, <1>3, <1>4

-----------------------------------------------------------------------------
(***************************************************************************)
(* Every step keeps the invariant                                          *)
(***************************************************************************)
LEMMA ThreadKeeps ==
    ASSUME VMInv, NEW i \in Instances, ThreadStep(i) \/ XapiFails(i) \/ Unexpected(i)
    PROVE  VMInv'
<1>1. /\ Ended(i) \/ \E t \in ThreadType : Moves(i, t) \/ Fails(i, t)
      /\ other_config' \in OtherConfig
      /\ UNCHANGED <<running, dockerUp, containers, current, cl>>
  BY ThreadMoves DEF world
<1>2. Shared /\ Requests
  BY DEF VMInv
<1>3. PICK t \in ThreadType :
        /\ th' = [th EXCEPT ![i] = t] /\ Sound(t) /\ Fresh(t) /\ leaked' \in BOOLEAN
        /\ \/ stop' = [stop EXCEPT ![i] = FALSE]
           \/ stop' = stop /\ t.pc # "idle"
  <2>1. CASE Ended(i)
    BY <2>1, AtRest DEF Ended
  <2>2. ASSUME NEW t \in ThreadType, Moves(i, t)
        PROVE  /\ th' = [th EXCEPT ![i] = t] /\ Sound(t) /\ Fresh(t) /\ leaked' \in BOOLEAN
               /\ stop' = stop /\ t.pc # "idle"
    BY <1>2, <2>2 DEF Moves, Goes, Shared
  <2>3. ASSUME NEW t \in ThreadType, Fails(i, t)
        PROVE  /\ th' = [th EXCEPT ![i] = t] /\ Sound(t) /\ Fresh(t) /\ leaked' \in BOOLEAN
               /\ stop' = stop /\ t.pc # "idle"
    BY <2>3 DEF Fails
  <2>4. QED BY <1>1, <2>1, <2>2, <2>3
<1>4. /\ th' \in [Instances -> ThreadType] /\ th'[i] = t
      /\ \A j \in Instances \ {i} : th'[j] = th[j]
  BY <1>2, <1>3 DEF Shared
<1>5. Shared'
  BY <1>1, <1>2, <1>3, <1>4 DEF Shared
<1>6. Requests'
  BY <1>1, <1>2, <1>3, <1>4 DEF Requests, Shared
<1>7. \A j \in Instances : Sound(th'[j])
  BY <1>3, <1>4 DEF VMInv
<1>8. \A j \in Instances : Fresh(th[j])'
  BY <1>1, <1>3, <1>4 DEF VMInv, Fresh
<1>9. QED BY <1>1, <1>5, <1>6, <1>7, <1>8 DEF VMInv, Sound, SoundCall

LEMMA MainKeeps ==
    ASSUME VMInv, MainStep
    PROVE  VMInv'
<1>1. Shared /\ Requests /\ \A i \in Instances : Sound(th[i]) /\ Fresh(th[i])
  BY DEF VMInv
<1>2. UNCHANGED <<other_config, running, dockerUp, containers, leaked, cl>>
  BY DEF MainStep, StartMonitoring, StopMonitoring, world
<1>3. CASE StartMonitoring
  <2>1. PICK i \in Instances \ Alive : current' = i /\ th' = [th EXCEPT ![i].pc = "uuid"]
    BY <1>3 DEF StartMonitoring
  <2> DEFINE t == [th[i] EXCEPT !.pc = "uuid"]
  <2>2. th[i].pc = "idle" /\ th[i] \in ThreadType /\ stop' = stop /\ ~stop[i]
    BY <1>1, <1>3, <2>1 DEF Alive, Sound, StartMonitoring, Requests
  <2>3. /\ t \in ThreadType /\ t.pc = "uuid" /\ t.why = th[i].why /\ t.stream = th[i].stream
    BY <2>2 DEF ThreadType, PCs
  <2>4. /\ th' \in [Instances -> ThreadType] /\ th'[i] = t
        /\ \A j \in Instances \ {i} : th'[j] = th[j]
    BY <1>1, <2>1, <2>3 DEF Shared
  <2> HIDE DEF t
  <2>5. Sound(t) /\ Fresh(t)
    BY <1>1, <2>2, <2>3 DEF Sound, Fresh, Resting
  <2>6. Shared'
    BY <1>1, <1>2, <2>1, <2>2, <2>4 DEF Shared
  <2>7. Requests'
    BY <1>1, <2>1, <2>2, <2>4 DEF Requests
  <2>8. \A j \in Instances : Sound(th'[j]) /\ Fresh(th[j])'
    BY <1>1, <1>2, <2>3, <2>4, <2>5 DEF Fresh
  <2>9. QED BY <1>2, <2>6, <2>7, <2>8 DEF VMInv, SoundCall
<1>4. CASE StopMonitoring
  <2>1. /\ current' = NoInstance /\ th' = th
        /\ stop' = [i \in Instances |-> stop[i] \/ (i = current /\ i \in Alive)]
    BY <1>4 DEF StopMonitoring
  <2>2. stop' \in [Instances -> BOOLEAN]
    BY <2>1, Zenon
  <2>3. Shared'
    BY <1>1, <1>2, <2>1, <2>2 DEF Shared
  <2>4. \A i \in Instances : stop'[i] => stop[i] \/ i \in Alive
    BY <2>1
  <2>5. Requests'
    BY <1>1, <2>1, <2>4, ParametersAssumption DEF Requests, Alive
  <2>6. \A j \in Instances : Sound(th'[j]) /\ Fresh(th[j])'
    BY <1>1, <1>2, <2>1 DEF Fresh
  <2>7. QED BY <1>2, <2>3, <2>5, <2>6 DEF VMInv, SoundCall
<1>5. QED BY <1>3, <1>4 DEF MainStep

LEMMA CrashKeeps ==
    ASSUME VMInv, MonitorEnds
    PROVE  VMInv'
<1>1. /\ current' = NoInstance /\ th' = [i \in Instances |-> Idle]
      /\ stop' = [i \in Instances |-> FALSE]
      /\ UNCHANGED <<other_config, running, dockerUp, containers, cl>>
  BY DEF MonitorEnds, world
<1>2. leaked' \in BOOLEAN
  <2>1. leaked' = (leaked \/ \E i \in Instances : th[i].message)
    BY DEF MonitorEnds
  <2>2. QED BY <2>1, Zenon
<1>3. Shared' /\ Requests'
  BY <1>1, <1>2, AtRest DEF VMInv, Shared, Requests
<1>4. \A i \in Instances : Sound(th'[i]) /\ Fresh(th[i])'
  BY <1>1, AtRest DEF Fresh
<1>5. QED BY <1>1, <1>3, <1>4 DEF VMInv, SoundCall

(* A stream closes or an event is told; the threads are where they were.   *)
LEMMA ToldKeeps ==
    ASSUME VMInv, NEW new \in [Instances -> ThreadType], th' = new,
           \A i \in Instances :
              /\ new[i].pc = th[i].pc /\ new[i].why = th[i].why /\ new[i].left = th[i].left
              /\ new[i].value = th[i].value /\ new[i].message = th[i].message
              /\ new[i].stream = th[i].stream \/ (new[i].stream = "closed" /\ th[i].stream = "open")
              /\ new[i].stream = "open" =>
                   \/ containers' = containers /\ th[i].events \subseteq new[i].events
                   \/ "container" \in new[i].events,
           running' \in BOOLEAN, dockerUp' \in BOOLEAN, dockerUp' => running',
           containers' \in Versions,
           UNCHANGED <<other_config, current, stop, leaked, cl>>
    PROVE  VMInv'
<1>1. Shared /\ Requests /\ \A i \in Instances : Sound(th[i]) /\ Fresh(th[i])
  BY DEF VMInv
<1>2. Shared'
  BY <1>1 DEF Shared
<1>3. Requests'
  BY <1>1 DEF Requests
<1>4. ASSUME NEW i \in Instances
      PROVE  Sound(new[i]) /\ Fresh(new[i])'
  <2>1. Sound(th[i]) /\ Fresh(th[i])
    BY <1>1
  <2>2. new[i].stream # "none" <=> th[i].stream # "none"
    OBVIOUS
  <2>3. Sound(new[i])
    BY <2>1, <2>2 DEF Sound
  <2>4. Fresh(new[i])'
    BY <2>1 DEF Fresh
  <2>5. QED BY <2>3, <2>4
<1>5. \A i \in Instances : Sound(th'[i]) /\ Fresh(th[i])'
  BY <1>4 DEF Fresh
<1>6. QED BY <1>2, <1>3, <1>5 DEF VMInv, SoundCall

LEMMA WorldKeeps ==
    ASSUME VMInv, \/ Halt \/ Boot \/ DockerStops \/ DockerStarts \/ ContainersChange
                  \/ ImageDeleted
    PROVE  VMInv'
<1>1. Shared
  BY DEF VMInv
<1>2. CASE Halt \/ DockerStops
  <2>1. StreamsClose \in [Instances -> ThreadType]
    BY <1>1 DEF StreamsClose, Shared, ThreadType
  <2>2. /\ th' = StreamsClose /\ ~dockerUp' /\ running' \in BOOLEAN /\ dockerUp' \in BOOLEAN
        /\ UNCHANGED <<other_config, containers, current, stop, leaked, cl>>
    <3>1. CASE Halt
      BY <3>1 DEF Halt
    <3>2. CASE DockerStops
      BY <1>1, <3>2 DEF DockerStops, Shared
    <3>3. QED BY <1>2, <3>1, <3>2
  <2>3. \A i \in Instances : LET t == StreamsClose[i] IN
          /\ t.pc = th[i].pc /\ t.why = th[i].why /\ t.left = th[i].left
          /\ t.value = th[i].value /\ t.message = th[i].message
          /\ t.stream = th[i].stream \/ (t.stream = "closed" /\ th[i].stream = "open")
          /\ t.events = th[i].events
    BY <1>1 DEF StreamsClose, Shared, ThreadType
  <2>4. containers' \in Versions
    BY <1>1, <2>2 DEF Shared
  <2>5. QED BY <2>1, <2>2, <2>3, <2>4, ToldKeeps
<1>3. CASE Boot \/ DockerStarts
  <2>1. /\ th' = th /\ running' /\ dockerUp' /\ running' \in BOOLEAN /\ dockerUp' \in BOOLEAN
        /\ UNCHANGED <<other_config, containers, current, stop, leaked, cl>>
    BY <1>1, <1>3 DEF Boot, DockerStarts, Shared
  <2>2. th \in [Instances -> ThreadType] /\ containers' \in Versions
    BY <1>1, <2>1 DEF Shared
  <2>3. QED BY <2>1, <2>2, ToldKeeps
<1>4. ASSUME NEW e \in {"container", "image"}, Tell(e), containers' \in Versions,
             containers' = containers \/ e = "container",
             UNCHANGED <<other_config, running, dockerUp, current, stop, leaked, cl>>
      PROVE  VMInv'
  <2> DEFINE told(i) == [th[i] EXCEPT !.events =
                           IF th[i].stream = "open" THEN th[i].events \cup {e} ELSE th[i].events]
  <2>1. ASSUME NEW i \in Instances
        PROVE  /\ told(i) \in ThreadType
               /\ told(i).pc = th[i].pc /\ told(i).why = th[i].why /\ told(i).left = th[i].left
               /\ told(i).value = th[i].value /\ told(i).message = th[i].message
               /\ told(i).stream = th[i].stream
               /\ told(i).stream = "open" => told(i).events = th[i].events \cup {e}
    <3>1. th[i] \in ThreadType
      BY <1>1 DEF Shared
    <3>2. (IF th[i].stream = "open" THEN th[i].events \cup {e} ELSE th[i].events)
            \in SUBSET {"container", "image"}
      BY <3>1 DEF ThreadType
    <3>3. QED BY <3>1, <3>2 DEF ThreadType
  <2>2. th' = [i \in Instances |-> told(i)]
    BY <1>4 DEF Tell
  <2> HIDE DEF told
  <2> DEFINE new == [i \in Instances |-> told(i)]
  <2>3. new \in [Instances -> ThreadType] /\ \A i \in Instances : new[i] = told(i)
    BY <2>1
  <2> HIDE DEF new
  <2>4. \A i \in Instances :
          /\ new[i].pc = th[i].pc /\ new[i].why = th[i].why /\ new[i].left = th[i].left
          /\ new[i].value = th[i].value /\ new[i].message = th[i].message
          /\ new[i].stream = th[i].stream
          /\ new[i].stream = "open" => \/ containers' = containers /\ th[i].events \subseteq new[i].events
                                       \/ "container" \in new[i].events
    BY <1>4, <2>1, <2>3
  <2>5. th' = new
    BY <2>2 DEF new
  <2>6. running' \in BOOLEAN /\ dockerUp' \in BOOLEAN /\ (dockerUp' => running')
    BY <1>1, <1>4 DEF Shared
  <2>7. QED BY <1>4, <2>3, <2>4, <2>5, <2>6, ToldKeeps
<1>5. CASE ContainersChange
  BY <1>4, <1>5 DEF ContainersChange
<1>6. CASE ImageDeleted
  BY <1>1, <1>4, <1>6 DEF ImageDeleted, world, Shared
<1>7. QED BY <1>2, <1>3, <1>5, <1>6

LEMMA ClientKeeps ==
    ASSUME VMInv, NEW c \in Clients, ClientStep(c) \/ ClientCall(c) \/ ClientFails(c)
    PROVE  VMInv'
<1>1. /\ Shared /\ SoundCall(cl[c]) /\ cl[c] \in CallType
      /\ UNCHANGED <<running, dockerUp, containers, current, stop, th, leaked>>
  BY DEF VMInv, SoundCall, ClientStep, ClientCheck, ClientFetch, ClientGet, ClientSet,
     ClientRemoveKey, ClientCall, ClientFails, ClientGoes, world
<1>2. /\ PsInfoVersion \in Lefts /\ <<>> \in Lefts /\ Empty \in OtherConfig
      /\ \A l \in WipeLefts : l \in Lefts
  BY EmptyConfig DEF Lefts, WipeLefts
<1>3. PICK t \in CallType : cl' = [cl EXCEPT ![c] = t] /\ SoundCall(t)
  <2>1. ASSUME ClientGoes(c, NoCall)
        PROVE  \E t \in CallType : cl' = [cl EXCEPT ![c] = t] /\ SoundCall(t)
    BY <2>1, AtRest DEF ClientGoes
  <2>2. CASE ClientCall(c)
    <3>1. PICK op \in Operations, pc \in {"check", "get"} :
            /\ ClientGoes(c, [NoCall EXCEPT !.op = op, !.pc = pc])
            /\ pc = "check" <=> op \in {"mark", "pause"}
      BY <2>2, ParametersAssumption DEF ClientCall
    <3> DEFINE t == [NoCall EXCEPT !.op = op, !.pc = pc]
    <3>2. t \in CallType /\ t.pc = pc /\ t.op = op
      BY AtRest DEF CallType
    <3>3. SoundCall(t)
      BY <3>1, <3>2 DEF SoundCall, Operations
    <3>4. QED BY <3>1, <3>2, <3>3 DEF ClientGoes
  <2>3. CASE ClientCheck(c) /\ ~ClientGoes(c, NoCall)
    <3>1. \/ /\ cl[c].op = "mark"
             /\ ClientGoes(c, [ClientAt(c, "get") EXCEPT !.op = "deregister"])
          \/ cl[c].op = "pause" /\ ClientGoes(c, ClientAt(c, "fetch"))
      BY <1>1, <2>3 DEF ClientCheck, SoundCall
    <3>2. CASE ClientGoes(c, [ClientAt(c, "get") EXCEPT !.op = "deregister"])
      <4> DEFINE t == [ClientAt(c, "get") EXCEPT !.op = "deregister"]
      <4>1. t \in CallType /\ t.pc = "get" /\ t.op = "deregister"
        BY <1>1 DEF ClientAt, CallType, Operations
      <4>2. SoundCall(t)
        BY <4>1 DEF SoundCall
      <4>3. QED BY <3>2, <4>1, <4>2 DEF ClientGoes
    <3>3. CASE cl[c].op = "pause" /\ ClientGoes(c, ClientAt(c, "fetch"))
      <4> DEFINE t == ClientAt(c, "fetch")
      <4>1. t \in CallType /\ t.pc = "fetch" /\ t.op = "pause"
        BY <1>1, <3>3 DEF ClientAt, CallType
      <4>2. SoundCall(t)
        BY <4>1 DEF SoundCall
      <4>3. QED BY <3>3, <4>1, <4>2 DEF ClientGoes
    <3>4. QED BY <3>1, <3>2, <3>3
  <2>4. CASE ClientFetch(c) /\ ~ClientGoes(c, NoCall)
    <3> DEFINE t == [ClientAt(c, "get") EXCEPT !.value = containers]
    <3>1. cl[c].op = "pause" /\ ClientGoes(c, t)
      BY <1>1, <2>4 DEF ClientFetch, SoundCall
    <3>2. t \in CallType /\ t.pc = "get" /\ t.op = "pause" /\ t.value = containers
      BY <1>1, <3>1 DEF ClientAt, CallType, Shared
    <3>3. SoundCall(t)
      BY <1>1, <3>2 DEF SoundCall, Shared
    <3>4. QED BY <3>1, <3>2, <3>3 DEF ClientGoes
  <2>5. CASE ClientGet(c)
    <3> DEFINE t == [ClientAt(c, "set") EXCEPT !.snap = other_config]
    <3>1. cl[c].pc = "get" /\ ClientGoes(c, t)
      BY <2>5 DEF ClientGet
    <3>2. t \in CallType /\ t.pc = "set" /\ t.op = cl[c].op /\ t.value = cl[c].value
      BY <1>1 DEF ClientAt, CallType, Shared
    <3>3. SoundCall(t)
      BY <1>1, <3>1, <3>2 DEF SoundCall
    <3>4. QED BY <3>1, <3>2, <3>3 DEF ClientGoes
  <2>6. CASE ClientSet(c) /\ ~ClientGoes(c, NoCall)
    <3> DEFINE t == [ClientAt(c, "wipe") EXCEPT !.snap = Empty, !.left = WipeOrder]
    <3>1. ClientGoes(c, t)
      BY <2>6 DEF ClientSet
    <3>2. t \in CallType /\ t.pc = "wipe" /\ t.left \in WipeLefts
      BY <1>1, <1>2, Orders DEF ClientAt, CallType
    <3>3. SoundCall(t)
      BY <3>2 DEF SoundCall
    <3>4. QED BY <3>1, <3>2, <3>3 DEF ClientGoes
  <2>7. CASE ClientRemoveKey(c) /\ ~ClientGoes(c, NoCall)
    <3> DEFINE t == [cl[c] EXCEPT !.left = Tail(cl[c].left)]
    <3>1. cl[c].pc = "wipe" /\ Len(cl[c].left) > 1 /\ ClientGoes(c, t)
      BY <2>7 DEF ClientRemoveKey
    <3>2. Tail(cl[c].left) \in WipeLefts
      BY <1>1, <3>1, WipeLeft DEF SoundCall
    <3>3. t \in CallType /\ t.pc = "wipe" /\ t.left \in WipeLefts
      BY <1>1, <1>2, <3>1, <3>2 DEF CallType
    <3>4. SoundCall(t)
      BY <3>3 DEF SoundCall
    <3>5. QED BY <3>1, <3>3, <3>4 DEF ClientGoes
  <2>8. CASE ClientFails(c)
    BY <2>1, <2>8 DEF ClientFails
  <2>9. QED BY <2>1, <2>2, <2>3, <2>4, <2>5, <2>6, <2>7, <2>8 DEF ClientStep
<1>4. other_config' \in OtherConfig
  <2>1. CASE ClientSet(c)
    <3>1. /\ cl[c].snap \in OtherConfig
          /\ cl[c].op \in {"register", "deregister", "update", "pause"}
          /\ cl[c].op = "pause" => cl[c].value \in Versions
      BY <1>1, <2>1 DEF SoundCall, ClientSet, CallType
    <3>2. /\ [cl[c].snap EXCEPT !.registration = "True"] \in OtherConfig
          /\ [cl[c].snap EXCEPT !.registration = "False"] \in OtherConfig
          /\ cl[c].op = "pause" =>
               [cl[c].snap EXCEPT !.docker_ps = cl[c].value] \in OtherConfig
      BY <3>1 DEF OtherConfig
    <3>3. QED BY <2>1, <3>1, <3>2 DEF ClientSet
  <2>2. CASE ClientRemoveKey(c)
    <3>1. Head(cl[c].left) \in DockerKeys
      BY <1>1, <2>2, WipeLeft DEF ClientRemoveKey, SoundCall
    <3>2. QED BY <1>1, <2>2, <3>1, KeyWritten DEF ClientRemoveKey, Shared
  <2>3. CASE ~ClientSet(c) /\ ~ClientRemoveKey(c)
    BY <1>1, <2>3 DEF ClientStep, ClientCheck, ClientFetch, ClientGet, ClientCall, ClientFails,
       Shared
  <2>4. QED BY <2>1, <2>2, <2>3
<1>5. cl' \in [Clients -> CallType] /\ \A d \in Clients : SoundCall(cl'[d])
  BY <1>1, <1>3 DEF VMInv, Shared
<1>6. Shared' /\ Requests'
  BY <1>1, <1>4, <1>5 DEF VMInv, Shared, Requests
<1>7. \A i \in Instances : Sound(th'[i]) /\ Fresh(th[i])'
  BY <1>1 DEF VMInv, Fresh
<1>8. QED BY <1>5, <1>6, <1>7 DEF VMInv

LEMMA VMNext ==
    ASSUME VMInv, [Next]_vars
    PROVE  VMInv'
<1>1. CASE UNCHANGED vars
  <2>1. Shared' /\ Requests'
    BY <1>1 DEF VMInv, Shared, Requests, vars, world
  <2>2. \A i \in Instances : Sound(th'[i]) /\ Fresh(th[i])'
    BY <1>1 DEF VMInv, Fresh, vars, world
  <2>3. \A c \in Clients : SoundCall(cl'[c])
    BY <1>1 DEF VMInv, vars
  <2>4. QED BY <2>1, <2>2, <2>3 DEF VMInv
<1>2. CASE Environment
  BY <1>2, ThreadKeeps, ClientKeeps, WorldKeeps, CrashKeeps DEF Environment
<1>3. QED
  BY <1>1, <1>2, ThreadKeeps, ClientKeeps, MainKeeps, WorldKeeps DEF Next

LEMMA VMInitial ==
    ASSUME Init
    PROVE  VMInv
<1>1. Shared /\ Requests
  BY AtRest, EmptyConfig DEF Init, Shared, Requests
<1>2. \A i \in Instances : Sound(th[i]) /\ Fresh(th[i])
  BY AtRest DEF Init
<1>3. \A c \in Clients : SoundCall(cl[c])
  BY AtRest DEF Init
<1>4. QED BY <1>1, <1>2, <1>3 DEF VMInv

(* The invariant the other theorems follow from. *)
THEOREM VMCorrect == Spec => []VMInv
<1>1. QED BY VMInitial, VMNext, PTL DEF Spec

LEMMA VMInvTyped ==
    ASSUME VMInv
    PROVE  TypeOK
<1>1. Shared /\ Requests
  BY DEF VMInv
<1>2. ASSUME NEW i \in Instances
      PROVE  /\ th[i].pc \in PCs /\ th[i].snap \in OtherConfig
             /\ th[i].value \in Versions \cup {"daemon", Absent}
             /\ th[i].message \in BOOLEAN
             /\ th[i].events \subseteq {"container", "image"}
             /\ th[i].stream # "none" <=> (th[i].why = "event")
             /\ stop[i] => i \in Alive /\ i # current
  <2>1. Sound(th[i]) /\ th[i] \in ThreadType
    BY DEF VMInv, Sound
  <2>2. stop[i] => i \in Alive /\ i # current
    BY <1>1 DEF Requests, Alive
  <2>3. QED BY <2>1, <2>2 DEF Sound, ThreadType
<1>3. QED BY <1>1, <1>2 DEF TypeOK, Shared

(* Types; only threads that run have a stop request, only those that       *)
(* listen a connection, and the registered thread was not asked to stop,   *)
(* whoever writes other_config and whatever fails.                         *)
THEOREM VMTyped == Spec => []TypeOK
<1>1. QED BY VMCorrect, VMInvTyped, PTL

-----------------------------------------------------------------------------
(***************************************************************************)
(* Error messages                                                          *)
(***************************************************************************)
LEMMA QuietNext ==
    ASSUME Calm, VMInv, QuietInv, [Next]_vars
    PROVE  QuietInv'
<1>1. Shared /\ \A i \in Instances : Sound(th[i])
  BY DEF VMInv
<1>2. CASE \E i \in Instances : ThreadStep(i) \/ XapiFails(i) \/ Unexpected(i)
  <2>1. PICK i \in Instances : ThreadStep(i) \/ XapiFails(i) \/ Unexpected(i)
    BY <1>2
  <2>2. PICK t \in ThreadType :
          th' = [th EXCEPT ![i] = t] /\ Quiet(t) /\ leaked' = leaked
    <3>1. Ended(i) \/ \E t \in ThreadType : Moves(i, t)
      BY <2>1, ThreadMoves DEF Fails
    <3>2. CASE Ended(i)
      BY <3>2, AtRest DEF Ended, QuietInv
    <3>3. CASE \E t \in ThreadType : Moves(i, t)
      BY <3>3 DEF Moves, Goes, QuietInv
    <3>4. QED BY <3>1, <3>2, <3>3
  <2>3. QED BY <1>1, <2>2 DEF QuietInv, Shared
<1>3. CASE /\ leaked' = leaked
           /\ \A i \in Instances : /\ th'[i].why = th[i].why /\ th'[i].message = th[i].message
                                   /\ th'[i].pc = th[i].pc \/ ~th[i].message
  <2>1. ASSUME NEW i \in Instances
        PROVE  Quiet(th'[i])
    <3>1. Quiet(th[i]) /\ th'[i].why = th[i].why /\ (th'[i].message <=> th[i].message)
      BY <1>3 DEF QuietInv
    <3>2. th[i].message => th'[i].pc = th[i].pc
      BY <1>3
    <3>3. QED BY <3>1, <3>2 DEF Quiet
  <2>2. QED BY <1>3, <2>1 DEF QuietInv
<1>4. CASE MainStep
  <2>1. leaked' = leaked
    BY <1>4 DEF MainStep, StartMonitoring, StopMonitoring
  <2>2. CASE StopMonitoring
    BY <1>3, <2>1, <2>2 DEF StopMonitoring
  <2>3. CASE StartMonitoring
    <3>1. PICK i \in Instances \ Alive : th' = [th EXCEPT ![i].pc = "uuid"]
      BY <2>3 DEF StartMonitoring
    <3>2. th[i].pc = "idle" /\ th[i] \in ThreadType /\ Quiet(th[i])
      BY <1>1, <3>1 DEF Alive, Sound, QuietInv
    <3>3. /\ th'[i].why = th[i].why /\ th'[i].message = th[i].message
          /\ ~th[i].message /\ \A j \in Instances \ {i} : th'[j] = th[j]
      BY <1>1, <3>1, <3>2 DEF Shared, ThreadType, Quiet
    <3>4. QED BY <1>3, <2>1, <3>3
  <2>4. QED BY <1>4, <2>2, <2>3 DEF MainStep
<1>5. CASE \/ Halt \/ Boot \/ DockerStops \/ DockerStarts \/ ContainersChange \/ ImageDeleted
  <2>1. leaked' = leaked
    BY <1>5 DEF Halt, Boot, DockerStops, DockerStarts, ContainersChange, ImageDeleted
  <2>2. \A i \in Instances : /\ th'[i].why = th[i].why /\ th'[i].message = th[i].message
                            /\ th'[i].pc = th[i].pc
    <3>1. CASE Halt \/ DockerStops
      BY <1>1, <3>1 DEF Halt, DockerStops, StreamsClose, Shared, ThreadType
    <3>2. CASE Boot \/ DockerStarts
      BY <3>2 DEF Boot, DockerStarts
    <3>3. CASE ContainersChange \/ ImageDeleted
      BY <1>1, <3>3 DEF ContainersChange, ImageDeleted, Tell, Shared, ThreadType
    <3>4. QED BY <1>5, <3>1, <3>2, <3>3
  <2>3. QED BY <1>3, <2>1, <2>2
<1>6. CASE \/ UNCHANGED vars
           \/ \E c \in Clients : ClientStep(c) \/ ClientCall(c) \/ ClientFails(c)
  <2>1. th' = th /\ leaked' = leaked
    BY <1>6 DEF vars, ClientStep, ClientCheck, ClientFetch, ClientGet, ClientSet,
       ClientRemoveKey, ClientCall, ClientFails, ClientGoes
  <2>2. QED BY <1>3, <2>1
<1>7. ~MonitorEnds
  BY DEF Calm, MonitorEnds
<1>8. QED BY <1>2, <1>4, <1>5, <1>6, <1>7 DEF Next, Environment

(* As long as XAPI answers and nothing unexpected happens, however many    *)
(* threads overlap and whatever Docker does: no thread that ended, and     *)
(* none that reached the events of its VM, leaves an error message behind. *)
THEOREM MessagesDestroyed == Calm => (Spec => []NoMessageLeft)
<1> SUFFICES ASSUME Calm
             PROVE  Spec => []NoMessageLeft
  OBVIOUS
<1>1. Init => QuietInv
  BY AtRest DEF Init, QuietInv
<1>2. VMInv /\ QuietInv /\ [Next]_vars => QuietInv'
  BY QuietNext
<1>3. QuietInv => NoMessageLeft
  BY DEF QuietInv, Quiet, NoMessageLeft, Alive
<1>4. QED BY <1>1, <1>2, <1>3, VMCorrect, PTL DEF Spec

-----------------------------------------------------------------------------
(***************************************************************************)
(* Events                                                                  *)
(***************************************************************************)
(* The only step from "set" to "listen" is the write that an event caused. *)
LEMMA HandledBySet ==
    ASSUME VMInv, [Next]_vars, NEW i \in Instances,
           th[i].pc = "set", th[i].why = "event", th'[i].pc = "listen"
    PROVE  SetOtherConfig(i)
<1>1. Shared /\ Sound(th[i]) /\ th[i] \in ThreadType
  BY DEF VMInv, Sound
<1>2. SUFFICES ASSUME ~SetOtherConfig(i)
               PROVE  th'[i].pc # "listen"
  OBVIOUS
<1>3. CASE \E j \in Instances : ThreadStep(j) \/ XapiFails(j) \/ Unexpected(j)
  <2>1. PICK j \in Instances : ThreadStep(j) \/ XapiFails(j) \/ Unexpected(j)
    BY <1>3
  <2>2. CASE j # i
    <3>1. th'[i] = th[i]
      <4>1. Ended(j) \/ \E t \in ThreadType : Moves(j, t) \/ Fails(j, t)
        BY <2>1, ThreadMoves
      <4>2. \E t \in ThreadType : th' = [th EXCEPT ![j] = t]
        BY <4>1, AtRest DEF Ended, Moves, Goes, Fails
      <4>3. QED BY <1>1, <2>2, <4>2 DEF Shared
    <3>2. QED BY <3>1
  <2>3. CASE j = i
    <3>1. XapiFails(i) \/ Unexpected(i)
      BY <1>2, <2>1, <2>3 DEF ThreadStep, Begin, LoopHead, Fetch, GetOtherConfig,
         ClearMessage, Subscribe, HandleEvent, ListenEnds, RemoveKey, SendMessage, Sleep,
         Final, DockerFails
    <3>2. \E why \in {"raised", "unexpected"} : Goes(i, ToWipe(i, why))
      BY <3>1 DEF XapiFails, Unexpected, Caught
    <3>3. PICK t \in ThreadType : t.pc = "wipe" /\ th' = [th EXCEPT ![i] = t]
      BY <1>1, <3>2, Records DEF Goes
    <3>4. QED BY <1>1, <3>3 DEF Shared
  <2>4. QED BY <2>2, <2>3
<1>4. CASE th' = th
  BY <1>4
<1>5. CASE MainStep
  <2>1. CASE StartMonitoring
    <3>1. PICK j \in Instances \ Alive : th' = [th EXCEPT ![j].pc = "uuid"]
      BY <2>1 DEF StartMonitoring
    <3>2. j # i
      BY <3>1 DEF Alive
    <3>3. QED BY <1>1, <3>1, <3>2 DEF Shared
  <2>2. QED BY <1>4, <1>5, <2>1 DEF MainStep, StopMonitoring
<1>6. CASE Halt \/ DockerStops
  BY <1>1, <1>6 DEF Halt, DockerStops, StreamsClose, Shared, ThreadType
<1>7. CASE ContainersChange \/ ImageDeleted
  <2>1. PICK e \in {"container", "image"} : Tell(e)
    BY <1>7 DEF ContainersChange, ImageDeleted
  <2>2. th'[i].pc = th[i].pc
    BY <1>1, <2>1 DEF Tell, ThreadType
  <2>3. QED BY <2>2
<1>8. CASE MonitorEnds
  BY <1>8, AtRest DEF MonitorEnds
<1>9. CASE \E c \in Clients : ClientStep(c) \/ ClientCall(c) \/ ClientFails(c)
  BY <1>4, <1>9 DEF ClientStep, ClientCheck, ClientFetch, ClientGet, ClientSet,
     ClientRemoveKey, ClientCall, ClientFails, ClientGoes
<1>10. CASE Boot \/ DockerStarts \/ UNCHANGED vars
  BY <1>4, <1>10 DEF Boot, DockerStarts, vars
<1>11. CASE Environment
  BY <1>3, <1>6, <1>7, <1>8, <1>9, <1>10, <1>11 DEF Environment
<1>12. CASE Next
  BY <1>3, <1>5, <1>9, <1>10, <1>11, <1>12 DEF Next
<1>13. QED BY <1>10, <1>12

(* Whatever fails, however many threads overlap and whoever writes         *)
(* other_config in between: what a thread writes when it has handled the   *)
(* last event it was told of is what Docker would answer at that moment.   *)
THEOREM EventsFresh == Spec => EventHandledIsFresh
<1>1. ASSUME VMInv, [Next]_vars, NEW i \in Instances,
             th[i].pc = "set", th[i].why = "event", Head(th[i].left) = "docker_ps",
             th'[i].pc = "listen", th'[i].stream = "open", "container" \notin th'[i].events
      PROVE  other_config'.docker_ps = containers'
  <2>1. Shared /\ Sound(th[i]) /\ Fresh(th[i]) /\ SetOtherConfig(i)
    BY <1>1, HandledBySet DEF VMInv
  <2>2. th[i] \in ThreadType /\ th[i].left \in UpdateLefts
    BY <1>1, <2>1 DEF Sound
  <2>3. th'[i] = Forget(To(i, "listen"))
    <3>1. AfterSet(i) = Forget(To(i, "listen"))
      BY <1>1, <2>2, UpdateLeft DEF AfterSet
    <3>2. QED BY <2>1, <3>1 DEF SetOtherConfig, Goes, Shared
  <2>4. th'[i].stream = th[i].stream /\ th'[i].events = th[i].events
    BY <2>1, <2>3, Records DEF PCs
  <2>5. th[i].value = containers
    BY <1>1, <2>1, <2>4 DEF Fresh
  <2>6. other_config'.docker_ps = th[i].value
    BY <1>1, <2>1, <2>2 DEF SetOtherConfig, Written, ThreadType, OtherConfig
  <2>7. QED BY <2>1, <2>5, <2>6 DEF SetOtherConfig, world
<1>2. VMInv /\ [Next]_vars =>
          [\A i \in Instances :
             (/\ th[i].pc = "set" /\ th[i].why = "event"
              /\ Head(th[i].left) = "docker_ps"
              /\ th'[i].pc = "listen" /\ th'[i].stream = "open"
              /\ "container" \notin th'[i].events)
             => other_config'.docker_ps = containers']_vars
  BY <1>1
<1>3. QED BY <1>2, VMCorrect, PTL DEF Spec, EventHandledIsFresh

-----------------------------------------------------------------------------
(***************************************************************************)
(* MonitoredVM implements MonitorThread                                    *)
(***************************************************************************)
Asked == {i \in Instances : stop[i]}

LEMMA ThreadMaps ==
    ASSUME VMInv, NEW i \in Instances, ThreadStep(i) \/ XapiFails(i) \/ Unexpected(i)
    PROVE  \/ UNCHANGED <<current, Alive, Asked>>
           \/ Threads!Dies(i)
<1>1. Shared
  BY DEF VMInv
<1>2. /\ Ended(i) \/ \E t \in ThreadType : Moves(i, t) \/ Fails(i, t)
      /\ current' = current
  BY ThreadMoves
<1>3. CASE Ended(i)
  <2>1. i \in Alive
    BY <1>3 DEF Ended, Alive
  <2>2. /\ th' = [th EXCEPT ![i] = Idle] /\ stop' = [stop EXCEPT ![i] = FALSE]
        /\ Idle.pc = "idle"
    BY <1>3, AtRest DEF Ended
  <2>3. Alive' = Alive \ {i}
    BY <1>1, <2>2 DEF Alive, Shared
  <2>4. Asked' = Asked \ {i}
    BY <1>1, <2>2 DEF Asked, Shared
  <2>5. QED BY <1>2, <2>1, <2>3, <2>4 DEF Threads!Dies, Threads!Ends, Asked
<1>4. CASE \E t \in ThreadType : Moves(i, t) \/ Fails(i, t)
  <2>1. PICK t \in ThreadType :
          /\ th' = [th EXCEPT ![i] = t] /\ stop' = stop
          /\ t.pc # "idle" /\ th[i].pc # "idle"
    BY <1>4 DEF Moves, Goes, Fails
  <2>2. Alive' = Alive
    BY <1>1, <2>1 DEF Alive, Shared
  <2>3. QED BY <1>2, <2>1, <2>2 DEF Asked
<1>5. QED BY <1>2, <1>3, <1>4

(* Every step of the threads of a VM, of the main loop and of the process, *)
(* whatever fails and whoever writes other_config, is a step of            *)
(* MonitorThread or leaves registry, threads and stop requests alone: the  *)
(* registry knows at most one thread and a stop request is never lost.     *)
THEOREM ThreadsImplement == Spec => Threads!Spec
<1>1. Init => Threads!Init
  BY AtRest DEF Init, Threads!Init, Alive
<1>2. VMInv /\ [Next]_vars => [Threads!Next]_Threads!vars
  <2> SUFFICES ASSUME VMInv, [Next]_vars
               PROVE  Threads!Next \/ UNCHANGED <<current, Alive, Asked>>
    BY DEF Threads!vars, Asked
  <2>1. Shared /\ Requests
    BY DEF VMInv
  <2>2. CASE \E i \in Instances : ThreadStep(i) \/ XapiFails(i) \/ Unexpected(i)
    BY <2>2, ThreadMaps DEF Threads!Next
  <2>3. CASE StartMonitoring
    <3>1. PICK i \in Instances \ Alive : current' = i /\ th' = [th EXCEPT ![i].pc = "uuid"]
      BY <2>3 DEF StartMonitoring
    <3>2. Alive' = Alive \cup {i}
      BY <2>1, <3>1 DEF Alive, Shared, ThreadType
    <3>3. Asked' = Asked /\ current = NoInstance
      BY <2>3 DEF StartMonitoring, Asked
    <3>4. Threads!Start
      BY <3>1, <3>2, <3>3 DEF Threads!Start, Asked
    <3>5. QED BY <3>4 DEF Threads!Next
  <2>4. CASE StopMonitoring
    <3>1. Asked' = Asked \cup (Alive \cap {current})
      BY <2>1, <2>4 DEF StopMonitoring, Asked, Alive, Shared
    <3>2. current # NoInstance /\ current' = NoInstance /\ Alive' = Alive
      BY <2>4 DEF StopMonitoring, Alive
    <3>3. QED BY <3>1, <3>2 DEF Threads!Next, Threads!Stop, Asked
  <2>5. CASE MonitorEnds
    <3>1. current' = NoInstance /\ Alive' = {} /\ Asked' = {}
      BY <2>5, AtRest DEF MonitorEnds, Alive, Asked
    <3>2. QED BY <3>1 DEF Threads!Next, Threads!Vanish, Asked
  <2>6. ASSUME UNCHANGED <<current, stop>>, \A i \in Instances : th'[i].pc = th[i].pc
        PROVE  UNCHANGED <<current, Alive, Asked>>
    BY <2>6 DEF Alive, Asked
  <2>7. CASE Halt \/ DockerStops
    BY <2>1, <2>6, <2>7 DEF Halt, DockerStops, StreamsClose, Shared, ThreadType
  <2>8. CASE ContainersChange \/ ImageDeleted
    <3>1. PICK e \in {"container", "image"} : Tell(e) /\ UNCHANGED <<current, stop>>
      BY <2>8 DEF ContainersChange, ImageDeleted
    <3>2. \A i \in Instances : th'[i].pc = th[i].pc
      BY <2>1, <3>1 DEF Tell, Shared, ThreadType
    <3>3. QED BY <2>6, <3>1, <3>2
  <2>9. CASE \E c \in Clients : ClientStep(c) \/ ClientCall(c) \/ ClientFails(c)
    BY <2>6, <2>9 DEF ClientStep, ClientCheck, ClientFetch, ClientGet, ClientSet,
       ClientRemoveKey, ClientCall, ClientFails, ClientGoes
  <2>10. CASE Boot \/ DockerStarts \/ UNCHANGED vars
    BY <2>6, <2>10 DEF Boot, DockerStarts, vars
  <2>11. CASE Environment
    BY <2>2, <2>5, <2>7, <2>8, <2>9, <2>10, <2>11 DEF Environment
  <2>12. CASE Next
    BY <2>2, <2>3, <2>4, <2>9, <2>10, <2>11, <2>12 DEF Next, MainStep
  <2>13. QED BY <2>10, <2>12
<1>3. QED BY <1>1, <1>2, VMCorrect, PTL DEF Spec, Threads!Spec

-----------------------------------------------------------------------------
(***************************************************************************)
(* What is published is followed                                           *)
(***************************************************************************)
(* One thread, and nobody else who writes other_config. *)
Alone == Calm /\ Clients = {} /\ \A i, j \in Instances : i = j

(* A thread follows what is published; what it is about to write back to   *)
(* XAPI in an update it began before it followed has no docker_ps.         *)
Minds(i) ==
    /\ other_config.docker_ps # Absent => Follows(i)
    /\ th[i].pc = "set" /\ th[i].why = "loop" => th[i].snap.docker_ps = Absent

MindInv ==
    /\ Instances = {} => other_config.docker_ps = Absent
    /\ \A i \in Instances : Minds(i)

(* A step after which nothing is published, or the thread follows.         *)
LEMMA MindsEither ==
    ASSUME NEW i \in Instances, th'[i].pc # "set",
           other_config'.docker_ps = Absent \/ Follows(i)'
    PROVE  Minds(i)'
BY DEF Minds

LEMMA MindsUpdate ==
    ASSUME Calm, Shared, NEW i \in Instances, Sound(th[i]), Minds(i),
           Fetch(i) \/ GetOtherConfig(i) \/ SetOtherConfig(i) \/ ClearMessage(i) \/ Subscribe(i)
    PROVE  Minds(i)'
<1>1. th[i] \in ThreadType /\ th[i].why \in {"loop", "event"}
  BY DEF Sound, Fetch, GetOtherConfig, SetOtherConfig, ClearMessage, Subscribe
<1>2. CASE Fetch(i)
  <2> DEFINE v == Content(Head(th[i].left))
  <2>1. /\ th'[i] = [To(i, "get") EXCEPT !.value = v] /\ th[i].pc = "fetch"
        /\ other_config' = other_config
    BY <1>2 DEF Fetch, Goes, Shared
  <2>2. th'[i].pc = "get" /\ th'[i].why = th[i].why
    BY <1>1, <2>1 DEF To, ThreadType
  <2>3. other_config.docker_ps # Absent => th[i].why = "event"
    BY <2>1 DEF Minds, Follows
  <2>4. QED BY <2>1, <2>2, <2>3 DEF Minds, Follows
<1>3. CASE GetOtherConfig(i)
  <2>1. /\ th'[i] = [To(i, "set") EXCEPT !.snap = other_config] /\ th[i].pc = "get"
        /\ other_config' = other_config
    BY <1>3 DEF GetOtherConfig, Goes, Shared
  <2>2. th'[i].pc = "set" /\ th'[i].why = th[i].why /\ th'[i].snap = other_config
    BY <1>1, <2>1 DEF To, ThreadType
  <2>3. other_config.docker_ps # Absent => th[i].why = "event"
    BY <2>1 DEF Minds, Follows
  <2>4. QED BY <2>1, <2>2, <2>3 DEF Minds, Follows
<1>4. CASE SetOtherConfig(i)
  <2>1. /\ th'[i] = AfterSet(i) /\ th[i].pc = "set" /\ other_config' = Written(i)
        /\ th[i].left \in UpdateLefts /\ th[i].snap \in OtherConfig
    BY <1>1, <1>4 DEF SetOtherConfig, Goes, Shared, Sound, ThreadType
  <2>2. CASE Tail(th[i].left) # <<>>
    <3>1. Head(th[i].left) # "docker_ps" /\ Head(th[i].left) \in DockerKeys
      BY <2>1, <2>2, UpdateLeft
    <3>2. other_config'.docker_ps = th[i].snap.docker_ps
      BY <2>1, <3>1 DEF Written, OtherConfig, DockerKeys
    <3>3. th'[i] = [Forget(To(i, "fetch")) EXCEPT !.left = Tail(th[i].left)]
      BY <2>1, <2>2 DEF AfterSet
    <3>4. th'[i].pc = "fetch" /\ th'[i].why = th[i].why
      BY <1>1, <3>3 DEF Forget, To, ThreadType
    <3>5. QED BY <1>1, <2>1, <3>2, <3>4 DEF Minds, Follows
  <2>3. CASE Tail(th[i].left) = <<>>
    <3>1. th'[i] = Forget(To(i, "listen")) \/ th'[i] = Forget(To(i, "clear"))
      BY <2>1, <2>3 DEF AfterSet
    <3>2. th'[i].pc \in {"listen", "clear"}
      BY <1>1, <3>1 DEF Forget, To, ThreadType
    <3>3. QED BY <3>2 DEF Minds, Follows
  <2>4. QED BY <2>2, <2>3
<1>5. CASE ClearMessage(i)
  <2>1. th'[i] = [To(i, "subscribe") EXCEPT !.message = FALSE]
    BY <1>5 DEF ClearMessage, Goes, Shared
  <2>2. th'[i].pc = "subscribe"
    BY <1>1, <2>1 DEF To, ThreadType
  <2>3. QED BY <2>2 DEF Minds, Follows
<1>6. CASE Subscribe(i)
  <2>1. th'[i] = [To(i, "listen") EXCEPT !.stream = "open", !.why = "event"]
    BY <1>6 DEF Subscribe, Goes, Shared
  <2>2. th'[i].pc = "listen"
    BY <1>1, <2>1 DEF To, ThreadType
  <2>3. QED BY <2>2 DEF Minds, Follows
<1>7. QED BY <1>2, <1>3, <1>4, <1>5, <1>6

(* A thread that starts to wipe because it stops listening begins with     *)
(* docker_ps.                                                              *)
LEMMA MindsWipe ==
    ASSUME Shared, NEW i \in Instances, Sound(th[i]),
           NEW why \in {"ended", "raised"}, Goes(i, ToWipe(i, why))
    PROVE  Minds(i)'
<1>1. th'[i] = ToWipe(i, why)
  BY DEF Goes, Shared
<1>2. th'[i].pc = "wipe" /\ th'[i].why = why /\ Head(th'[i].left) = "docker_ps"
  BY <1>1, Records, Orders, HeadsOfLefts
<1>3. QED BY <1>2 DEF Minds, Follows

LEMMA MindsListen ==
    ASSUME Shared, NEW i \in Instances, Sound(th[i]), Minds(i),
           HandleEvent(i) \/ ListenEnds(i) \/ DockerFails(i)
    PROVE  Minds(i)'
<1>1. th[i] \in ThreadType
  BY DEF Sound
<1>2. CASE HandleEvent(i)
  <2>1. PICK e \in th[i].events, key \in {"docker_ps", "docker_info"} :
          th'[i] = [ToUpdate(i, "event", <<key>>) EXCEPT !.events = @ \ {e}]
    BY <1>2 DEF HandleEvent, Goes, Shared
  <2>2. th'[i].pc = "fetch" /\ th'[i].why = "event"
    BY <1>1, <2>1 DEF ToUpdate, ThreadType
  <2>3. QED BY <2>2 DEF Minds, Follows
<1>3. CASE ListenEnds(i)
  BY <1>3, MindsWipe DEF ListenEnds
<1>4. CASE DockerFails(i)
  <2>1. other_config' = other_config
    BY <1>4 DEF DockerFails
  <2>2. CASE Goes(i, ToWipe(i, "raised"))
    BY <2>2, MindsWipe
  <2>3. CASE Goes(i, Forget(To(i, "listen")))
    <3>1. th'[i].pc = "listen"
      BY <1>1, <2>3 DEF Goes, Forget, To, Shared, ThreadType
    <3>2. QED BY <3>1 DEF Minds, Follows
  <2>4. CASE Goes(i, Done(i, "failed")) /\ th[i].why # "event" /\ th[i].pc = "fetch"
    <3>1. th'[i].pc = "failed"
      BY <1>1, <2>4 DEF Goes, Done, Forget, To, Shared, ThreadType
    <3>2. other_config.docker_ps = Absent
      BY <2>4 DEF Minds, Follows
    <3>3. QED BY <2>1, <3>1, <3>2 DEF Minds
  <2>5. QED
    BY <1>4, <2>2, <2>3, <2>4 DEF DockerFails, Caught, Sound
<1>5. QED BY <1>2, <1>3, <1>4

LEMMA MindsRest ==
    ASSUME Calm, Shared, NEW i \in Instances, Sound(th[i]), Minds(i),
           Begin(i) \/ LoopHead(i) \/ SendMessage(i) \/ Sleep(i) \/ Final(i)
    PROVE  Minds(i)'
<1>1. th[i] \in ThreadType /\ other_config' = other_config
  BY DEF Sound, Begin, LoopHead, SendMessage, Sleep, Final
<1>2. th[i].pc \in Resting /\ th[i].why = "none"
  BY DEF Sound, Begin, LoopHead, SendMessage, Sleep, Final, Resting
<1>3. other_config'.docker_ps = Absent
  BY <1>1, <1>2 DEF Minds, Follows, Resting
<1>4. th'[i].pc # "set"
  <2>1. CASE Begin(i)
    BY <1>1, <2>1 DEF Begin, Goes, ToWipe, Shared, ThreadType
  <2>2. CASE LoopHead(i)
    BY <1>1, <2>2 DEF LoopHead, Goes, To, ToUpdate, Shared, ThreadType
  <2>3. CASE SendMessage(i)
    <3>1. PICK late \in BOOLEAN :
            th' = [th EXCEPT ![i] = [To(i, "sleep") EXCEPT !.message = @ \/ late]]
      BY <2>3 DEF SendMessage, Goes
    <3>2. th'[i].pc = "sleep"
      BY <1>1, <3>1 DEF To, Shared, ThreadType
    <3>3. QED BY <3>2
  <2>4. CASE Sleep(i)
    BY <1>1, <2>4 DEF Sleep, Goes, To, Shared, ThreadType
  <2>5. CASE Final(i)
    BY <2>5, AtRest DEF Final, Shared
  <2>6. QED BY <2>1, <2>2, <2>3, <2>4, <2>5
<1>5. QED BY <1>3, <1>4, MindsEither

LEMMA MindsRemove ==
    ASSUME Shared, NEW i \in Instances, Sound(th[i]), Minds(i), RemoveKey(i)
    PROVE  Minds(i)'
<1>1. /\ th[i] \in ThreadType /\ th[i].pc = "wipe" /\ th[i].left \in WipeLefts
      /\ other_config' = [other_config EXCEPT ![Head(th[i].left)] = Absent]
  BY DEF Sound, RemoveKey
<1>2. other_config'.docker_ps = Absent
  <2>1. CASE Head(th[i].left) = "docker_ps"
    BY <1>1, <2>1 DEF Shared, OtherConfig
  <2>2. CASE Head(th[i].left) # "docker_ps"
    <3>1. other_config.docker_ps = Absent
      BY <1>1, <2>2 DEF Minds, Follows, Sound
    <3>2. Head(th[i].left) \in DockerKeys
      BY <1>1, WipeLeft
    <3>3. QED BY <1>1, <2>2, <3>1, <3>2 DEF Shared, OtherConfig, DockerKeys
  <2>3. QED BY <2>1, <2>2
<1>3. th'[i].pc # "set"
  <2>1. \/ Goes(i, [th[i] EXCEPT !.left = Tail(th[i].left)])
        \/ Goes(i, Done(i, "head")) \/ Goes(i, Done(i, "sleep"))
        \/ Goes(i, Done(i, "failed")) \/ Ends(i)
    BY DEF RemoveKey
  <2>2. CASE Goes(i, [th[i] EXCEPT !.left = Tail(th[i].left)])
    BY <1>1, <2>2 DEF Goes, Shared, ThreadType
  <2>3. ASSUME NEW pc \in {"head", "sleep", "failed"}, Goes(i, Done(i, pc))
        PROVE  th'[i].pc # "set"
    BY <1>1, <2>3 DEF Goes, Done, Forget, To, Shared, ThreadType
  <2>4. CASE Ends(i)
    BY <1>1, <2>4, AtRest DEF Ends, Shared
  <2>5. QED BY <2>1, <2>2, <2>3, <2>4
<1>4. QED BY <1>2, <1>3, MindsEither

LEMMA MindNext ==
    ASSUME Alone, VMInv, MindInv, [Next]_vars
    PROVE  MindInv'
<1>1. /\ Calm /\ Clients = {} /\ \A i, j \in Instances : i = j
      /\ Shared /\ \A i \in Instances : Sound(th[i]) /\ Minds(i)
  BY DEF Alone, VMInv, MindInv
<1>2. CASE \E i \in Instances : ThreadStep(i)
  <2>1. PICK i \in Instances : ThreadStep(i)
    BY <1>2
  <2>2. Minds(i)'
    BY <1>1, <2>1, MindsUpdate, MindsListen, MindsRest, MindsRemove DEF ThreadStep
  <2>3. Instances # {} /\ \A j \in Instances : j = i
    BY <1>1
  <2>4. \A j \in Instances : Minds(j)'
    BY <2>2, <2>3
  <2>5. QED BY <2>3, <2>4 DEF MindInv
<1>3. ASSUME other_config' = other_config, NEW i \in Instances,
             th'[i].pc = th[i].pc, th'[i].why = th[i].why, th'[i].left = th[i].left,
             th'[i].snap = th[i].snap
      PROVE  Minds(i)'
  BY <1>1, <1>3 DEF Minds, Follows
<1>4. CASE /\ other_config' = other_config
           /\ \A i \in Instances : /\ th'[i].pc = th[i].pc /\ th'[i].why = th[i].why
                                   /\ th'[i].left = th[i].left /\ th'[i].snap = th[i].snap
  BY <1>3, <1>4 DEF MindInv
<1>5. CASE StartMonitoring
  <2>1. PICK i \in Instances \ Alive : th' = [th EXCEPT ![i].pc = "uuid"]
    BY <1>5 DEF StartMonitoring
  <2>2. /\ other_config' = other_config /\ th[i].pc = "idle" /\ th[i].why = "none"
        /\ th'[i].pc = "uuid"
    BY <1>1, <1>5, <2>1 DEF StartMonitoring, Alive, Sound, Resting, Shared, ThreadType
  <2>3. Minds(i)'
    BY <1>1, <2>2 DEF Minds, Follows
  <2>4. \A j \in Instances : Minds(j)'
    BY <1>1, <2>3
  <2>5. QED BY <2>2, <2>4 DEF MindInv
<1>6. CASE StopMonitoring \/ Boot \/ DockerStarts \/ UNCHANGED vars
  BY <1>4, <1>6 DEF StopMonitoring, Boot, DockerStarts, vars
<1>7. CASE Halt \/ DockerStops
  <2>1. th' = StreamsClose /\ other_config' = other_config
    BY <1>7 DEF Halt, DockerStops
  <2>2. \A i \in Instances : /\ th'[i].pc = th[i].pc /\ th'[i].why = th[i].why
                            /\ th'[i].left = th[i].left /\ th'[i].snap = th[i].snap
    BY <1>1, <2>1 DEF StreamsClose, Shared, ThreadType
  <2>3. QED BY <1>4, <2>1, <2>2
<1>8. CASE ContainersChange \/ ImageDeleted
  <2>1. PICK e \in {"container", "image"} : Tell(e) /\ other_config' = other_config
    BY <1>8 DEF ContainersChange, ImageDeleted, world
  <2>2. \A i \in Instances : /\ th'[i].pc = th[i].pc /\ th'[i].why = th[i].why
                            /\ th'[i].left = th[i].left /\ th'[i].snap = th[i].snap
    BY <1>1, <2>1 DEF Tell, Shared, ThreadType
  <2>3. QED BY <1>4, <2>1, <2>2
<1>9. ~MonitorEnds /\ \A i \in Instances : ~XapiFails(i) /\ ~Unexpected(i)
  BY <1>1 DEF Calm, MonitorEnds, XapiFails, Unexpected
<1>10. CASE Environment
  BY <1>1, <1>6, <1>7, <1>8, <1>9, <1>10 DEF Environment
<1>11. CASE Next
  BY <1>1, <1>2, <1>5, <1>6, <1>10, <1>11 DEF Next, MainStep
<1>12. QED BY <1>6, <1>11

(* As long as XAPI answers, nothing unexpected happens and one thread is   *)
(* the only writer: whatever Docker and the VM do, a list of containers is *)
(* in the VM record only while that thread listens for what would change   *)
(* it, and the list goes before the thread stops looking.                  *)
THEOREM PublishedFollowed == Alone => (Spec => []PublishedIsFollowed)
<1> SUFFICES ASSUME Alone
             PROVE  Spec => []PublishedIsFollowed
  OBVIOUS
<1>1. Init => MindInv
  BY AtRest DEF Init, MindInv, Minds, Empty, Idle
<1>2. VMInv /\ MindInv /\ [Next]_vars => MindInv'
  BY MindNext
<1>3. MindInv => PublishedIsFollowed
  BY DEF MindInv, Minds, PublishedIsFollowed
<1>4. QED BY <1>1, <1>2, <1>3, VMCorrect, PTL DEF Spec

=============================================================================
