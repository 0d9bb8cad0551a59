------------------------ MODULE DockerMonitorProofs ------------------------
(***************************************************************************)
(* The safety properties of DockerMonitor for any VMs, hosts, records,     *)
(* number of overlapping threads and session handles.                      *)
(***************************************************************************)
EXTENDS DockerMonitor, TLAPS

(***************************************************************************)
(* The typing part of every operation that touches registry and threads.   *)
(***************************************************************************)
(* process_vmrecord and process_vm_del keep the registry, the cache and    *)
(* the threads well typed, stop requests pending at running threads only.  *)
LEMMA ProcessTypes ==
    ASSUME TypeOK, NEW v \in VMs,
           \/ \E r \in Records : process_vmrecord(v, r)
           \/ process_vm_del(v)
    PROVE  /\ vms' \in [VMs -> Instances \cup {NoInstance}]
           /\ tls_secret_cache' \subseteq VMs
           /\ alive' \in [VMs -> SUBSET Instances]
           /\ stopreq' \in [VMs -> SUBSET Instances]
           /\ \A u \in VMs : stopreq'[u] \subseteq alive'[u]
<1>1. CASE process_vm_del(v)
  BY <1>1 DEF process_vm_del, TypeOK
<1>2. ASSUME NEW r \in Records, process_vmrecord(v, r)
      PROVE  /\ vms' \in [VMs -> Instances \cup {NoInstance}]
             /\ tls_secret_cache' \subseteq VMs
             /\ alive' \in [VMs -> SUBSET Instances]
             /\ stopreq' \in [VMs -> SUBSET Instances]
             /\ \A u \in VMs : stopreq'[u] \subseteq alive'[u]
  <2>1. tls_secret_cache' \subseteq VMs
    BY <1>2 DEF process_vmrecord, remember_tls_secrets, TypeOK
  <2>2. CASE start_monitoring(v)
    BY <2>1, <2>2 DEF start_monitoring, TypeOK
  <2>3. CASE stop_monitoring(v)
    BY <2>1, <2>3 DEF stop_monitoring, TypeOK
  <2>4. CASE UNCHANGED <<vms, alive, stopreq>>
    BY <2>1, <2>4 DEF TypeOK
  <2>5. QED BY <1>2, <2>2, <2>3, <2>4 DEF process_vmrecord
<1>3. QED BY <1>1, <1>2

(* The end of a process leaves a well-typed state. *)
LEMMA ProcessEndsTypes ==
    ASSUME TypeOK, NEW at \in PCs, ProcessEnds(at)
    PROVE  TypeOK'
BY DEF TypeOK, ProcessEnds, Nothing, NoRegistry, NoThreads

-----------------------------------------------------------------------------
(* Every state of the service is well typed, and a stop request is pending *)
(* only at a thread that runs.                                             *)
THEOREM TypeCorrect == Spec => []TypeOK
<1>1. Init => TypeOK
  BY DEF Init, TypeOK, PCs, Nothing, NoRegistry, NoThreads
<1>2. TypeOK /\ [Next]_vars => TypeOK'
  <2> SUFFICES ASSUME TypeOK, [Next]_vars
               PROVE  TypeOK'
    OBVIOUS
  <2> USE DEF xapiVars, loopVars, registryVars, threadVars
  <2>1. ASSUME NEW v \in VMs, ModifyVM(v) PROVE TypeOK'
    BY <2>1 DEF TypeOK, ModifyVM, Notify
  <2>2. ASSUME NEW v \in VMs, DestroyVM(v) PROVE TypeOK'
    BY <2>2 DEF TypeOK, DestroyVM, Notify
  <2>3. CASE XapiStops
    BY <2>3 DEF TypeOK, XapiStops
  <2>4. CASE XapiStarts
    BY <2>4 DEF TypeOK, XapiStarts
  <2>5. CASE Connect
    <3>1. /\ session' \in Sessions \cup {NoSession}
          /\ globalSession' \in Sessions \cup {NoSession}
          /\ validSessions' \subseteq Sessions
      BY <2>5 DEF TypeOK, Connect, Login
    <3>2. QED BY <2>5, <3>1 DEF TypeOK, Connect, PCs
  <2>6. CASE GetToken
    BY <2>6 DEF TypeOK, GetToken, PCs
  <2>7. CASE Refresh
    BY <2>7 DEF TypeOK, Refresh, PCs
  <2>8. ASSUME NEW v \in VMs, Process(v) PROVE TypeOK'
    <3>1. \/ \E r \in Records : process_vmrecord(v, r)
          \/ process_vm_del(v)
      BY <2>8 DEF Process, TypeOK
    <3>2. batch' \in [VMs -> Records \cup {Gone, NoEvent}]
      BY <2>8 DEF Process, TypeOK
    <3>3. UNCHANGED <<xapiVars, pc, session, globalSession, lockHeld, host>>
      BY <2>8 DEF Process
    <3>4. QED BY <3>1, <3>2, <3>3, ProcessTypes DEF TypeOK
  <2>9. CASE EventFrom
    BY <2>9 DEF TypeOK, EventFrom
  <2>10. CASE CallFails
    BY <2>10 DEF TypeOK, CallFails, PCs, Nothing
  <2>11. CASE Reconnect
    BY <2>11 DEF TypeOK, Reconnect, reinit_global_xapi_session, Login, PCs
  <2>12. CASE ReconnectRaises \/ Crash \/ Exit
    BY <2>12, ProcessEndsTypes DEF ReconnectRaises, Crash, Exit, PCs
  <2>13. CASE Signal
    BY <2>13 DEF TypeOK, Signal, tear_down_all, PCs, Nothing
  <2>14. CASE ServiceStart("exited") \/ ServiceStart("crashed")
    BY <2>14 DEF TypeOK, ServiceStart, PCs
  <2>15. ASSUME NEW v \in VMs, NEW i \in Instances,
                ThreadReturns(v, i) \/ ThreadDies(v, i)
         PROVE  TypeOK'
    BY <2>15 DEF TypeOK, ThreadReturns, ThreadDies, ThreadEnds
  <2>16. CASE ThreadReinit
    BY <2>16 DEF TypeOK, ThreadReinit, reinit_global_xapi_session, Login
  <2>17. CASE ThreadReinitRaises
    BY <2>17 DEF TypeOK, ThreadReinitRaises
  <2>18. CASE UNCHANGED vars
    BY <2>18 DEF TypeOK, vars
  <2>19. QED
    BY <2>1, <2>2, <2>3, <2>4, <2>5, <2>6, <2>7, <2>8, <2>9, <2>10, <2>11,
       <2>12, <2>13, <2>14, <2>15, <2>16, <2>17, <2>18
       DEF Next, Environment, MainLoop, Threads
<1>3. QED BY <1>1, <1>2, PTL DEF Spec

-----------------------------------------------------------------------------
(* Every action but three kinds leaves registry and threads alone, ends    *)
(* the process, or ends a thread.  What Process and Signal do is left to   *)
(* the proofs about them.                                                  *)
LEMMA ThreadSteps ==
    ASSUME TypeOK, [Next]_vars
    PROVE  \/ UNCHANGED <<vms, alive, stopreq>> /\ (pc = "teardown" <=> pc' = "teardown")
           \/ \E v \in VMs : Process(v)
           \/ Signal
           \/ \E at \in {"crashed", "exited"} : ProcessEnds(at)
           \/ \E v \in VMs, i \in Instances : ThreadEnds(v, i)
<1> USE DEF xapiVars, loopVars, registryVars, threadVars
<1>1. CASE Environment
  BY <1>1 DEF Environment, ModifyVM, DestroyVM, XapiStops, XapiStarts, Crash,
              ServiceStart
<1>2. CASE MainLoop
  BY <1>2 DEF MainLoop, Connect, GetToken, Refresh, EventFrom, CallFails,
              CallSessions, Reconnect, ReconnectRaises, Exit, ServiceStart
<1>3. CASE Threads
  BY <1>3 DEF Threads, ThreadReturns, ThreadDies, ThreadReinit,
              ThreadReinitRaises
<1>4. CASE UNCHANGED vars
  BY <1>4 DEF vars
<1>5. QED BY <1>1, <1>2, <1>3, <1>4 DEF Next

(* What must hold of registry and threads for each other's sake.           *)
Registry == NoOrphanThread /\ RegisteredNotStopped

(* A record or an event processed keeps them consistent.                   *)
LEMMA ProcessRegistry ==
    ASSUME TypeOK, Registry, NEW v \in VMs, Process(v)
    PROVE  Registry'
<1>1. CASE start_monitoring(v) /\ ~is_registered(v)
  <2>1. PICK i \in Instances \ alive[v] :
            /\ vms' = [vms EXCEPT ![v] = i]
            /\ alive' = [alive EXCEPT ![v] = @ \cup {i}]
            /\ stopreq' = stopreq
    BY <1>1 DEF start_monitoring
  <2>2. alive[v] \ stopreq[v] = {}
    BY <1>1, SentinelAssumption DEF Registry, NoOrphanThread, is_registered, TypeOK
  <2>3. QED
    BY <2>1, <2>2 DEF Process, Registry, NoOrphanThread, RegisteredNotStopped, TypeOK
<1>2. CASE stop_monitoring(v)
  BY <1>2, SentinelAssumption
     DEF stop_monitoring, Process, Registry, NoOrphanThread, RegisteredNotStopped, TypeOK
<1>3. CASE UNCHANGED <<vms, alive, stopreq>>
  BY <1>3 DEF Process, Registry, NoOrphanThread, RegisteredNotStopped
<1>4. QED
  BY <1>1, <1>2, <1>3 DEF Process, process_vmrecord, process_vm_del

(* At all times the threads that go on are those the registry knows, and   *)
(* until shutdown none of those it knows was told to stop.                 *)
THEOREM RegistryCorrect == Spec => [](NoOrphanThread /\ RegisteredNotStopped)
<1>1. Init => Registry
  BY SentinelAssumption
     DEF Init, Registry, NoOrphanThread, RegisteredNotStopped, NoRegistry, NoThreads
<1>2. TypeOK /\ Registry /\ [Next]_vars => Registry'
  <2> SUFFICES ASSUME TypeOK, Registry, [Next]_vars
               PROVE  Registry'
    OBVIOUS
  <2>1. CASE UNCHANGED <<vms, alive, stopreq>> /\ (pc = "teardown" <=> pc' = "teardown")
    BY <2>1 DEF Registry, NoOrphanThread, RegisteredNotStopped
  <2>2. CASE \E v \in VMs : Process(v)
    BY <2>2, ProcessRegistry
  <2>3. CASE Signal
    BY <2>3 DEF Signal, tear_down_all, registryVars, Registry, NoOrphanThread,
                RegisteredNotStopped, TypeOK
  <2>4. CASE \E at \in {"crashed", "exited"} : ProcessEnds(at)
    BY <2>4 DEF ProcessEnds, NoRegistry, NoThreads, Registry, NoOrphanThread,
                RegisteredNotStopped
  <2>5. ASSUME NEW v \in VMs, NEW i \in Instances, ThreadEnds(v, i)
        PROVE  Registry'
    BY <2>5 DEF ThreadEnds, loopVars, registryVars, Registry, NoOrphanThread,
                RegisteredNotStopped, TypeOK
  <2>6. QED BY <2>1, <2>2, <2>3, <2>4, <2>5, ThreadSteps
<1>3. QED BY <1>1, <1>2, TypeCorrect, PTL DEF Spec, Registry

(* The second half by itself: before shutdown no thread in the registry    *)
(* has been told to stop.                                                  *)
COROLLARY RegisteredRuns == Spec => []RegisteredNotStopped
BY RegistryCorrect, PTL

-----------------------------------------------------------------------------
(* What makes NoMissedChange inductive: as long as XAPI has no change of a *)
(* VM to report, what the loop holds of it, if anything, is its record.    *)
HeldIsCurrent ==
    pc = "work" =>
        \A v \in VMs : rec[v] # Gone /\ v \notin changed =>
                          batch[v] \in {NoEvent, rec[v]}

Current == HeldIsCurrent /\ NoMissedChange /\ SecretsRemembered

(* Processing a record or an event brings the registry and the cache of    *)
(* that VM up to date and does not touch the others.                       *)
LEMMA ProcessCurrent ==
    ASSUME TypeOK, Current, NEW v \in VMs, Process(v)
    PROVE  Current'
<1>1. /\ pc = "work" /\ pc' = "work"
      /\ rec' = rec /\ changed' = changed /\ host' = host
      /\ batch' = [batch EXCEPT ![v] = NoEvent]
  BY DEF Process, xapiVars
<1>2. HeldIsCurrent'
  BY <1>1 DEF Current, HeldIsCurrent, TypeOK
<1>3. \A u \in VMs \ {v} : UpToDate(u)' => UpToDate(u)
  BY <1>1 DEF UpToDate, TypeOK
<1>4. \A r : _should_monitor(r)' <=> _should_monitor(r)
  BY <1>1 DEF _should_monitor
<1>5. \A u \in VMs \ {v} : /\ is_registered(u)' <=> is_registered(u)
                           /\ u \in tls_secret_cache => u \in tls_secret_cache'
  BY DEF Process, process_vmrecord, process_vm_del, start_monitoring,
         stop_monitoring, remember_tls_secrets, is_registered, TypeOK
<1>6. ASSUME UpToDate(v)'
      PROVE  /\ is_registered(v)' <=> _should_monitor(rec[v])
             /\ rec[v].tls => v \in tls_secret_cache'
  <2>1. batch[v] = rec[v] /\ batch[v] # Gone
    BY <1>1, <1>6 DEF UpToDate, Current, HeldIsCurrent, Process
  <2>2. process_vmrecord(v, rec[v])
    BY <2>1 DEF Process
  <2>3. is_registered(v)' <=> _should_monitor(rec[v])
    BY <2>2, SentinelAssumption
       DEF process_vmrecord, start_monitoring, stop_monitoring, is_registered, TypeOK
  <2>4. rec[v].tls => v \in tls_secret_cache'
    BY <2>2 DEF process_vmrecord, remember_tls_secrets
  <2>5. QED BY <2>3, <2>4
<1>7. NoMissedChange'
  BY <1>1, <1>3, <1>4, <1>5, <1>6 DEF Current, NoMissedChange
<1>8. SecretsRemembered'
  BY <1>1, <1>3, <1>5, <1>6 DEF Current, SecretsRemembered
<1>9. QED BY <1>2, <1>7, <1>8 DEF Current

(* A change of a record is reported as long as the loop holds a token.     *)
LEMMA ChangeCurrent ==
    ASSUME TypeOK, Current, NEW v \in VMs, ModifyVM(v) \/ DestroyVM(v)
    PROVE  Current'
<1>1. /\ UNCHANGED <<pc, batch, host, vms, tls_secret_cache>>
      /\ \A u \in VMs \ {v} : rec'[u] = rec[u]
      /\ pc = "work" => changed' = changed \cup {v}
  BY DEF ModifyVM, DestroyVM, Notify, HoldsToken, loopVars, registryVars, TypeOK
<1>2. HeldIsCurrent'
  BY <1>1 DEF Current, HeldIsCurrent
<1>3. \A u \in VMs : UpToDate(u)' => u # v /\ UpToDate(u)
  BY <1>1 DEF UpToDate
<1>4. QED
  BY <1>1, <1>2, <1>3 DEF Current, NoMissedChange, SecretsRemembered,
                          is_registered, _should_monitor

(* No change is missed: the registry agrees with the current record of     *)
(* every VM the loop has dealt with, and that VM's TLS secrets are         *)
(* remembered.                                                             *)
THEOREM NothingMissed == Spec => [](NoMissedChange /\ SecretsRemembered)
<1>1. Init => Current
  BY DEF Init, Current, HeldIsCurrent, NoMissedChange, SecretsRemembered, UpToDate
<1>2. TypeOK /\ Current /\ [Next]_vars => Current'
  <2> SUFFICES ASSUME TypeOK, Current, [Next]_vars
               PROVE  Current'
    OBVIOUS
  <2> USE DEF xapiVars, loopVars, registryVars, threadVars
  <2>1. CASE \E v \in VMs : ModifyVM(v) \/ DestroyVM(v)
    BY <2>1, ChangeCurrent
  <2>2. CASE \E v \in VMs : Process(v)
    BY <2>2, ProcessCurrent
  <2>3. CASE pc' # "work"
    BY <2>3 DEF Current, HeldIsCurrent, NoMissedChange, SecretsRemembered, UpToDate
  <2>4. CASE Refresh
    BY <2>4, RecordsAssumption
       DEF Refresh, Current, HeldIsCurrent, NoMissedChange, SecretsRemembered,
           UpToDate, TypeOK
  <2>5. CASE EventFrom
    <3>1. \A v \in VMs : UpToDate(v)' => UpToDate(v) /\ v \notin changed
      BY <2>5, RecordsAssumption DEF EventFrom, UpToDate, Nothing, TypeOK
    <3>2. HeldIsCurrent'
      BY <2>5 DEF EventFrom, HeldIsCurrent
    <3>3. QED
      BY <2>5, <3>1, <3>2
         DEF EventFrom, Current, NoMissedChange, SecretsRemembered,
             is_registered, _should_monitor
  <2>6. CASE UNCHANGED <<pc, rec, changed, host, batch, vms, tls_secret_cache>>
    BY <2>6 DEF Current, HeldIsCurrent, NoMissedChange, SecretsRemembered,
                UpToDate, is_registered, _should_monitor
  <2>7. CASE Environment
    BY <2>1, <2>3, <2>6, <2>7
       DEF Environment, XapiStops, XapiStarts, Crash, Signal, ServiceStart,
           ProcessEnds
  <2>8. CASE MainLoop
    BY <2>2, <2>3, <2>4, <2>5, <2>8
       DEF MainLoop, Connect, GetToken, CallFails, Reconnect, ReconnectRaises,
           Exit, ServiceStart, ProcessEnds
  <2>9. CASE Threads
    BY <2>6, <2>9
       DEF Threads, ThreadReturns, ThreadDies, ThreadEnds, ThreadReinit,
           ThreadReinitRaises
  <2>10. CASE UNCHANGED vars
    BY <2>6, <2>10 DEF vars
  <2>11. QED BY <2>7, <2>8, <2>9, <2>10 DEF Next
<1>3. QED BY <1>1, <1>2, TypeCorrect, PTL DEF Spec, Current

(* The second half by itself: what a VM that is destroyed next leaves      *)
(* behind is known, monitored or not.                                      *)
COROLLARY SecretsKnown == Spec => []SecretsRemembered
BY NothingMissed, PTL

-----------------------------------------------------------------------------
(* The threads of every VM live as the abstract specification says: what   *)
(* the service does to the registry and the threads, in whatever order     *)
(* events, failures and restarts come, is a step of MonitorThread for each *)
(* VM, or leaves that VM's threads alone.                                  *)
THEOREM Implementation == Spec => ImplementsMonitorThread
<1> DEFINE Steps == \A v \in VMs : [Thread(v)!Next]_(Thread(v)!vars)
<1>1. Init => \A v \in VMs : Thread(v)!Init
  BY DEF Init, Thread!Init, NoRegistry, NoThreads
<1>2. TypeOK /\ [Next]_vars => Steps
  <2> SUFFICES ASSUME TypeOK, [Next]_vars, NEW v \in VMs
               PROVE  [Thread(v)!Next]_(Thread(v)!vars)
    OBVIOUS
  <2> USE DEF Thread!Next, Thread!vars
  <2>1. CASE UNCHANGED <<vms, alive, stopreq>>
    BY <2>1
  <2>2. ASSUME NEW u \in VMs, Process(u)
        PROVE  [Thread(v)!Next]_(Thread(v)!vars)
    <3>1. CASE u # v \/ UNCHANGED <<vms, alive, stopreq>>
      BY <2>2, <3>1
         DEF Process, process_vmrecord, process_vm_del, start_monitoring,
             stop_monitoring, TypeOK
    <3>2. CASE u = v /\ ~is_registered(v) /\ start_monitoring(v)
      BY <3>2 DEF start_monitoring, is_registered, TypeOK, Thread!Start
    <3>3. CASE u = v /\ is_registered(v) /\ stop_monitoring(v)
      BY <3>3 DEF stop_monitoring, is_registered, TypeOK, Thread!Stop
    <3>4. QED
      BY <2>2, <3>1, <3>2, <3>3 DEF Process, process_vmrecord, process_vm_del
  <2>3. CASE Signal
    BY <2>3 DEF Signal, tear_down_all, registryVars, TypeOK, Thread!TearDown
  <2>4. CASE \E at \in {"crashed", "exited"} : ProcessEnds(at)
    BY <2>4 DEF ProcessEnds, NoRegistry, NoThreads, Thread!Vanish
  <2>5. CASE Threads
    <3>1. ASSUME NEW u \in VMs, NEW i \in Instances,
                 ThreadReturns(u, i) \/ ThreadDies(u, i)
          PROVE  [Thread(v)!Next]_(Thread(v)!vars)
      BY <3>1 DEF ThreadReturns, ThreadDies, ThreadEnds, registryVars, TypeOK,
                  Thread!Returns, Thread!Dies, Thread!Ends
    <3>2. QED
      BY <2>1, <2>5, <3>1
         DEF Threads, ThreadReinit, ThreadReinitRaises, registryVars, threadVars
  <2>6. QED
    BY <2>1, <2>2, <2>3, <2>4, <2>5
       DEF Next, Environment, MainLoop, ModifyVM, DestroyVM, XapiStops,
           XapiStarts, Crash, Signal, ServiceStart, Connect, GetToken, Refresh,
           EventFrom, CallFails, Reconnect, ReconnectRaises, Exit, vars,
           registryVars, threadVars
<1>3. QED BY <1>1, <1>2, TypeCorrect, PTL DEF Spec, ImplementsMonitorThread

=============================================================================
