-------------------------- MODULE TlsSecretsProofs --------------------------
(***************************************************************************)
(* Proofs about TlsSecrets, for any pool: any VMs, hosts, calls, keys and  *)
(* number of secrets, and whatever fails or restarts.                      *)
(***************************************************************************)
EXTENDS TlsSecrets, TLAPS, FiniteSetTheorems

-----------------------------------------------------------------------------
(* TypeOK and what it rests on: secrets are numbered as they are created,  *)
(* so every reference is to one created before; a removal under way has    *)
(* the key it is about among those left.                                   *)
Known == 0..created

TidyType ==
    [pc : {"idle", "count", "destroy"}, vm : VMs \cup {"none"},
     left : SUBSET Keys, key : Keys \cup {"none"}]

CallType ==
    [pc : {"idle", "count", "destroy", "create", "update"},
     vm : VMs \cup {"none"}, old : [Keys -> Known], left : SUBSET Keys,
     key : Keys \cup {"none"}, new : [Keys -> Known]]

Types ==
    /\ living \subseteq VMs /\ fresh \subseteq VMs \ living /\ files \subseteq VMs
    /\ created \in 0..MaxSecrets /\ secrets \subseteq 1..created
    /\ tls \in [VMs -> [Keys -> Known]]
    /\ cache \in [Hosts -> [VMs -> [Keys -> Known]]]
    /\ changed \in [Hosts -> SUBSET VMs]
    /\ broken \subseteq VMs /\ disturbed \in BOOLEAN
    /\ tidy \in [Hosts -> TidyType]
    /\ call \in [Calls -> CallType]
    /\ \A h \in Hosts :
        /\ tidy[h].pc # "idle" => tidy[h].vm \in VMs /\ tidy[h].left # {}
        /\ tidy[h].pc = "destroy" => tidy[h].key \in tidy[h].left
    /\ \A c \in Calls :
        /\ call[c].pc # "idle" => call[c].vm \in VMs
        /\ call[c].pc = "destroy" => call[c].key \in call[c].left
        /\ call[c].pc = "create" => call[c].left # {}

LEMMA TypesImplyTypeOK ==
    ASSUME Types
    PROVE  TypeOK
<1>1. Known \subseteq Secrets \cup {0}
  BY TlsParametersAssumption DEF Types, Known, Secrets
<1>2. /\ tls \in [VMs -> [Keys -> Secrets \cup {0}]]
      /\ cache \in [Hosts -> [VMs -> [Keys -> Secrets \cup {0}]]]
  <2>1. \A f \in [Keys -> Known] : f \in [Keys -> Secrets \cup {0}]
    BY <1>1
  <2>2. \A f \in [VMs -> [Keys -> Known]] : f \in [VMs -> [Keys -> Secrets \cup {0}]]
    BY <2>1
  <2>3. \A h \in Hosts : cache[h] \in [VMs -> [Keys -> Secrets \cup {0}]]
    BY <2>2 DEF Types
  <2>. QED
    BY <2>2, <2>3 DEF Types
<1>3. \A h \in Hosts : tidy[h].left \in SUBSET Keys
  BY DEF Types, TidyType
<1>4. \A c \in Calls :
          call[c].pc \in {"idle", "count", "destroy", "create", "update"}
  BY DEF Types, CallType
<1>. QED
  BY <1>2, <1>3, <1>4 DEF Types, TypeOK

(* The steps that leave threads of a kind alone keep their types.          *)
LEMMA TidyNextTypes ==
    ASSUME Types, NEW h \in Hosts, tidy[h].pc # "idle",
           NEW k \in tidy[h].left, TidyNext(h, k)
    PROVE  /\ tidy' \in [Hosts -> TidyType]
           /\ cache' \in [Hosts -> [VMs -> [Keys -> Known]]]
           /\ \A g \in Hosts :
                /\ tidy'[g].pc # "idle" => tidy'[g].vm \in VMs /\ tidy'[g].left # {}
                /\ tidy'[g].pc = "destroy" => tidy'[g].key \in tidy'[g].left
<1>1. NoKeys \in [Keys -> Known] /\ NoTidy \in TidyType
  BY TlsParametersAssumption DEF NoKeys, NoTidy, Known, TidyType, Types
<1>2. tidy[h] \in TidyType /\ tidy[h].vm \in VMs
  BY DEF Types
<1>3. CASE tidy[h].left = {k}
  <2>1. /\ tidy' = [tidy EXCEPT ![h] = NoTidy]
        /\ cache' = [cache EXCEPT ![h][tidy[h].vm] = NoKeys]
    BY <1>3 DEF TidyNext
  <2>2. tidy' \in [Hosts -> TidyType] /\ NoTidy.pc = "idle"
    BY <1>1, <2>1 DEF Types, NoTidy
  <2>3. cache' \in [Hosts -> [VMs -> [Keys -> Known]]]
    BY <1>1, <1>2, <2>1 DEF Types
  <2>. QED
    BY <2>1, <2>2, <2>3 DEF Types
<1>4. CASE tidy[h].left # {k}
  <2> DEFINE t == [tidy[h] EXCEPT !.pc = "count", !.left = @ \ {k}, !.key = "none"]
  <2>1. tidy' = [tidy EXCEPT ![h] = t] /\ cache' = cache
    BY <1>4 DEF TidyNext
  <2>2. t \in TidyType /\ t.vm \in VMs /\ t.left # {} /\ t.pc = "count"
    BY <1>2, <1>4 DEF TidyType
  <2>. QED
    BY <2>1, <2>2 DEF Types
<1>. QED
  BY <1>3, <1>4

LEMMA CallTypes ==
    ASSUME Types, NEW c \in Calls, NEW t \in CallType, CallAt(c, t),
           t.pc # "idle" => t.vm \in VMs,
           t.pc = "destroy" => t.key \in t.left,
           t.pc = "create" => t.left # {}
    PROVE  /\ call' \in [Calls -> CallType]
           /\ \A d \in Calls :
                /\ call'[d].pc # "idle" => call'[d].vm \in VMs
                /\ call'[d].pc = "destroy" => call'[d].key \in call'[d].left
                /\ call'[d].pc = "create" => call'[d].left # {}
BY DEF CallAt, Types

LEMMA SetNextTypes ==
    ASSUME Types, NEW c \in Calls, call[c].pc \in {"count", "destroy"},
           NEW k \in call[c].left, SetNext(c, k)
    PROVE  /\ call' \in [Calls -> CallType]
           /\ \A d \in Calls :
                /\ call'[d].pc # "idle" => call'[d].vm \in VMs
                /\ call'[d].pc = "destroy" => call'[d].key \in call'[d].left
                /\ call'[d].pc = "create" => call'[d].left # {}
<1> DEFINE t == [call[c] EXCEPT !.pc = "count", !.left = @ \ {k}, !.key = "none"]
<1>1. call[c] \in CallType /\ call[c].vm \in VMs
  BY DEF Types
<1>2. t \in CallType /\ t.vm \in VMs /\ t.pc = "count"
  BY <1>1 DEF CallType
<1>3. Destroyed(t) \in CallType /\ Destroyed(t).vm \in VMs
      /\ Destroyed(t).pc \in {"count", "create"}
      /\ (Destroyed(t).pc = "create" => Destroyed(t).left # {})
  BY <1>2, TlsParametersAssumption DEF Destroyed, CallType
<1>4. CallAt(c, Destroyed(t))
  BY DEF SetNext
<1>. QED
  BY <1>3, <1>4, CallTypes

LEMMA InitTypes == Init => Types
<1> SUFFICES ASSUME Init PROVE Types
  OBVIOUS
<1>1. created = 0 /\ created \in 0..MaxSecrets
  BY TlsParametersAssumption DEF Init
<1>2. NoKeys \in [Keys -> Known]
  BY <1>1 DEF NoKeys, Known
<1>3. NoTidy \in TidyType /\ NoCall \in CallType
  BY <1>2 DEF NoTidy, NoCall, TidyType, CallType
<1>4. living \subseteq VMs
  BY TlsParametersAssumption DEF Init
<1>. QED
  BY <1>1, <1>2, <1>3, <1>4 DEF Init, Types, NoTidy, NoCall

(* Each action keeps the types. *)
LEMMA EnvironmentTypes ==
    ASSUME Types, Environment
    PROVE  Types'
<1> USE DEF vms
<1>1. ASSUME NEW v \in VMs, NEW w \in VMs, CloneVM(v, w)
      PROVE  Types'
  <2>1. tls' \in [VMs -> [Keys -> Known]]
    BY <1>1 DEF CloneVM, Types
  <2>2. living' \subseteq VMs /\ fresh' \subseteq VMs \ living' /\ broken' \subseteq VMs
    BY <1>1 DEF CloneVM, Types
  <2>3. UNCHANGED <<secrets, created, files, cache, changed, tidy, call, disturbed>>
    BY <1>1 DEF CloneVM
  <2>4. Known' = Known /\ CallType' = CallType
    BY <2>3 DEF Known, CallType
  <2>. QED
    BY <2>1, <2>2, <2>3, <2>4 DEF Types
<1>2. ASSUME NEW v \in VMs, ModifyVM(v) \/ DestroyVM(v)
      PROVE  Types'
  <2>1. living' \subseteq living
        /\ UNCHANGED <<fresh, tls, secrets, created, files, cache, tidy, call,
                       broken, disturbed>>
    BY <1>2 DEF ModifyVM, DestroyVM
  <2>2. changed' \in [Hosts -> SUBSET VMs]
    BY <1>2 DEF ModifyVM, DestroyVM, Tell, Types
  <2>. QED
    BY <2>1, <2>2 DEF Types, Known, CallType
<1>3. ASSUME NEW v \in VMs, export_for_vm(v)
      PROVE  Types'
  BY <1>3 DEF export_for_vm, Types, Known, CallType
<1>4. ASSUME NEW h \in Hosts, Reconnect(h) \/ Restart(h)
      PROVE  Types'
  <2>1. NoKeys \in [Keys -> Known] /\ NoTidy \in TidyType /\ NoTidy.pc = "idle"
    BY DEF NoKeys, Known, Types, NoTidy, TidyType
  <2>2. [v \in VMs |-> NoKeys] \in [VMs -> [Keys -> Known]]
    BY <2>1
  <2>3. cache' \in [Hosts -> [VMs -> [Keys -> Known]]]
    BY <1>4, <2>2 DEF Reconnect, Restart, Types
  <2>4. tidy' = [tidy EXCEPT ![h] = NoTidy] /\ created' = created
    BY <1>4 DEF Reconnect, Restart
  <2>5. tidy' \in [Hosts -> TidyType]
        /\ \A g \in Hosts : tidy'[g] = NoTidy \/ tidy'[g] = tidy[g]
    BY <2>1, <2>4 DEF Types
  <2>6. UNCHANGED <<living, fresh, tls, secrets, files, call, broken>>
        /\ changed' \in [Hosts -> SUBSET VMs] /\ disturbed' = TRUE
    BY <1>4 DEF Reconnect, Restart, Types
  <2>. QED
    BY <2>1, <2>3, <2>4, <2>5, <2>6 DEF Types, Known, CallType
<1>5. ASSUME NEW c \in Calls, NEW v \in VMs, SetBegin(c, v)
      PROVE  Types'
  <2> DEFINE t == [NoCall EXCEPT !.pc = "count", !.vm = v,
                                 !.old = tls[v], !.left = KeysOf(tls[v])]
  <2>1. NoKeys \in [Keys -> Known] /\ tls[v] \in [Keys -> Known]
    BY DEF NoKeys, Known, Types
  <2>2. t \in CallType /\ t.vm \in VMs /\ t.pc = "count"
    BY <2>1 DEF NoCall, CallType, KeysOf
  <2>3. Destroyed(t) \in CallType /\ Destroyed(t).vm \in VMs
        /\ Destroyed(t).pc \in {"count", "create"}
        /\ (Destroyed(t).pc = "create" => Destroyed(t).left # {})
    BY <2>2, TlsParametersAssumption DEF Destroyed, CallType
  <2>4. CallAt(c, Destroyed(t))
        /\ UNCHANGED <<vms, secrets, created, files, cache, changed, tidy,
                       broken, disturbed>>
    BY <1>5 DEF SetBegin
  <2>5. /\ call' \in [Calls -> CallType]
        /\ \A d \in Calls :
             /\ call'[d].pc # "idle" => call'[d].vm \in VMs
             /\ call'[d].pc = "destroy" => call'[d].key \in call'[d].left
             /\ call'[d].pc = "create" => call'[d].left # {}
    BY <2>3, <2>4, CallTypes
  <2>. QED
    BY <2>4, <2>5 DEF Types, Known, CallType
<1>6. ASSUME NEW c \in Calls, SetFails(c)
      PROVE  Types'
  <2>1. NoCall \in CallType /\ NoCall.pc = "idle"
    BY DEF NoCall, NoKeys, Known, CallType, Types
  <2>2. /\ call[c].vm \in VMs
        /\ call' \in [Calls -> CallType]
        /\ \A d \in Calls :
             /\ call'[d].pc # "idle" => call'[d].vm \in VMs
             /\ call'[d].pc = "destroy" => call'[d].key \in call'[d].left
             /\ call'[d].pc = "create" => call'[d].left # {}
    BY <1>6, <2>1, CallTypes DEF SetFails, SetRaises, Types
  <2>. QED
    BY <1>6, <2>2 DEF SetFails, SetRaises, Types, Known, CallType
<1>. QED
  BY <1>1, <1>2, <1>3, <1>4, <1>5, <1>6 DEF Environment

LEMMA MonitorTypes ==
    ASSUME Types, NEW h \in Hosts, MonitorStep(h)
    PROVE  Types'
<1> USE DEF vms
<1>1. ASSUME NEW v \in VMs, Remember(h, v)
      PROVE  Types'
  <2>1. cache' \in [Hosts -> [VMs -> [Keys -> Known]]]
    <3> DEFINE new == [k \in Keys |-> IF tls[v][k] # 0 THEN tls[v][k]
                                                       ELSE cache[h][v][k]]
    <3>1. new \in [Keys -> Known]
      BY DEF Types
    <3>2. cache' = [cache EXCEPT ![h][v] = new]
      BY <1>1 DEF Remember, Types
    <3>. QED
      BY <3>1, <3>2 DEF Types
  <2>. QED
    BY <1>1, <2>1 DEF Remember, Types, Known, CallType
<1>2. ASSUME NEW v \in VMs, process_vm_del(h, v)
      PROVE  Types'
  <2> DEFINE t == [NoTidy EXCEPT !.pc = "count", !.vm = v,
                                 !.left = KeysOf(cache[h][v])]
  <2>1. NoTidy \in TidyType /\ NoTidy.pc = "idle"
    BY DEF NoTidy, TidyType
  <2>2. t \in TidyType /\ t.vm \in VMs /\ t.pc = "count"
    BY <2>1 DEF NoTidy, TidyType, KeysOf
  <2>3. ASSUME cache[h][v] # NoKeys PROVE KeysOf(cache[h][v]) # {}
    <3>1. cache[h][v] \in [Keys -> Known]
      BY DEF Types
    <3>. QED
      BY <2>3, <3>1 DEF NoKeys, KeysOf
  <2>4. \/ cache[h][v] = NoKeys /\ tidy' = [tidy EXCEPT ![h] = NoTidy]
        \/ t.left # {} /\ tidy' = [tidy EXCEPT ![h] = t]
    BY <1>2, <2>3 DEF process_vm_del, NoTidy
  <2>5. /\ tidy' \in [Hosts -> TidyType]
        /\ \A g \in Hosts :
             /\ tidy'[g].pc # "idle" => tidy'[g].vm \in VMs /\ tidy'[g].left # {}
             /\ tidy'[g].pc = "destroy" => tidy'[g].key \in tidy'[g].left
    BY <2>1, <2>2, <2>4 DEF Types
  <2>. QED
    BY <1>2, <2>5 DEF process_vm_del, Types, Known, CallType
<1>3. CASE TidyCount(h)
  <2>1. tidy[h] \in TidyType /\ tidy[h].pc = "count"
    BY <1>3 DEF TidyCount, Types
  <2>2. PICK k \in tidy[h].left :
            \/ /\ tidy' = [tidy EXCEPT ![h] = [tidy[h] EXCEPT !.pc = "destroy", !.key = k]]
               /\ cache' = cache
            \/ TidyNext(h, k)
    BY <1>3 DEF TidyCount, Types
  <2>3. /\ tidy' \in [Hosts -> TidyType]
        /\ cache' \in [Hosts -> [VMs -> [Keys -> Known]]]
        /\ \A g \in Hosts :
             /\ tidy'[g].pc # "idle" => tidy'[g].vm \in VMs /\ tidy'[g].left # {}
             /\ tidy'[g].pc = "destroy" => tidy'[g].key \in tidy'[g].left
    <3>1. CASE TidyNext(h, k)
      BY <2>1, <3>1, TidyNextTypes
    <3>2. CASE tidy' = [tidy EXCEPT ![h] = [tidy[h] EXCEPT !.pc = "destroy", !.key = k]]
               /\ cache' = cache
      <4> DEFINE t == [tidy[h] EXCEPT !.pc = "destroy", !.key = k]
      <4>1. t \in TidyType /\ t.vm \in VMs /\ t.key \in t.left
        BY <2>1 DEF TidyType, Types
      <4>. QED
        BY <3>2, <4>1 DEF Types
    <3>. QED
      BY <2>2, <3>1, <3>2
  <2>. QED
    BY <1>3, <2>3 DEF TidyCount, Types, Known, CallType
<1>4. CASE TidyDestroy(h)
  <2>1. /\ tidy' \in [Hosts -> TidyType]
        /\ cache' \in [Hosts -> [VMs -> [Keys -> Known]]]
        /\ \A g \in Hosts :
             /\ tidy'[g].pc # "idle" => tidy'[g].vm \in VMs /\ tidy'[g].left # {}
             /\ tidy'[g].pc = "destroy" => tidy'[g].key \in tidy'[g].left
    BY <1>4, TidyNextTypes DEF TidyDestroy, Types
  <2>. QED
    BY <1>4, <2>1 DEF TidyDestroy, Destroy, Types, Known, CallType
<1>. QED
  BY <1>1, <1>2, <1>3, <1>4 DEF MonitorStep, process_event

LEMMA CallStepTypes ==
    ASSUME Types, NEW c \in Calls, CallStep(c)
    PROVE  Types'
<1> USE DEF vms
<1> DEFINE Calls_ == /\ call' \in [Calls -> CallType]
                     /\ \A d \in Calls :
                          /\ call'[d].pc # "idle" => call'[d].vm \in VMs
                          /\ call'[d].pc = "destroy" => call'[d].key \in call'[d].left
                          /\ call'[d].pc = "create" => call'[d].left # {}
<1>1. call[c] \in CallType /\ (call[c].pc # "idle" => call[c].vm \in VMs)
  BY DEF Types
<1>2. NoCall \in CallType /\ NoCall.pc = "idle"
  BY DEF NoCall, NoKeys, Known, CallType, Types
<1>3. CASE SetCount(c)
  <2>1. PICK k \in call[c].left :
            \/ CallAt(c, [call[c] EXCEPT !.pc = "destroy", !.key = k])
            \/ SetNext(c, k)
    BY <1>3 DEF SetCount
  <2>2. Calls_
    <3>1. CASE SetNext(c, k)
      BY <1>3, <3>1, SetNextTypes DEF SetCount
    <3>2. CASE CallAt(c, [call[c] EXCEPT !.pc = "destroy", !.key = k])
      <4> DEFINE t == [call[c] EXCEPT !.pc = "destroy", !.key = k]
      <4>1. t \in CallType /\ t.vm \in VMs /\ t.key \in t.left /\ t.pc = "destroy"
        BY <1>1, <1>3 DEF CallType, SetCount
      <4>. QED
        BY <3>2, <4>1, CallTypes
    <3>. QED
      BY <2>1, <3>1, <3>2
  <2>. QED
    BY <1>3, <2>2 DEF SetCount, Types, Known, CallType
<1>4. CASE SetDestroy(c)
  <2>1. Calls_
    BY <1>4, SetNextTypes DEF SetDestroy, Types
  <2>. QED
    BY <1>4, <2>1 DEF SetDestroy, Destroy, Types, Known, CallType
<1>5. CASE SetCreate(c)
  <2>1. Known \subseteq Known' /\ created' \in Known' /\ created' \in 0..MaxSecrets
        /\ secrets' \subseteq 1..created'
    BY <1>5, TlsParametersAssumption DEF SetCreate, Types, Known
  <2>2. PICK k \in call[c].left :
            call' = [call EXCEPT ![c] =
                       [call[c] EXCEPT !.new[k] = created', !.left = @ \ {k},
                                       !.pc = IF call[c].left = {k} THEN "update"
                                                                    ELSE @]]
    BY <1>5 DEF SetCreate, CallAt
  <2>3. \A f \in [Keys -> Known] : f \in [Keys -> Known']
    BY <2>1
  <2>4. \A t \in CallType : t \in CallType'
    BY <2>3 DEF CallType
  <2> DEFINE t == [call[c] EXCEPT !.new[k] = created', !.left = @ \ {k},
                                  !.pc = IF call[c].left = {k} THEN "update" ELSE @]
  <2>5. t \in CallType' /\ t.vm \in VMs /\ (t.pc = "create" => t.left # {})
        /\ t.pc # "destroy"
    <3>1. call[c].new \in [Keys -> Known'] /\ call[c].old \in [Keys -> Known'] /\ k \in Keys
      BY <1>1, <2>3 DEF CallType
    <3>2. [call[c].new EXCEPT ![k] = created'] \in [Keys -> Known']
      BY <2>1, <3>1
    <3>3. call[c] \in CallType' /\ call[c].pc = "create" /\ call[c].vm \in VMs
      BY <1>1, <1>5, <2>4 DEF SetCreate
    <3>4. /\ t.pc \in {"create", "update"} /\ t.vm = call[c].vm
          /\ t.left = call[c].left \ {k}
          /\ t.pc = "create" => call[c].left # {k}
      BY <3>3 DEF CallType
    <3>5. t \in CallType'
      BY <3>1, <3>2, <3>3 DEF CallType
    <3>. QED
      BY <3>3, <3>4, <3>5
  <2>6. /\ call' \in [Calls -> CallType']
        /\ \A d \in Calls :
             /\ call'[d].pc # "idle" => call'[d].vm \in VMs
             /\ call'[d].pc = "destroy" => call'[d].key \in call'[d].left
             /\ call'[d].pc = "create" => call'[d].left # {}
    BY <2>2, <2>4, <2>5 DEF Types
  <2>7. tls' \in [VMs -> [Keys -> Known']]
    BY <1>5, <2>3 DEF SetCreate, Types
  <2>8. cache' \in [Hosts -> [VMs -> [Keys -> Known']]]
    <3>1. \A f \in [VMs -> [Keys -> Known]] : f \in [VMs -> [Keys -> Known']]
      BY <2>3
    <3>. QED
      BY <1>5, <3>1 DEF SetCreate, Types
  <2>. QED
    BY <1>5, <2>1, <2>6, <2>7, <2>8 DEF SetCreate, Types, TidyType
<1>6. CASE SetUpdate(c)
  <2>1. Calls_
    BY <1>2, <1>6, CallTypes DEF SetUpdate, SetRaises
  <2>2. tls' \in [VMs -> [Keys -> Known]]
    BY <1>1, <1>6 DEF SetUpdate, Types, CallType
  <2>3. changed' \in [Hosts -> SUBSET VMs]
    BY <1>1, <1>6 DEF SetUpdate, Tell, Types
  <2>4. broken' \subseteq VMs
    BY <1>1, <1>6 DEF SetUpdate, SetRaises, Types
  <2>. QED
    BY <1>6, <2>1, <2>2, <2>3, <2>4 DEF SetUpdate, Types, Known, CallType
<1>. QED
  BY <1>3, <1>4, <1>5, <1>6 DEF CallStep

LEMMA TypesInvariant == Spec => []Types
<1>1. Types /\ [Next]_vars => Types'
  <2>1. CASE UNCHANGED vars
    BY <2>1 DEF vars, Types, Known, CallType
  <2>. QED
    BY <2>1, EnvironmentTypes, MonitorTypes, CallStepTypes DEF Next
<1>. QED
  BY <1>1, InitTypes, PTL DEF Spec

(* Every state of the pool is well typed, and a removal of secrets that is *)
(* under way, on any host, has something to remove.                        *)
THEOREM TypeCorrect == Spec => []TypeOK
<1>. QED
  BY TypesInvariant, TypesImplyTypeOK, PTL DEF Spec

-----------------------------------------------------------------------------
(* InUseKept, as long as nobody clones or destroys a VM that is being      *)
(* given new secrets.  Why a secret that was counted can be destroyed a    *)
(* step later takes four facts: secrets are nobody's but the call's until  *)
(* the call writes them; two calls work on two VMs, whose secrets they     *)
(* read stay; and the one about to go is referred to by nobody ...         *)
Private ==
    \A c \in Calls, k \in Keys : call[c].new[k] # 0 =>
        /\ call[c].new[k] \in secrets
        /\ \A v \in VMs, j \in Keys : tls[v][j] # call[c].new[k]
        /\ \A h \in Hosts, v \in VMs, j \in Keys : cache[h][v][j] # call[c].new[k]
        /\ \A d \in Calls, j \in Keys :
             /\ call[d].old[j] # call[c].new[k]
             /\ d # c => call[d].new[j] # call[c].new[k]

Apart ==
    \A c \in Calls : call[c].pc # "idle" =>
        /\ call[c].vm \in living
        /\ tls[call[c].vm] = call[c].old
        /\ \A d \in Calls \ {c} : call[d].pc # "idle" => call[d].vm # call[c].vm

(* ... but the VM of the call, or by no VM at all.                         *)
CallTarget ==
    \A c \in Calls : call[c].pc = "destroy" =>
        \A w \in living : call[c].old[call[c].key] \in In(tls[w]) => w = call[c].vm

TidyTarget ==
    \A h \in Hosts : tidy[h].pc = "destroy" =>
        \A w \in living : cache[h][tidy[h].vm][tidy[h].key] \notin In(tls[w])

Kept == Private /\ Apart /\ CallTarget /\ TidyTarget /\ InUseKept

(* What the count of references says.                                      *)
LEMMA Unreferenced ==
    ASSUME Types, NEW s, Removable(s, 0), NEW w \in living
    PROVE  s \notin In(tls[w])
<1>1. IsFiniteSet(References(s))
  <2>1. IsFiniteSet(living \X Keys)
    BY TlsParametersAssumption, FS_Subset, FS_Product DEF Types
  <2>. QED
    BY <2>1, FS_Subset DEF References
<1>2. References(s) = {}
  BY <1>1, FS_CardinalityType, FS_EmptySet DEF Removable, _get_refcount
<1>3. ASSUME NEW k \in Keys, tls[w][k] = s PROVE FALSE
  <2>1. <<w, k>> \in References(s)
    BY <1>3 DEF References
  <2>. QED
    BY <1>2, <2>1
<1>. QED
  BY <1>3 DEF In

LEMMA ReferencedOnce ==
    ASSUME Types, NEW v \in living, NEW k \in Keys, Removable(tls[v][k], 1),
           NEW w \in living, tls[v][k] \in In(tls[w])
    PROVE  w = v
<1> DEFINE s == tls[v][k]
<1>1. IsFiniteSet(References(s))
  <2>1. IsFiniteSet(living \X Keys)
    BY TlsParametersAssumption, FS_Subset, FS_Product DEF Types
  <2>. QED
    BY <2>1, FS_Subset DEF References
<1>2. <<v, k>> \in References(s)
  BY DEF References
<1>3. PICK j \in Keys : tls[w][j] = s
  BY DEF In
<1>4. <<w, j>> \in References(s)
  BY <1>3 DEF References
<1>5. Cardinality(References(s)) = 1
  <2>1. Cardinality(References(s)) \in Nat /\ Cardinality(References(s)) <= 1
    BY <1>1, FS_CardinalityType DEF Removable, _get_refcount
  <2>2. Cardinality(References(s)) # 0
    BY <1>1, <1>2, FS_EmptySet
  <2>. QED
    BY <2>1, <2>2
<1>6. PICK r : References(s) = {r}
  BY <1>1, <1>5, FS_Singleton
<1>7. <<w, j>> = <<v, k>>
  BY <1>2, <1>4, <1>6
<1>. QED
  BY <1>7

LEMMA InitKept == Init => Kept
<1> SUFFICES ASSUME Init PROVE Kept
  OBVIOUS
<1>1. /\ \A c \in Calls : call[c].pc = "idle" /\ \A k \in Keys : call[c].new[k] = 0
      /\ \A h \in Hosts : tidy[h].pc = "idle"
  BY DEF Init, NoCall, NoTidy, NoKeys
<1>2. living \subseteq VMs /\ \A v \in VMs : In(tls[v]) = {}
  BY TlsParametersAssumption DEF Init, NoKeys, In
<1>. QED
  BY <1>1, <1>2 DEF Kept, Private, Apart, CallTarget, TidyTarget, InUseKept

(* What others do to VMs: none of them is one a call works on. *)
LEMMA OthersKeep ==
    ASSUME "overlap" \notin Faults, Types, Kept,
           \/ \E v, w \in VMs : CloneVM(v, w)
           \/ \E v \in VMs : ModifyVM(v) \/ DestroyVM(v) \/ export_for_vm(v)
    PROVE  Kept'
<1> USE DEF vms
<1>1. ASSUME NEW v \in VMs, NEW w \in VMs, CloneVM(v, w)
      PROVE  Kept'
  <2>1. /\ v \in living /\ w \notin living /\ ~Busy(v)
        /\ living' = living \cup {w}
        /\ \A u \in living : tls'[u] = tls[u]
        /\ tls'[w] = tls[v]
        /\ broken \subseteq broken' /\ (v \in broken => w \in broken')
        /\ UNCHANGED <<secrets, cache, tidy, call>>
        /\ \A u \in VMs : tls'[u] = tls[u] \/ tls'[u] = tls[v]
    BY <1>1 DEF CloneVM, Undisturbed, Types
  <2>2. Private'
    BY <2>1 DEF Kept, Private
  <2>3. Apart'
    BY <2>1 DEF Kept, Apart
  <2>4. CallTarget'
    BY <2>1 DEF Kept, CallTarget, Busy
  <2>5. TidyTarget'
    BY <2>1 DEF Kept, TidyTarget
  <2>6. InUseKept'
    BY <2>1 DEF Kept, InUseKept, Busy
  <2>. QED
    BY <2>2, <2>3, <2>4, <2>5, <2>6 DEF Kept
<1>2. ASSUME NEW v \in VMs, DestroyVM(v)
      PROVE  Kept'
  <2>1. /\ ~Busy(v) /\ living' = living \ {v}
        /\ UNCHANGED <<tls, secrets, cache, tidy, call, broken>>
    BY <1>2 DEF DestroyVM, Undisturbed
  <2>. QED
    BY <2>1 DEF Kept, Private, Apart, CallTarget, TidyTarget, InUseKept, Busy
<1>3. ASSUME NEW v \in VMs, ModifyVM(v) \/ export_for_vm(v)
      PROVE  Kept'
  <2>1. UNCHANGED <<living, tls, secrets, cache, tidy, call, broken>>
    BY <1>3 DEF ModifyVM, export_for_vm
  <2>. QED
    BY <2>1 DEF Kept, Private, Apart, CallTarget, TidyTarget, InUseKept, Busy
<1>. QED
  BY <1>1, <1>2, <1>3

(* The monitors: what one destroys nobody refers to, and is no call's. *)
LEMMA MonitorKeeps ==
    ASSUME Types, Kept, NEW h \in Hosts,
           MonitorStep(h) \/ Reconnect(h) \/ Restart(h)
    PROVE  Kept'
<1> USE DEF vms
<1>1. UNCHANGED <<living, tls, call, broken>>
  BY DEF MonitorStep, process_event, Remember, process_vm_del, TidyCount,
         TidyDestroy, Reconnect, Restart
<1>2. Apart' /\ CallTarget'
  BY <1>1 DEF Kept, Apart, CallTarget
<1>3. \A g \in Hosts, v \in VMs, j \in Keys :
          cache'[g][v][j] \in {cache[g][v][j], tls[v][j], 0}
  <2>1. ASSUME NEW v \in VMs, Remember(h, v)
        PROVE  \A g \in Hosts, u \in VMs, j \in Keys :
                   cache'[g][u][j] \in {cache[g][u][j], tls[u][j], 0}
    <3>1. cache' = [cache EXCEPT ![h] = [cache[h] EXCEPT ![v] =
                      [k \in Keys |-> IF tls[v][k] # 0 THEN tls[v][k]
                                                       ELSE cache[h][v][k]]]]
      BY <2>1 DEF Remember, Types
    <3>. QED
      BY <3>1 DEF Types
  <2>2. ASSUME NEW v \in VMs, process_vm_del(h, v)
        PROVE  cache' = cache
    BY <2>2 DEF process_vm_del
  <2>3. ASSUME NEW k, tidy[h].pc # "idle", TidyNext(h, k)
        PROVE  \A g \in Hosts, u \in VMs, j \in Keys :
                   cache'[g][u][j] \in {cache[g][u][j], 0}
    <3>1. CASE cache' = cache
      BY <3>1
    <3>2. CASE cache' = [cache EXCEPT ![h] = [cache[h] EXCEPT ![tidy[h].vm] = NoKeys]]
      BY <2>3, <3>2 DEF Types, NoKeys
    <3>. QED
      BY <2>3, <3>1, <3>2 DEF TidyNext, Types
  <2>4. CASE TidyCount(h) \/ TidyDestroy(h)
    <3>1. cache' = cache \/ \E k : TidyNext(h, k)
      BY <2>4 DEF TidyCount, TidyDestroy
    <3>2. tidy[h].pc # "idle"
      BY <2>4 DEF TidyCount, TidyDestroy
    <3>. QED
      BY <2>3, <3>1, <3>2
  <2>5. CASE Reconnect(h) \/ Restart(h)
    <3>1. CASE Restart(h)
      <4>1. cache' = [cache EXCEPT ![h] = [v \in VMs |-> NoKeys]]
        BY <3>1 DEF Restart
      <4>. QED
        BY <4>1 DEF Types, NoKeys
    <3>. QED
      BY <2>5, <3>1 DEF Reconnect
  <2>. QED
    BY <2>1, <2>2, <2>4, <2>5 DEF MonitorStep, process_event
<1>4. \/ secrets' = secrets
      \/ /\ tidy[h].pc = "destroy"
         /\ secrets' = secrets \ {cache[h][tidy[h].vm][tidy[h].key]}
  BY DEF MonitorStep, process_event, Remember, process_vm_del, TidyCount,
         TidyDestroy, Destroy, Reconnect, Restart
<1>5. tidy[h].pc = "destroy" => tidy[h].vm \in VMs /\ tidy[h].key \in Keys
  BY DEF Types, TidyType
<1>6. Private'
  <2> SUFFICES ASSUME NEW c \in Calls, NEW k \in Keys, call[c].new[k] # 0
               PROVE  /\ call[c].new[k] \in secrets'
                      /\ \A v \in VMs, j \in Keys : tls[v][j] # call[c].new[k]
                      /\ \A g \in Hosts, v \in VMs, j \in Keys :
                            cache'[g][v][j] # call[c].new[k]
                      /\ \A d \in Calls, j \in Keys :
                           /\ call[d].old[j] # call[c].new[k]
                           /\ d # c => call[d].new[j] # call[c].new[k]
    BY <1>1 DEF Private
  <2>. QED
    BY <1>3, <1>4, <1>5 DEF Kept, Private
<1>7. InUseKept'
  BY <1>1, <1>4 DEF Kept, InUseKept, TidyTarget, Busy
<1>8. TidyTarget'
  <2>1. ASSUME NEW g \in Hosts \ {h} PROVE tidy'[g] = tidy[g] /\ cache'[g] = cache[g]
    BY DEF MonitorStep, process_event, Remember, process_vm_del, TidyCount,
           TidyDestroy, TidyNext, Reconnect, Restart, Types
  <2>2. tidy'[h].pc = "destroy" =>
            /\ cache' = cache
            /\ tidy'[h].key \in Keys
            /\ Removable(cache[h][tidy'[h].vm][tidy'[h].key], 0)
    <3>1. \A v : Remember(h, v) => tidy'[h].pc # "destroy"
      BY DEF Remember, Types
    <3>2. \A v : process_vm_del(h, v) => tidy'[h].pc # "destroy"
      BY DEF process_vm_del, Types, NoTidy
    <3>3. ASSUME NEW k, TidyNext(h, k) PROVE tidy'[h].pc # "destroy"
      <4>1. tidy[h] \in TidyType
        BY DEF Types
      <4>2. \/ tidy'[h] = NoTidy
            \/ tidy'[h] = [tidy[h] EXCEPT !.pc = "count", !.left = @ \ {k}, !.key = "none"]
        BY <3>3 DEF TidyNext, Types
      <4>3. NoTidy.pc = "idle"
        BY DEF NoTidy
      <4>4. [tidy[h] EXCEPT !.pc = "count", !.left = @ \ {k}, !.key = "none"].pc = "count"
        BY <4>1 DEF TidyType
      <4>. QED
        BY <4>2, <4>3, <4>4
    <3>4. CASE TidyDestroy(h)
      BY <3>3, <3>4 DEF TidyDestroy
    <3>5. CASE Reconnect(h) \/ Restart(h)
      BY <3>5 DEF Reconnect, Restart, Types, NoTidy
    <3>6. CASE TidyCount(h)
      <4>1. PICK k \in tidy[h].left :
              IF Removable(cache[h][tidy[h].vm][k], 0)
                THEN /\ tidy' = [tidy EXCEPT ![h].pc = "destroy", ![h].key = k]
                     /\ cache' = cache
                ELSE TidyNext(h, k)
        BY <3>6 DEF TidyCount
      <4>2. tidy[h] \in TidyType /\ k \in Keys
        BY DEF Types, TidyType
      <4>3. CASE Removable(cache[h][tidy[h].vm][k], 0)
        <5>1. tidy' = [tidy EXCEPT ![h] = [tidy[h] EXCEPT !.pc = "destroy", !.key = k]]
              /\ cache' = cache
          BY <4>1, <4>3 DEF Types
        <5>2. tidy'[h].vm = tidy[h].vm /\ tidy'[h].key = k
          BY <4>2, <5>1 DEF Types, TidyType
        <5>. QED
          BY <4>2, <4>3, <5>1, <5>2
      <4>4. CASE ~Removable(cache[h][tidy[h].vm][k], 0)
        BY <3>3, <4>1, <4>4
      <4>. QED
        BY <4>3, <4>4
    <3>. QED
      BY <3>1, <3>2, <3>4, <3>5, <3>6 DEF MonitorStep, process_event
  <2>. QED
    BY <1>1, <2>1, <2>2, Unreferenced DEF Kept, TidyTarget
<1>. QED
  BY <1>2, <1>6, <1>7, <1>8 DEF Kept

(* A call that starts has a VM for itself. *)
LEMMA BeginKeeps ==
    ASSUME "overlap" \notin Faults, Types, Kept,
           NEW c \in Calls, NEW v \in VMs, SetBegin(c, v)
    PROVE  Kept'
<1> USE DEF vms
<1> DEFINE t == [NoCall EXCEPT !.pc = "count", !.vm = v,
                               !.old = tls[v], !.left = KeysOf(tls[v])]
<1>1. /\ UNCHANGED <<living, tls, secrets, cache, tidy, broken>>
      /\ call' = [call EXCEPT ![c] = Destroyed(t)]
      /\ v \in living /\ ~Busy(v) /\ call[c].pc = "idle"
  BY DEF SetBegin, CallAt, Undisturbed
<1>2. /\ Destroyed(t).pc \in {"count", "create"} /\ Destroyed(t).vm = v
      /\ Destroyed(t).old = tls[v] /\ Destroyed(t).new = NoKeys
  BY DEF Destroyed, NoCall
<1>3. /\ call'[c].pc \in {"count", "create"} /\ call'[c].vm = v
      /\ call'[c].old = tls[v] /\ \A k \in Keys : call'[c].new[k] = 0
      /\ \A d \in Calls \ {c} : call'[d] = call[d]
  BY <1>1, <1>2 DEF Types, NoKeys
<1>4. Private'
  BY <1>1, <1>3 DEF Kept, Private, Types
<1>5. Apart'
  BY <1>1, <1>3 DEF Kept, Apart, Busy
<1>6. CallTarget'
  BY <1>1, <1>3 DEF Kept, CallTarget
<1>7. TidyTarget'
  BY <1>1 DEF Kept, TidyTarget
<1>8. InUseKept'
  <2>1. \A u \in VMs : Busy(u) => Busy(u)'
    BY <1>1, <1>3 DEF Busy
  <2>. QED
    BY <1>1, <2>1 DEF Kept, InUseKept, Types
<1>. QED
  BY <1>4, <1>5, <1>6, <1>7, <1>8 DEF Kept

(* While it removes secrets it keeps its VM, and creates nothing. *)
LEMMA RemovalKeeps ==
    ASSUME Types, Kept, NEW c \in Calls, SetCount(c) \/ SetDestroy(c)
    PROVE  Kept'
<1> USE DEF vms
<1>1. UNCHANGED <<living, tls, cache, tidy, broken>>
  BY DEF SetCount, SetDestroy
<1>2. call[c] \in CallType /\ call[c].pc \in {"count", "destroy"}
  BY DEF SetCount, SetDestroy, Types
<1>3. /\ call'[c].pc # "idle"
      /\ call'[c].vm = call[c].vm /\ call'[c].old = call[c].old
      /\ call'[c].new = call[c].new
      /\ \A d \in Calls \ {c} : call'[d] = call[d]
      /\ call'[c].pc = "destroy" =>
            /\ call'[c].key \in Keys
            /\ Removable(call[c].old[call'[c].key], 1)
  <2>1. ASSUME NEW k, SetNext(c, k)
        PROVE  /\ call'[c].pc \in {"count", "create"}
               /\ call'[c].vm = call[c].vm /\ call'[c].old = call[c].old
               /\ call'[c].new = call[c].new
               /\ \A d \in Calls \ {c} : call'[d] = call[d]
    <3> DEFINE t == [call[c] EXCEPT !.pc = "count", !.left = @ \ {k}, !.key = "none"]
    <3>1. t.pc = "count" /\ t.vm = call[c].vm /\ t.old = call[c].old
          /\ t.new = call[c].new /\ t.left = call[c].left \ {k}
          /\ t.key = "none" /\ t \in CallType
      BY <1>2 DEF CallType
    <3>2. call' = [call EXCEPT ![c] = Destroyed(t)]
      BY <2>1 DEF SetNext, CallAt
    <3>3. /\ Destroyed(t).pc \in {"count", "create"} /\ Destroyed(t).vm = t.vm
          /\ Destroyed(t).old = t.old /\ Destroyed(t).new = t.new
      BY <3>1 DEF Destroyed, CallType
    <3>. QED
      BY <3>1, <3>2, <3>3 DEF Types
  <2>2. CASE SetCount(c)
    <3>1. PICK k \in call[c].left :
            IF Removable(call[c].old[k], 1)
              THEN CallAt(c, [call[c] EXCEPT !.pc = "destroy", !.key = k])
              ELSE SetNext(c, k)
      BY <2>2 DEF SetCount
    <3>2. CASE Removable(call[c].old[k], 1)
      <4> DEFINE t == [call[c] EXCEPT !.pc = "destroy", !.key = k]
      <4>1. t.pc = "destroy" /\ t.vm = call[c].vm /\ t.old = call[c].old
            /\ t.new = call[c].new /\ t.key = k /\ k \in Keys
        BY <1>2 DEF CallType
      <4>2. call' = [call EXCEPT ![c] = t]
        BY <3>1, <3>2 DEF CallAt
      <4>. QED
        BY <3>2, <4>1, <4>2 DEF Types
    <3>. QED
      BY <2>1, <3>1, <3>2
  <2>3. CASE SetDestroy(c)
    BY <2>1, <2>3 DEF SetDestroy
  <2>. QED
    BY <2>2, <2>3
<1>4. \/ secrets' = secrets
      \/ /\ call[c].pc = "destroy"
         /\ secrets' = secrets \ {call[c].old[call[c].key]}
  BY DEF SetCount, SetDestroy, Destroy
<1>5. call[c].pc = "destroy" => call[c].key \in Keys
  BY <1>2 DEF Types, CallType
<1>6. Private'
  <2>1. \A d \in Calls : call'[d].new = call[d].new /\ call'[d].old = call[d].old
    BY <1>3
  <2>. QED
    BY <1>1, <1>4, <1>5, <2>1 DEF Kept, Private
<1>7. Apart'
  BY <1>1, <1>2, <1>3 DEF Kept, Apart
<1>8. CallTarget'
  <2>1. call[c].vm \in living /\ tls[call[c].vm] = call[c].old
    BY <1>2 DEF Kept, Apart
  <2>2. call'[c].pc = "destroy" =>
            \A w \in living : call[c].old[call'[c].key] \in In(tls[w]) => w = call[c].vm
    BY <1>3, <2>1, ReferencedOnce
  <2>. QED
    BY <1>1, <1>3, <2>2 DEF Kept, CallTarget
<1>9. TidyTarget'
  BY <1>1 DEF Kept, TidyTarget
<1>10. InUseKept'
  <2>1. Busy(call[c].vm)' /\ \A u \in VMs : Busy(u) => Busy(u)'
    BY <1>2, <1>3 DEF Busy
  <2> SUFFICES ASSUME NEW v \in living, v \notin broken, ~Busy(v)'
               PROVE  In(tls[v]) \subseteq secrets'
    BY <1>1, Zenon DEF InUseKept, In
  <2>2. v \in VMs /\ v # call[c].vm /\ ~Busy(v)
    <3>1. v \in VMs
      BY DEF Types
    <3>2. v # call[c].vm
      BY <1>3 DEF Busy
    <3>. QED
      BY <2>1, <3>1, <3>2
  <2>3. In(tls[v]) \subseteq secrets
    BY <2>2 DEF Kept, InUseKept
  <2>4. call[c].pc = "destroy" => call[c].old[call[c].key] \notin In(tls[v])
    BY <2>2 DEF Kept, CallTarget
  <2>. QED
    BY <1>4, <2>3, <2>4
<1>. QED
  BY <1>6, <1>7, <1>8, <1>9, <1>10 DEF Kept

(* The secret it creates is new to everybody. *)
LEMMA CreationKeeps ==
    ASSUME Types, Kept, NEW c \in Calls, SetCreate(c)
    PROVE  Kept'
<1> USE DEF vms
<1>1. /\ UNCHANGED <<living, tls, cache, tidy, broken>>
      /\ secrets' = secrets \cup {created + 1} /\ call[c].pc = "create"
  BY DEF SetCreate
<1>2. PICK k \in call[c].left :
          call' = [call EXCEPT ![c] =
                     [call[c] EXCEPT !.new[k] = created + 1, !.left = @ \ {k},
                                     !.pc = IF call[c].left = {k} THEN "update"
                                                                  ELSE @]]
  BY DEF SetCreate, CallAt
<1>3. call[c] \in CallType
  BY DEF Types
<1>4. /\ call'[c].pc \in {"create", "update"}
      /\ call'[c].vm = call[c].vm /\ call'[c].old = call[c].old
      /\ call'[c].new = [call[c].new EXCEPT ![k] = created + 1]
      /\ \A d \in Calls \ {c} : call'[d] = call[d]
  <2> DEFINE t == [call[c] EXCEPT !.new[k] = created + 1, !.left = @ \ {k},
                                  !.pc = IF call[c].left = {k} THEN "update" ELSE @]
  <2>1. t.pc \in {"create", "update"} /\ t.vm = call[c].vm /\ t.old = call[c].old
        /\ t.new = [call[c].new EXCEPT ![k] = created + 1]
    BY <1>1, <1>3 DEF CallType
  <2>. QED
    BY <1>2, <2>1 DEF Types
<1>5. /\ \A v \in VMs, j \in Keys : tls[v][j] # created + 1
      /\ \A h \in Hosts, v \in VMs, j \in Keys : cache[h][v][j] # created + 1
      /\ \A d \in Calls, j \in Keys :
            call[d].old[j] # created + 1 /\ call[d].new[j] # created + 1
  BY DEF Types, Known, CallType
<1>6. \A j \in Keys :
          call'[c].new[j] = IF j = k THEN created + 1 ELSE call[c].new[j]
  BY <1>3, <1>4 DEF CallType
<1>7. Private'
  <2>1. ASSUME NEW d \in Calls, NEW j \in Keys, call'[d].new[j] # 0
        PROVE  (call'[d].new[j] = created + 1 /\ d = c)
               \/ call'[d].new[j] = call[d].new[j]
    BY <1>4, <1>6
  <2>2. \A d \in Calls : call'[d].old = call[d].old
    BY <1>4
  <2>. QED
    BY <1>1, <1>4, <1>5, <1>6, <2>1, <2>2 DEF Kept, Private
<1>8. Apart'
  BY <1>1, <1>4 DEF Kept, Apart
<1>9. CallTarget'
  BY <1>1, <1>4 DEF Kept, CallTarget
<1>10. TidyTarget'
  BY <1>1 DEF Kept, TidyTarget
<1>11. InUseKept'
  <2>1. \A u \in VMs : Busy(u) => Busy(u)'
    BY <1>4 DEF Busy
  <2>. QED
    BY <1>1, <2>1 DEF Kept, InUseKept, Types
<1>. QED
  BY <1>7, <1>8, <1>9, <1>10, <1>11 DEF Kept

(* When it is over, its VM has the new secrets, or is broken. *)
LEMMA EndKeeps ==
    ASSUME Types, Kept, NEW c \in Calls, SetUpdate(c) \/ SetFails(c)
    PROVE  Kept'
<1> USE DEF vms
<1> DEFINE v == call[c].vm
<1>1. /\ v \in living /\ v \in VMs /\ call[c].pc # "idle"
      /\ \A d \in Calls \ {c} : call[d].pc # "idle" => call[d].vm # v
  BY DEF SetUpdate, SetFails, Kept, Apart, Types
<1>2. /\ UNCHANGED <<living, secrets, cache, tidy>>
      /\ call' = [call EXCEPT ![c] = NoCall]
      /\ \/ tls' = [tls EXCEPT ![v] = call[c].new] /\ broken' = broken \ {v}
         \/ tls' = tls /\ broken' = broken \cup {v}
  BY <1>1 DEF SetUpdate, SetFails, SetRaises, CallAt
<1>3. /\ call'[c].pc = "idle" /\ \A k \in Keys : call'[c].new[k] = 0 /\ call'[c].old[k] = 0
      /\ \A d \in Calls \ {c} : call'[d] = call[d]
  BY <1>2 DEF NoCall, NoKeys, Types
<1>4. \A u \in VMs, j \in Keys :
          tls'[u][j] = tls[u][j] \/ (u = v /\ tls'[u][j] = call[c].new[j])
  BY <1>2 DEF Types
<1>5. \A u \in VMs \ {v} : tls'[u] = tls[u]
  BY <1>2 DEF Types
<1>6. Private'
  BY <1>2, <1>3, <1>4 DEF Kept, Private
<1>7. Apart'
  BY <1>1, <1>2, <1>3, <1>5 DEF Kept, Apart, Types
<1>8. \/ tls'[v] = tls[v] /\ v \in broken'
      \/ tls'[v] = call[c].new
  BY <1>1, <1>2 DEF Types
<1>9. ASSUME NEW s, s \in In(call[c].new)
      PROVE  s \in secrets
             /\ (\A h \in Hosts, u \in VMs, j \in Keys : cache[h][u][j] # s)
             /\ (\A d \in Calls, j \in Keys : call[d].old[j] # s)
  BY <1>9 DEF In, Kept, Private
<1>10. CallTarget'
  <2>1. \A d \in Calls : call[d].pc = "destroy" => call[d].key \in Keys
    BY DEF Types, CallType
  <2> SUFFICES ASSUME NEW d \in Calls, call'[d].pc = "destroy", NEW w \in living,
                      call'[d].old[call'[d].key] \in In(tls[w])'
               PROVE  w = call'[d].vm
    BY <1>2 DEF CallTarget
  <2>2. d # c /\ call'[d] = call[d] /\ call[d].key \in Keys /\ call[d].pc = "destroy"
    BY <1>3, <2>1
  <2>3. In(tls[w])' = In(tls'[w])
    BY DEF In
  <2>4. call[d].old[call[d].key] \notin In(call[c].new)
    BY <1>9, <2>2
  <2>5. call[d].old[call[d].key] \in In(tls[w])
    <3>1. tls'[w] = tls[w] \/ tls'[w] = call[c].new
      BY <1>5, <1>8 DEF Types
    <3>2. call[d].old[call[d].key] \in In(tls'[w])
      BY <2>2, <2>3
    <3>. QED
      BY <2>4, <3>1, <3>2
  <2>. QED
    BY <2>2, <2>5 DEF Kept, CallTarget
<1>11. TidyTarget'
  <2>1. \A h \in Hosts : tidy[h].pc = "destroy" =>
            tidy[h].vm \in VMs /\ tidy[h].key \in Keys
    BY DEF Types, TidyType
  <2>. QED
    BY <1>2, <1>5, <1>8, <1>9, <2>1 DEF Kept, TidyTarget, Types
<1>12. InUseKept'
  <2>1. \A u \in VMs \ {v} : Busy(u) => Busy(u)'
    BY <1>3 DEF Busy
  <2>. QED
    BY <1>2, <1>5, <1>8, <1>9, <2>1 DEF Kept, InUseKept, Types
<1>. QED
  BY <1>6, <1>7, <1>10, <1>11, <1>12 DEF Kept

(* Whoever tidies after whatever VM, on any host of any pool, and whatever *)
(* fails meanwhile: the secrets a VM refers to are there, unless a         *)
(* set_for_vm of its own is under way or failed - as long as nobody clones *)
(* or destroys the VM meanwhile.  (remove_if_refcount_less_or_equal)       *)
THEOREM SecretsInUse ==
    ASSUME "overlap" \notin Faults
    PROVE  Spec => []InUseKept
<1>1. Types /\ Kept /\ [Next]_vars => Kept'
  <2> SUFFICES ASSUME Types, Kept, [Next]_vars PROVE Kept'
    OBVIOUS
  <2>1. CASE UNCHANGED vars
    BY <2>1 DEF vars, Kept, Private, Apart, CallTarget, TidyTarget, InUseKept, Busy
  <2>2. CASE \E h \in Hosts : MonitorStep(h)
    BY <2>2, MonitorKeeps
  <2>3. CASE \E c \in Calls : CallStep(c)
    BY <2>3, RemovalKeeps, CreationKeeps, EndKeeps DEF CallStep
  <2>4. CASE Environment
    BY <2>4, OthersKeep, MonitorKeeps, BeginKeeps, EndKeeps DEF Environment
  <2>. QED
    BY <2>1, <2>2, <2>3, <2>4 DEF Next
<1>2. Kept => InUseKept
  BY DEF Kept
<1>. QED
  BY <1>1, <1>2, InitKept, TypesInvariant, PTL DEF Spec

-----------------------------------------------------------------------------
(***************************************************************************)
(* NothingForgotten                                                        *)
(***************************************************************************)
(* The call t has looked at its key k: the old secret was destroyed, or    *)
(* kept because others refer to it.                                        *)
Dealt(t, k) ==
    \/ t.pc \in {"create", "update"}
    \/ t.pc \in {"count", "destroy"} /\ k \notin t.left

(* What a call holds, and when. *)
Blank ==
    \A c \in Calls :
        /\ call[c].pc = "idle" => call[c].old = NoKeys
        /\ call[c].pc \in {"idle", "count", "destroy"} => call[c].new = NoKeys
        /\ call[c].pc = "create" => \A k \in call[c].left : call[c].new[k] = 0

(* Two calls under way replace different secrets. *)
Parted ==
    \A c, d \in Calls, k, j \in Keys :
        c # d /\ call[c].old[k] # 0 => call[c].old[k] # call[d].old[j]

(* No VM refers to a secret by two keys. *)
Distinct ==
    /\ \A v \in living, k, j \in Keys : tls[v][k] # 0 /\ tls[v][k] = tls[v][j] => k = j
    /\ \A c \in Calls, k, j \in Keys :
          call[c].new[k] # 0 /\ call[c].new[k] = call[c].new[j] => k = j

(* Monitors have no events of VMs to come, and none of a VM they tidy      *)
(* after, which is gone.                                                   *)
Passed ==
    \A h \in Hosts :
        /\ changed[h] \cap fresh = {}
        /\ tidy[h].pc # "idle" => tidy[h].vm \notin living \cup fresh \cup changed[h]

(* An old secret a call has spared is the secret of another VM. *)
Spared ==
    \A c \in Calls, k \in Keys :
        Dealt(call[c], k) /\ call[c].old[k] \in secrets =>
            \E w \in living \ {call[c].vm} : call[c].old[k] \in In(tls[w])

Traced == \A s \in secrets : InUse(s) \/ Held(s) \/ Pending(s)

Order == Blank /\ Parted /\ Distinct /\ Passed /\ (broken # {} => disturbed)

Remembers == Order /\ (disturbed \/ (Spared /\ Traced))

LEMMA ReferencedElsewhere ==
    ASSUME Types, Distinct, NEW v \in living, NEW k \in Keys,
           tls[v][k] # 0, ~Removable(tls[v][k], 1)
    PROVE  \E w \in living \ {v} : tls[v][k] \in In(tls[w])
<1> SUFFICES ASSUME \A w \in living \ {v} : tls[v][k] \notin In(tls[w])
             PROVE  FALSE
  OBVIOUS
<1>1. ASSUME NEW r \in References(tls[v][k])
      PROVE  r = <<v, k>>
  <2>1. PICK w \in living, j \in Keys : r = <<w, j>> /\ tls[w][j] = tls[v][k]
    BY DEF References
  <2>2. tls[v][k] \in In(tls[w])
    BY <2>1 DEF In
  <2>3. w = v
    BY <2>2
  <2>. QED
    BY <2>1, <2>3 DEF Distinct
<1>2. <<v, k>> \in References(tls[v][k])
  BY DEF References
<1>3. References(tls[v][k]) = {<<v, k>>}
  BY <1>1, <1>2
<1>4. Cardinality(References(tls[v][k])) = 1
  BY <1>3, FS_Singleton
<1>. QED
  BY <1>4 DEF Removable, _get_refcount

LEMMA ReferencedSomewhere ==
    ASSUME NEW s, s # 0, ~Removable(s, 0)
    PROVE  InUse(s)
<1>1. References(s) # {}
  BY FS_EmptySet DEF Removable, _get_refcount
<1>2. PICK w \in living, j \in Keys : tls[w][j] = s
  BY <1>1 DEF References
<1>. QED
  BY <1>2 DEF InUse, In

(* What others do to VMs: the secrets of a VM that is destroyed some       *)
(* monitor has seen, and is told of the end of the VM.                     *)
LEMMA OthersRemember ==
    ASSUME "overlap" \notin Faults, "unseen" \notin Faults, Types, Kept, Remembers,
           \/ \E v, w \in VMs : CloneVM(v, w)
           \/ \E v \in VMs : ModifyVM(v) \/ DestroyVM(v) \/ export_for_vm(v)
    PROVE  Remembers'
<1> USE DEF vms
<1>1. Order /\ (disturbed \/ (Spared /\ Traced))
  BY DEF Remembers
<1>2. ASSUME NEW v \in VMs, NEW w \in VMs, CloneVM(v, w)
      PROVE  Remembers'
  <2>1. /\ v \in living /\ w \in fresh /\ w \notin living
        /\ living' = living \cup {w} /\ fresh' = fresh \ {w}
        /\ \A u \in living : tls'[u] = tls[u]
        /\ tls'[w] = tls[v]
        /\ broken' # {} => broken # {}
        /\ UNCHANGED <<secrets, cache, changed, tidy, call, disturbed>>
    BY <1>2 DEF CloneVM, Types
  <2>2. Order'
    <3>1. Distinct'
      BY <1>1, <2>1 DEF Order, Distinct
    <3>2. Passed'
      BY <1>1, <2>1 DEF Order, Passed
    <3>. QED
      BY <1>1, <2>1, <3>1, <3>2 DEF Order, Blank, Parted
  <2>3. Spared => Spared'
    BY <2>1 DEF Spared, In
  <2>4. Traced => Traced'
    <3> SUFFICES ASSUME Traced, NEW s \in secrets
                 PROVE  InUse(s)' \/ Held(s)' \/ Pending(s)'
      BY <2>1 DEF Traced
    <3>1. InUse(s) => InUse(s)'
      BY <2>1 DEF InUse, In
    <3>2. Held(s) => Held(s)'
      BY <2>1 DEF Held, In
    <3>3. Pending(s) => Pending(s)'
      BY <1>1, <2>1 DEF Pending, In, Order, Passed
    <3>. QED
      BY <3>1, <3>2, <3>3 DEF Traced
  <2>. QED
    BY <1>1, <2>1, <2>2, <2>3, <2>4 DEF Remembers
<1>3. ASSUME NEW v \in VMs, DestroyVM(v)
      PROVE  Remembers'
  <2>1. /\ v \in living /\ living' = living \ {v} /\ Undisturbed(v) /\ Seen(v)
        /\ \A h \in Hosts : changed'[h] = changed[h] \cup {v}
        /\ UNCHANGED <<fresh, tls, secrets, cache, tidy, call, broken, disturbed>>
    BY <1>3 DEF DestroyVM, Tell
  <2>2. Order'
    <3>1. Distinct'
      BY <1>1, <2>1 DEF Order, Distinct
    <3>2. Passed'
      BY <1>1, <2>1 DEF Order, Passed, Types
    <3>. QED
      BY <1>1, <2>1, <3>1, <3>2 DEF Order, Blank, Parted
  <2>3. Spared => Spared'
    <3> SUFFICES ASSUME Spared, NEW c \in Calls, NEW k \in Keys,
                        Dealt(call[c], k), call[c].old[k] \in secrets
                 PROVE  \E w \in living \ {v, call[c].vm} : call[c].old[k] \in In(tls[w])
      BY <2>1 DEF Spared, In
    <3>1. PICK w \in living \ {call[c].vm} : call[c].old[k] \in In(tls[w])
      BY DEF Spared
    <3>2. w # v
      <4>1. call[c].pc # "idle"
        BY DEF Dealt
      <4>2. /\ call[c].vm \in living /\ tls[call[c].vm] = call[c].old /\ Busy(call[c].vm)
        BY <4>1 DEF Kept, Apart, Busy
      <4>3. ~Shares(v, call[c].vm)
        BY <2>1, <4>2 DEF Undisturbed
      <4>4. call[c].old[k] \in In(tls[call[c].vm])
        BY <3>1, <4>2 DEF In
      <4>. QED
        BY <3>1, <4>3, <4>4 DEF Shares
    <3>. QED
      BY <3>1, <3>2
  <2>4. Traced => Traced'
    <3> SUFFICES ASSUME Traced, NEW s \in secrets
                 PROVE  InUse(s)' \/ Held(s)' \/ Pending(s)'
      BY <2>1 DEF Traced
    <3>1. Held(s) => Held(s)'
      BY <2>1 DEF Held, In
    <3>2. Pending(s) => Pending(s)'
      BY <2>1 DEF Pending, In
    <3>3. CASE s \in In(tls[v])
      <4>1. PICK k \in Keys : tls[v][k] = s /\ s # 0
        BY <3>3 DEF In
      <4>2. PICK h \in Hosts : \A j \in KeysOf(tls[v]) : cache[h][v][j] = tls[v][j]
        BY <2>1 DEF Seen
      <4>3. s \in In(cache'[h][v]) /\ v \in changed'[h] /\ v \in VMs \ living'
        BY <2>1, <4>1, <4>2 DEF KeysOf, In
      <4>. QED
        BY <4>3 DEF Pending, In
    <3>4. ASSUME InUse(s), s \notin In(tls[v])
          PROVE  InUse(s)'
      BY <2>1, <3>4 DEF InUse, In
    <3>. QED
      BY <3>1, <3>2, <3>3, <3>4 DEF Traced
  <2>. QED
    BY <1>1, <2>1, <2>2, <2>3, <2>4 DEF Remembers
<1>4. ASSUME NEW v \in VMs, ModifyVM(v) \/ export_for_vm(v)
      PROVE  Remembers'
  <2>1. /\ v \in living
        /\ \A h \in Hosts : changed[h] \subseteq changed'[h] /\ changed'[h] \subseteq changed[h] \cup {v}
        /\ UNCHANGED <<living, fresh, tls, secrets, cache, tidy, call, broken, disturbed>>
    BY <1>4 DEF ModifyVM, export_for_vm, Tell
  <2>2. Order'
    <3>1. Passed'
      BY <1>1, <2>1 DEF Order, Passed, Types
    <3>. QED
      BY <1>1, <2>1, <3>1 DEF Order, Blank, Parted, Distinct
  <2>3. Spared => Spared'
    BY <2>1 DEF Spared, In
  <2>4. Traced => Traced'
    BY <2>1 DEF Traced, InUse, Held, Pending, In
  <2>. QED
    BY <1>1, <2>1, <2>2, <2>3, <2>4 DEF Remembers
<1>. QED
  BY <1>2, <1>3, <1>4

(* When a monitor is done with a key, only the secret of that key is no    *)
(* longer on its list.                                                     *)
LEMMA TidyNextPending ==
    ASSUME Types, Passed, NEW h \in Hosts, tidy[h].pc # "idle",
           NEW k \in tidy[h].left, TidyNext(h, k), UNCHANGED <<living, changed>>,
           NEW s, Pending(s), s # cache[h][tidy[h].vm][k]
    PROVE  Pending(s)'
<1>1. PICK g \in Hosts, v \in VMs \ living :
        \/ v \in changed[g] /\ s \in In(cache[g][v])
        \/ /\ tidy[g].pc # "idle" /\ tidy[g].vm = v
           /\ \E j \in tidy[g].left : cache[g][v][j] = s
  BY DEF Pending
<1>2. CASE g # h
  <2>1. tidy'[g] = tidy[g] /\ cache'[g] = cache[g]
    BY <1>2 DEF TidyNext, Types
  <2>. QED
    BY <1>1, <2>1 DEF Pending, In
<1>3. CASE g = h /\ v \in changed[h] /\ s \in In(cache[h][v])
  <2>1. v # tidy[h].vm
    BY <1>3 DEF Passed
  <2>2. cache'[h][v] = cache[h][v]
    BY <2>1 DEF TidyNext, Types
  <2>. QED
    BY <1>3, <2>2 DEF Pending, In
<1>4. CASE g = h /\ tidy[h].vm = v /\ \E j \in tidy[h].left : cache[h][v][j] = s
  <2>1. PICK j \in tidy[h].left : cache[h][v][j] = s
    BY <1>4
  <2>2. j # k
    BY <1>4, <2>1
  <2>3. /\ tidy' = [tidy EXCEPT ![h] = [tidy[h] EXCEPT !.pc = "count",
                                          !.left = @ \ {k}, !.key = "none"]]
        /\ cache' = cache
    BY <2>1, <2>2 DEF TidyNext
  <2>4. tidy'[h].pc = "count" /\ tidy'[h].vm = v /\ j \in tidy'[h].left
    BY <1>4, <2>1, <2>2, <2>3 DEF Types, TidyType
  <2>. QED
    BY <1>4, <2>1, <2>3, <2>4 DEF Pending
<1>. QED
  BY <1>1, <1>2, <1>3, <1>4

LEMMA TidyNextPassed ==
    ASSUME Types, Passed, NEW h \in Hosts, tidy[h].pc # "idle",
           NEW k \in tidy[h].left, TidyNext(h, k), UNCHANGED <<living, fresh, changed>>
    PROVE  Passed'
<1>1. tidy[h] \in TidyType
  BY DEF Types
<1>2. CASE tidy' = [tidy EXCEPT ![h] = NoTidy]
  BY <1>2 DEF Passed, Types, NoTidy
<1>3. CASE tidy' = [tidy EXCEPT ![h] = [tidy[h] EXCEPT !.pc = "count", !.left = @ \ {k},
                                          !.key = "none"]]
  <2>1. tidy'[h].vm = tidy[h].vm /\ \A g \in Hosts \ {h} : tidy'[g] = tidy[g]
    BY <1>1, <1>3 DEF Types, TidyType
  <2>. QED
    BY <2>1 DEF Passed
<1>. QED
  BY <1>2, <1>3 DEF TidyNext

(* The monitors: what leaves their lists is destroyed or in use. *)
LEMMA MonitorRemembers ==
    ASSUME Types, Kept, Remembers, NEW h \in Hosts,
           MonitorStep(h) \/ Reconnect(h) \/ Restart(h)
    PROVE  Remembers'
<1> USE DEF vms
<1>1. Order /\ (disturbed \/ (Spared /\ Traced))
  BY DEF Remembers
<1>2. /\ UNCHANGED <<living, fresh, tls, call, broken>>
      /\ secrets' \subseteq secrets /\ (disturbed => disturbed')
  <2>1. UNCHANGED <<living, fresh, tls, call, broken>> /\ secrets' \subseteq secrets
    BY DEF MonitorStep, process_event, Remember, process_vm_del, TidyCount, TidyDestroy,
           Destroy, Reconnect, Restart
  <2>2. disturbed' = disturbed \/ disturbed' = TRUE
    BY DEF MonitorStep, process_event, Remember, process_vm_del, TidyCount, TidyDestroy,
           Destroy, Reconnect, Restart
  <2>. QED
    BY <2>1, <2>2
<1>3. Blank' /\ Parted' /\ Distinct' /\ (broken' # {} => disturbed')
  BY <1>1, <1>2 DEF Order, Blank, Parted, Distinct
<1>4. Spared => Spared'
  BY <1>2 DEF Spared, In
<1>5. SUFFICES Passed' /\ (disturbed' \/ (Traced => Traced'))
  BY <1>1, <1>2, <1>3, <1>4 DEF Order, Remembers
<1>6. ASSUME NEW s, s \in secrets', Traced, Pending(s) => Pending(s)' \/ InUse(s)
      PROVE  InUse(s)' \/ Held(s)' \/ Pending(s)'
  BY <1>2, <1>6 DEF Traced, InUse, Held, In
<1>7. ASSUME NEW v \in VMs, Remember(h, v)
      PROVE  Passed' /\ (Traced => Traced')
  <2>1. /\ v \in living /\ tidy' = tidy
        /\ changed' = [changed EXCEPT ![h] = @ \ {v}]
        /\ \A g \in Hosts, u \in VMs \ living : cache'[g][u] = cache[g][u]
    BY <1>7 DEF Remember, Types
  <2>2. Passed'
    BY <1>1, <1>2, <2>1 DEF Order, Passed, Types
  <2>3. ASSUME NEW s, Pending(s)
        PROVE  Pending(s)'
    <3>1. PICK g \in Hosts, u \in VMs \ living :
            \/ u \in changed[g] /\ s \in In(cache[g][u])
            \/ /\ tidy[g].pc # "idle" /\ tidy[g].vm = u
               /\ \E j \in tidy[g].left : cache[g][u][j] = s
      BY <2>3 DEF Pending
    <3>2. u \in changed[g] => u \in changed'[g]
      BY <2>1, <3>1 DEF Types
    <3>3. cache'[g][u] = cache[g][u]
      BY <2>1, <3>1
    <3>. QED
      BY <1>2, <2>1, <3>1, <3>2, <3>3 DEF Pending, In
  <2>. QED
    BY <1>6, <2>2, <2>3 DEF Traced
<1>8. ASSUME NEW v \in VMs, process_vm_del(h, v)
      PROVE  Passed' /\ (Traced => Traced')
  <2> DEFINE t == [NoTidy EXCEPT !.pc = "count", !.vm = v, !.left = KeysOf(cache[h][v])]
  <2>1. /\ v \in changed[h] /\ v \notin living /\ tidy[h].pc = "idle" /\ cache' = cache
        /\ changed' = [changed EXCEPT ![h] = @ \ {v}]
        /\ tidy' = [tidy EXCEPT ![h] = IF cache[h][v] = NoKeys THEN NoTidy ELSE t]
    BY <1>8 DEF process_vm_del
  <2>2. t.pc = "count" /\ t.vm = v /\ t.left = KeysOf(cache[h][v]) /\ NoTidy.pc = "idle"
    BY DEF NoTidy
  <2> HIDE DEF t
  <2>3. /\ \A g \in Hosts \ {h} : tidy'[g] = tidy[g] /\ changed'[g] = changed[g]
        /\ tidy'[h] = IF cache[h][v] = NoKeys THEN NoTidy ELSE t
        /\ changed'[h] = changed[h] \ {v}
    BY <2>1 DEF Types
  <2>4. Passed'
    BY <1>1, <1>2, <2>1, <2>2, <2>3 DEF Order, Passed
  <2>5. ASSUME NEW s, Pending(s)
        PROVE  Pending(s)'
    <3>1. PICK g \in Hosts, u \in VMs \ living :
            \/ u \in changed[g] /\ s \in In(cache[g][u])
            \/ /\ tidy[g].pc # "idle" /\ tidy[g].vm = u
               /\ \E j \in tidy[g].left : cache[g][u][j] = s
      BY <2>5 DEF Pending
    <3>2. CASE g = h /\ u = v
      <4>1. s \in In(cache[h][v])
        BY <2>1, <3>1, <3>2
      <4>2. PICK k \in KeysOf(cache[h][v]) : cache[h][v][k] = s
        BY <4>1 DEF In, KeysOf
      <4>3. cache[h][v] # NoKeys
        BY <4>2 DEF KeysOf, NoKeys
      <4>. QED
        BY <1>2, <2>1, <2>2, <2>3, <4>2, <4>3 DEF Pending
    <3>3. CASE ~(g = h /\ u = v)
      BY <1>2, <2>1, <2>3, <3>1, <3>3 DEF Pending, In
    <3>. QED
      BY <3>2, <3>3
  <2>. QED
    BY <1>6, <2>4, <2>5 DEF Traced
<1>9. CASE TidyCount(h)
  <2>1. /\ tidy[h].pc = "count" /\ tidy[h] \in TidyType /\ tidy[h].vm \in VMs
        /\ UNCHANGED <<secrets, changed>>
    BY <1>9 DEF TidyCount, Types
  <2>2. PICK k \in tidy[h].left :
          IF Removable(cache[h][tidy[h].vm][k], 0)
            THEN /\ tidy' = [tidy EXCEPT ![h].pc = "destroy", ![h].key = k]
                 /\ cache' = cache
            ELSE TidyNext(h, k)
    BY <1>9 DEF TidyCount
  <2>3. CASE Removable(cache[h][tidy[h].vm][k], 0)
    <3>1. tidy' = [tidy EXCEPT ![h] = [tidy[h] EXCEPT !.pc = "destroy", !.key = k]]
          /\ cache' = cache
      BY <2>2, <2>3 DEF Types
    <3>2. /\ tidy'[h].pc = "destroy" /\ tidy'[h].vm = tidy[h].vm
          /\ tidy'[h].left = tidy[h].left /\ \A g \in Hosts \ {h} : tidy'[g] = tidy[g]
      BY <2>1, <3>1 DEF Types, TidyType
    <3>3. Passed'
      BY <1>1, <1>2, <2>1, <3>2 DEF Order, Passed
    <3>4. \A s : Pending(s) => Pending(s)'
      BY <1>2, <2>1, <3>1, <3>2 DEF Pending, In
    <3>. QED
      BY <1>6, <3>3, <3>4 DEF Traced
  <2>4. CASE ~Removable(cache[h][tidy[h].vm][k], 0)
    <3>1. Passed'
      BY <1>1, <1>2, <2>1, <2>2, <2>4, TidyNextPassed DEF Order
    <3>2. ASSUME NEW s \in secrets, Pending(s)
          PROVE  Pending(s)' \/ InUse(s)
      <4>1. s # 0
        BY DEF Types
      <4>2. CASE s = cache[h][tidy[h].vm][k]
        BY <2>4, <4>1, <4>2, ReferencedSomewhere
      <4>3. CASE s # cache[h][tidy[h].vm][k]
        BY <1>1, <1>2, <2>1, <2>2, <2>4, <3>2, <4>3, TidyNextPending DEF Order
      <4>. QED
        BY <4>2, <4>3
    <3>. QED
      BY <1>6, <2>1, <3>1, <3>2 DEF Traced
  <2>. QED
    BY <2>3, <2>4
<1>10. CASE TidyDestroy(h)
  <2> DEFINE k == tidy[h].key
  <2>1. /\ tidy[h].pc = "destroy" /\ k \in tidy[h].left /\ TidyNext(h, k)
        /\ changed' = changed
        /\ Destroy(cache[h][tidy[h].vm][k])
    BY <1>10 DEF TidyDestroy, Types
  <2>2. Passed'
    BY <1>1, <1>2, <2>1, TidyNextPassed DEF Order
  <2>3. ASSUME ~disturbed', NEW s \in secrets', Pending(s)
        PROVE  Pending(s)'
    <3>1. s # cache[h][tidy[h].vm][k]
      BY <2>1, <2>3 DEF Destroy
    <3>. QED
      BY <1>1, <1>2, <2>1, <2>3, <3>1, TidyNextPending DEF Order
  <2>. QED
    BY <1>6, <2>2, <2>3 DEF Traced
<1>11. CASE Reconnect(h) \/ Restart(h)
  <2>1. /\ tidy' = [tidy EXCEPT ![h] = NoTidy] /\ changed' = [changed EXCEPT ![h] = living]
        /\ disturbed' /\ NoTidy.pc = "idle"
    BY <1>11 DEF Reconnect, Restart, NoTidy
  <2>2. Passed'
    BY <1>1, <1>2, <2>1 DEF Order, Passed, Types
  <2>. QED
    BY <2>1, <2>2
<1>. QED
  BY <1>7, <1>8, <1>9, <1>10, <1>11 DEF MonitorStep, process_event

(* A call that starts shares no secret with another that is under way. *)
LEMMA BeginRemembers ==
    ASSUME "overlap" \notin Faults, Types, Kept, Remembers,
           NEW c \in Calls, NEW v \in VMs, SetBegin(c, v), Types'
    PROVE  Remembers'
<1> USE DEF vms
<1> DEFINE t == [NoCall EXCEPT !.pc = "count", !.vm = v,
                               !.old = tls[v], !.left = KeysOf(tls[v])]
<1>1. Order /\ (disturbed \/ (Spared /\ Traced))
  BY DEF Remembers
<1>2. /\ UNCHANGED <<living, fresh, tls, secrets, cache, changed, tidy, broken, disturbed>>
      /\ call' = [call EXCEPT ![c] = Destroyed(t)]
      /\ v \in living /\ call[c].pc = "idle"
      /\ \A w \in living : Busy(w) => ~Shares(v, w)
  BY DEF SetBegin, CallAt, Undisturbed
<1>3. /\ \/ Destroyed(t).pc = "count" /\ Destroyed(t).left = KeysOf(tls[v])
         \/ Destroyed(t).pc = "create" /\ KeysOf(tls[v]) = {}
      /\ Destroyed(t).vm = v /\ Destroyed(t).old = tls[v] /\ Destroyed(t).new = NoKeys
  BY DEF Destroyed, NoCall
<1> HIDE DEF t
<1>4. /\ \/ call'[c].pc = "count" /\ call'[c].left = KeysOf(tls[v])
         \/ call'[c].pc = "create" /\ KeysOf(tls[v]) = {}
      /\ call'[c].vm = v /\ call'[c].old = tls[v] /\ call'[c].new = NoKeys
      /\ \A d \in Calls \ {c} : call'[d] = call[d]
  BY <1>2, <1>3 DEF Types
<1>5. Blank'
  <2>1. call'[c].left \subseteq Keys
    BY DEF Types, CallType
  <2>2. \A k \in Keys : call'[c].new[k] = 0
    BY <1>4 DEF NoKeys
  <2>. QED
    BY <1>1, <1>2, <1>4, <2>1, <2>2 DEF Order, Blank
<1>6. Parted'
  <2>1. ASSUME NEW d \in Calls \ {c}, NEW k \in Keys, NEW j \in Keys, tls[v][k] # 0
        PROVE  tls[v][k] # call[d].old[j]
    <3>1. CASE call[d].pc = "idle"
      BY <1>1, <2>1, <3>1 DEF Order, Blank, NoKeys
    <3>2. CASE call[d].pc # "idle"
      <4>1. /\ call[d].vm \in living /\ tls[call[d].vm] = call[d].old
            /\ Busy(call[d].vm)
        BY <3>2 DEF Kept, Apart, Busy
      <4>2. In(tls[v]) \cap In(call[d].old) = {}
        BY <1>2, <4>1 DEF Shares
      <4>3. tls[v][k] \in In(tls[v])
        BY <2>1 DEF In
      <4>4. tls[v][k] # 0 /\ tls[v][k] = call[d].old[j] => tls[v][k] \in In(call[d].old)
        BY DEF In
      <4>. QED
        BY <2>1, <4>2, <4>3, <4>4
    <3>. QED
      BY <3>1, <3>2
  <2>. QED
    BY <1>1, <1>4, <2>1 DEF Order, Parted
<1>7. Distinct'
  BY <1>1, <1>2, <1>4 DEF Order, Distinct, NoKeys
<1>8. Passed' /\ (broken' # {} => disturbed')
  BY <1>1, <1>2 DEF Order, Passed
<1>9. Spared => Spared'
  <2>1. ASSUME NEW k \in Keys, Dealt(call'[c], k)
        PROVE  call'[c].old[k] \notin secrets
    BY <1>4, <2>1 DEF Dealt, KeysOf, Types
  <2>. QED
    BY <1>2, <1>4, <2>1 DEF Spared, In
<1>10. Traced => Traced'
  <2>1. ASSUME NEW s, Held(s)
        PROVE  Held(s)'
    <3>1. PICK d \in Calls : s \in In(call[d].old) \cup In(call[d].new)
      BY <2>1 DEF Held
    <3>2. d # c
      BY <1>1, <1>2, <3>1 DEF Order, Blank, NoKeys, In
    <3>. QED
      BY <1>4, <3>1, <3>2 DEF Held, In
  <2>. QED
    BY <1>2, <2>1 DEF Traced, InUse, Pending, In
<1>. QED
  BY <1>1, <1>2, <1>5, <1>6, <1>7, <1>8, <1>9, <1>10 DEF Order, Remembers

(* The old secrets it deals with are destroyed, or another VM has them. *)
LEMMA RemovalRemembers ==
    ASSUME Types, Kept, Remembers, NEW c \in Calls, SetCount(c) \/ SetDestroy(c), Types'
    PROVE  Remembers'
<1> USE DEF vms
<1>1. Order /\ (disturbed \/ (Spared /\ Traced))
  BY DEF Remembers
<1>2. /\ UNCHANGED <<living, fresh, tls, cache, changed, tidy, broken>>
      /\ secrets' \subseteq secrets /\ (disturbed' = disturbed \/ disturbed' = TRUE)
  BY DEF SetCount, SetDestroy, Destroy
<1>3. call[c] \in CallType /\ call[c].pc \in {"count", "destroy"}
  BY DEF SetCount, SetDestroy, Types
<1>4. ASSUME NEW k \in call[c].left, SetNext(c, k)
      PROVE  /\ \/ call'[c].pc = "count" /\ call'[c].left = call[c].left \ {k}
                \/ call'[c].pc = "create" /\ call[c].left = {k}
             /\ call'[c].vm = call[c].vm /\ call'[c].old = call[c].old
             /\ call'[c].new = call[c].new
             /\ \A d \in Calls \ {c} : call'[d] = call[d]
  <2> DEFINE t == [call[c] EXCEPT !.pc = "count", !.left = @ \ {k}, !.key = "none"]
  <2>1. t.pc = "count" /\ t.vm = call[c].vm /\ t.old = call[c].old
        /\ t.new = call[c].new /\ t.left = call[c].left \ {k} /\ t \in CallType
    BY <1>3 DEF CallType
  <2>2. call' = [call EXCEPT ![c] = Destroyed(t)]
    BY <1>4 DEF SetNext, CallAt
  <2>3. /\ \/ Destroyed(t).pc = "count" /\ Destroyed(t).left = t.left
           \/ Destroyed(t).pc = "create" /\ t.left = {}
        /\ Destroyed(t).vm = t.vm /\ Destroyed(t).old = t.old /\ Destroyed(t).new = t.new
    BY <2>1 DEF Destroyed, CallType
  <2>. QED
    BY <2>1, <2>2, <2>3 DEF Types
<1>5. PICK k \in call[c].left :
        /\ \/ call'[c].pc \in {"count", "destroy"} /\ call'[c].left = call[c].left
           \/ /\ \/ call'[c].pc = "count" /\ call'[c].left = call[c].left \ {k}
                 \/ call'[c].pc = "create" /\ call[c].left = {k}
              /\ \/ disturbed'
                 \/ call[c].old[k] \notin secrets'
                 \/ ~Removable(call[c].old[k], 1)
        /\ call'[c].vm = call[c].vm /\ call'[c].old = call[c].old
        /\ call'[c].new = call[c].new
        /\ \A d \in Calls \ {c} : call'[d] = call[d]
  <2>1. CASE SetCount(c)
    <3>1. PICK k \in call[c].left :
            IF Removable(call[c].old[k], 1)
              THEN CallAt(c, [call[c] EXCEPT !.pc = "destroy", !.key = k])
              ELSE SetNext(c, k)
      BY <2>1 DEF SetCount
    <3>2. CASE Removable(call[c].old[k], 1)
      <4> DEFINE t == [call[c] EXCEPT !.pc = "destroy", !.key = k]
      <4>1. t.pc = "destroy" /\ t.vm = call[c].vm /\ t.old = call[c].old
            /\ t.new = call[c].new /\ t.left = call[c].left
        BY <1>3 DEF CallType
      <4>2. call' = [call EXCEPT ![c] = t]
        BY <3>1, <3>2 DEF CallAt
      <4>. QED
        BY <4>1, <4>2 DEF Types
    <3>3. CASE ~Removable(call[c].old[k], 1)
      BY <1>4, <3>1, <3>3
    <3>. QED
      BY <3>2, <3>3
  <2>2. CASE SetDestroy(c)
    <3>1. /\ call[c].key \in call[c].left /\ SetNext(c, call[c].key)
          /\ Destroy(call[c].old[call[c].key])
      BY <2>2 DEF SetDestroy, Types
    <3>2. disturbed' \/ call[c].old[call[c].key] \notin secrets'
      BY <3>1 DEF Destroy
    <3>. QED
      BY <1>4, <3>1, <3>2
  <2>. QED
    BY <2>1, <2>2
<1>6. \A d \in Calls : call'[d].old = call[d].old /\ call'[d].new = call[d].new
  BY <1>5
<1>7. Blank'
  <2>1. call'[c].left \subseteq Keys
    BY DEF Types, CallType
  <2>2. call'[c].new = NoKeys /\ call'[c].pc \in {"count", "destroy", "create"}
    BY <1>1, <1>3, <1>5 DEF Order, Blank
  <2>3. \A j \in Keys : call'[c].new[j] = 0
    BY <2>2 DEF NoKeys
  <2>. QED
    BY <1>1, <1>5, <2>1, <2>2, <2>3 DEF Order, Blank
<1>8. Parted' /\ Distinct' /\ Passed' /\ (broken' # {} => disturbed')
  BY <1>1, <1>2, <1>6 DEF Order, Parted, Distinct, Passed
<1>9. Spared => disturbed' \/ Spared'
  <2>1. ASSUME ~disturbed', Spared, NEW j \in Keys, Dealt(call'[c], j),
               call[c].old[j] \in secrets'
        PROVE  \E w \in living \ {call[c].vm} : call[c].old[j] \in In(tls[w])
    <3>1. CASE Dealt(call[c], j)
      BY <1>2, <2>1, <3>1 DEF Spared
    <3>2. CASE ~Dealt(call[c], j)
      <4>1. j = k /\ ~Removable(call[c].old[j], 1)
        BY <1>3, <1>5, <2>1, <3>2 DEF Dealt
      <4>2. call[c].old[j] # 0
        BY <1>2, <2>1 DEF Types
      <4>3. call[c].vm \in living /\ tls[call[c].vm] = call[c].old
        BY <1>3 DEF Kept, Apart
      <4>. QED
        BY <1>1, <4>1, <4>2, <4>3, ReferencedElsewhere DEF Order
    <3>. QED
      BY <3>1, <3>2
  <2>2. ASSUME ~disturbed', Spared, NEW d \in Calls \ {c}, NEW j \in Keys,
               Dealt(call'[d], j), call'[d].old[j] \in secrets'
        PROVE  \E w \in living \ {call'[d].vm} : call'[d].old[j] \in In(tls[w])
    BY <1>2, <1>5, <2>2 DEF Spared
  <2>. QED
    BY <1>2, <1>5, <2>1, <2>2 DEF Spared, In
<1>10. Traced => Traced'
  BY <1>2, <1>6 DEF Traced, InUse, Held, Pending, In
<1>. QED
  BY <1>1, <1>2, <1>7, <1>8, <1>9, <1>10 DEF Order, Remembers

(* The secret it creates is the call's. *)
LEMMA CreationRemembers ==
    ASSUME Types, Kept, Remembers, NEW c \in Calls, SetCreate(c)
    PROVE  Remembers'
<1> USE DEF vms
<1>1. Order /\ (disturbed \/ (Spared /\ Traced))
  BY DEF Remembers
<1>2. /\ UNCHANGED <<living, fresh, tls, cache, changed, tidy, broken, disturbed>>
      /\ secrets' = secrets \cup {created + 1} /\ call[c].pc = "create"
      /\ call[c] \in CallType
  BY DEF SetCreate, Types
<1>3. PICK k \in call[c].left :
          call' = [call EXCEPT ![c] =
                     [call[c] EXCEPT !.new[k] = created + 1, !.left = @ \ {k},
                                     !.pc = IF call[c].left = {k} THEN "update"
                                                                  ELSE @]]
  BY DEF SetCreate, CallAt
<1>4. /\ call'[c].pc \in {"create", "update"} /\ call'[c].left = call[c].left \ {k}
      /\ call'[c].vm = call[c].vm /\ call'[c].old = call[c].old
      /\ call'[c].new = [call[c].new EXCEPT ![k] = created + 1]
      /\ \A d \in Calls \ {c} : call'[d] = call[d]
  <2> DEFINE t == [call[c] EXCEPT !.new[k] = created + 1, !.left = @ \ {k},
                                  !.pc = IF call[c].left = {k} THEN "update" ELSE @]
  <2>1. t.pc \in {"create", "update"} /\ t.left = call[c].left \ {k}
        /\ t.vm = call[c].vm /\ t.old = call[c].old
        /\ t.new = [call[c].new EXCEPT ![k] = created + 1]
    BY <1>2 DEF CallType
  <2>. QED
    BY <1>3, <2>1 DEF Types
<1>5. /\ k \in Keys /\ call[c].new[k] = 0
      /\ \A d \in Calls, j \in Keys :
            call[d].old[j] # created + 1 /\ call[d].new[j] # created + 1
  <2>1. k \in Keys /\ call[c].new[k] = 0
    BY <1>1, <1>2 DEF Order, Blank, CallType
  <2>. QED
    BY <2>1 DEF Types, Known, CallType
<1>6. \A j \in Keys :
          call'[c].new[j] = IF j = k THEN created + 1 ELSE call[c].new[j]
  BY <1>2, <1>4 DEF CallType
<1>7. \A d \in Calls : call'[d].old = call[d].old
  BY <1>4
<1>8. Blank'
  <2>1. call[c].left \subseteq Keys
    BY <1>2 DEF CallType
  <2>2. \A j \in call'[c].left : call'[c].new[j] = 0
    BY <1>1, <1>2, <1>4, <1>6, <2>1 DEF Order, Blank
  <2>3. ASSUME NEW d \in Calls \ {c}
        PROVE  /\ call'[d].pc = "idle" => call'[d].old = NoKeys
               /\ call'[d].pc \in {"idle", "count", "destroy"} => call'[d].new = NoKeys
               /\ call'[d].pc = "create" => \A j \in call'[d].left : call'[d].new[j] = 0
    BY <1>1, <1>4 DEF Order, Blank
  <2>4. Calls = (Calls \ {c}) \cup {c}
    OBVIOUS
  <2>. QED
    BY <1>4, <2>2, <2>3, <2>4 DEF Blank
<1>9. Parted' /\ Passed' /\ (broken' # {} => disturbed')
  BY <1>1, <1>2, <1>7 DEF Order, Parted, Passed
<1>10. Distinct'
  <2>1. ASSUME NEW j \in Keys, NEW l \in Keys, call'[c].new[j] # 0,
               call'[c].new[j] = call'[c].new[l]
        PROVE  j = l
    BY <1>1, <1>5, <1>6, <2>1 DEF Order, Distinct
  <2>2. ASSUME NEW d \in Calls \ {c}, NEW j \in Keys, NEW l \in Keys,
               call'[d].new[j] # 0, call'[d].new[j] = call'[d].new[l]
        PROVE  j = l
    BY <1>1, <1>4, <2>2 DEF Order, Distinct
  <2>3. \A v \in living', j, l \in Keys : tls'[v][j] # 0 /\ tls'[v][j] = tls'[v][l] => j = l
    BY <1>1, <1>2 DEF Order, Distinct
  <2>. QED
    BY <2>1, <2>2, <2>3 DEF Distinct
<1>11. Spared => Spared'
  <2>1. ASSUME NEW d \in Calls, NEW j \in Keys, Dealt(call'[d], j),
               call'[d].old[j] \in secrets'
        PROVE  Dealt(call[d], j) /\ call[d].old[j] \in secrets /\ call'[d].vm = call[d].vm
    BY <1>2, <1>4, <1>5, <1>7, <2>1 DEF Dealt
  <2>. QED
    BY <1>2, <1>7, <2>1 DEF Spared, In
<1>12. Traced => Traced'
  <2>1. ASSUME NEW s, s = created + 1
        PROVE  Held(s)'
    <3>1. call'[c].new[k] = s /\ s # 0
      BY <1>5, <1>6, <2>1 DEF Types
    <3>. QED
      BY <1>5, <3>1 DEF Held, In
  <2>2. ASSUME NEW s, s # 0, Held(s)
        PROVE  Held(s)'
    <3>1. PICK d \in Calls, j \in Keys : s \in {call[d].old[j], call[d].new[j]}
      BY <2>2 DEF Held, In
    <3>2. call'[d].old[j] = s \/ call'[d].new[j] = s
      BY <1>4, <1>5, <1>6, <2>2, <3>1
    <3>. QED
      BY <2>2, <3>2 DEF Held, In
  <2>3. \A s \in secrets : s # 0
    BY DEF Types
  <2>. QED
    BY <1>2, <2>1, <2>2, <2>3 DEF Traced, InUse, Pending, In
<1>. QED
  BY <1>1, <1>2, <1>8, <1>9, <1>10, <1>11, <1>12 DEF Order, Remembers

(* When it is over, its VM refers to the new secrets, and another VM to    *)
(* each old one that is left.                                              *)
LEMMA EndRemembers ==
    ASSUME Types, Kept, Remembers, NEW c \in Calls, SetUpdate(c) \/ SetFails(c)
    PROVE  Remembers'
<1> USE DEF vms
<1> DEFINE v == call[c].vm
<1>1. Order /\ (disturbed \/ (Spared /\ Traced))
  BY DEF Remembers
<1>2. /\ v \in living /\ v \in VMs /\ call[c].pc # "idle" /\ tls[v] = call[c].old
      /\ UNCHANGED <<living, fresh, secrets, cache, tidy>>
      /\ call' = [call EXCEPT ![c] = NoCall]
  BY DEF SetUpdate, SetFails, SetRaises, CallAt, Kept, Apart, Types
<1>3. /\ call'[c].pc = "idle" /\ call'[c].old = NoKeys /\ call'[c].new = NoKeys
      /\ \A k \in Keys : call'[c].old[k] = 0 /\ call'[c].new[k] = 0
      /\ \A d \in Calls \ {c} : call'[d] = call[d]
  BY <1>2 DEF NoCall, NoKeys, Types
<1>4. Blank'
  BY <1>1, <1>3 DEF Order, Blank
<1>5. Parted'
  BY <1>1, <1>3 DEF Order, Parted
<1>6. \A d \in Calls, k, j \in Keys :
          call'[d].new[k] # 0 /\ call'[d].new[k] = call'[d].new[j] => k = j
  <2>1. ASSUME NEW d \in Calls \ {c}, NEW k \in Keys, NEW j \in Keys,
               call'[d].new[k] # 0, call'[d].new[k] = call'[d].new[j]
        PROVE  k = j
    BY <1>1, <1>3, <2>1 DEF Order, Distinct
  <2>. QED
    BY <1>3, <2>1
<1>7. CASE SetFails(c)
  <2>1. disturbed' /\ UNCHANGED <<tls, changed>>
    BY <1>7 DEF SetFails
  <2>2. Distinct' /\ Passed'
    BY <1>1, <1>2, <1>6, <2>1 DEF Order, Distinct, Passed
  <2>. QED
    BY <1>4, <1>5, <2>1, <2>2 DEF Order, Remembers
<1>8. CASE SetUpdate(c)
  <2>1. /\ tls' = [tls EXCEPT ![v] = call[c].new] /\ broken' = broken \ {v}
        /\ \A h \in Hosts : changed'[h] = changed[h] \cup {v}
        /\ disturbed' = disturbed /\ call[c].pc = "update"
    BY <1>2, <1>8 DEF SetUpdate, Tell
  <2>2. tls'[v] = call[c].new /\ \A u \in living \ {v} : tls'[u] = tls[u]
    BY <1>2, <2>1 DEF Types
  <2>3. Distinct'
    <3>1. ASSUME NEW u \in living, NEW k \in Keys, NEW j \in Keys,
                 tls'[u][k] # 0, tls'[u][k] = tls'[u][j]
          PROVE  k = j
      <4>1. CASE u = v
        BY <1>1, <2>2, <3>1, <4>1 DEF Order, Distinct
      <4>2. CASE u # v
        BY <1>1, <2>2, <3>1, <4>2 DEF Order, Distinct
      <4>. QED
        BY <4>1, <4>2
    <3>. QED
      BY <1>2, <1>6, <3>1 DEF Distinct
  <2>4. Passed'
    BY <1>1, <1>2, <2>1 DEF Order, Passed, Types
  <2>5. Order'
    BY <1>1, <1>4, <1>5, <2>1, <2>3, <2>4 DEF Order
  <2>6. ASSUME Spared, NEW k \in Keys, call[c].old[k] \in secrets
        PROVE  \E w \in living \ {v} : call[c].old[k] \in In(tls[w])
    BY <2>1, <2>6 DEF Spared, Dealt
  <2>7. Spared => Spared'
    <3> SUFFICES ASSUME Spared, NEW d \in Calls, NEW k \in Keys,
                        Dealt(call'[d], k), call'[d].old[k] \in secrets
                 PROVE  \E w \in living \ {call'[d].vm} : call'[d].old[k] \in In(tls'[w])
      BY <1>2 DEF Spared, In
    <3>1. d # c /\ call'[d] = call[d] /\ call[d].old[k] # 0
      BY <1>3 DEF Dealt, Types
    <3>2. PICK w \in living \ {call[d].vm} : call[d].old[k] \in In(tls[w])
      BY <3>1 DEF Spared
    <3>3. w # v
      <4>1. \A j \in Keys : call[d].old[k] # call[c].old[j]
        BY <1>1, <3>1 DEF Order, Parted
      <4>. QED
        BY <1>2, <3>2, <4>1 DEF In
    <3>. QED
      BY <2>2, <3>1, <3>2, <3>3
  <2>8. Spared /\ Traced => Traced'
    <3> SUFFICES ASSUME Spared, Traced, NEW s \in secrets
                 PROVE  InUse(s)' \/ Held(s)' \/ Pending(s)'
      BY <1>2 DEF Traced
    <3>1. s # 0
      BY DEF Types
    <3>2. ASSUME NEW k \in Keys, s = call[c].old[k]
          PROVE  InUse(s)'
      <4>1. PICK w \in living \ {v} : s \in In(tls[w])
        BY <2>6, <3>2
      <4>. QED
        BY <1>2, <2>2, <4>1 DEF InUse, In
    <3>3. ASSUME NEW k \in Keys, s = call[c].new[k]
          PROVE  InUse(s)'
      BY <1>2, <2>2, <3>1, <3>3 DEF InUse, In
    <3>4. InUse(s) => InUse(s)'
      BY <1>2, <2>2, <3>2 DEF InUse, In
    <3>5. Held(s) => InUse(s)' \/ Held(s)'
      <4> SUFFICES ASSUME NEW d \in Calls, s \in In(call[d].old) \cup In(call[d].new)
                   PROVE  InUse(s)' \/ Held(s)'
        BY DEF Held
      <4>1. CASE d = c
        BY <3>2, <3>3, <4>1 DEF In
      <4>2. CASE d # c
        BY <1>3, <4>2 DEF Held, In
      <4>. QED
        BY <4>1, <4>2
    <3>6. Pending(s) => Pending(s)'
      BY <1>2, <2>1 DEF Pending, In
    <3>. QED
      BY <3>4, <3>5, <3>6 DEF Traced
  <2>. QED
    BY <1>1, <2>1, <2>5, <2>7, <2>8 DEF Remembers
<1>. QED
  BY <1>7, <1>8

LEMMA InitRemembers == Init => Remembers
<1> SUFFICES ASSUME Init PROVE Remembers
  OBVIOUS
<1>1. \A c \in Calls : call[c] = NoCall
  BY DEF Init
<1>2. Blank /\ Parted
  BY <1>1 DEF Blank, Parted, NoCall, NoKeys
<1>3. living \subseteq VMs
  BY TlsParametersAssumption DEF Init
<1>4. Distinct
  BY <1>1, <1>3 DEF Init, Distinct, NoCall, NoKeys
<1>5. Passed /\ secrets = {} /\ broken = {}
  BY DEF Init, Passed, NoTidy
<1>. QED
  BY <1>2, <1>4, <1>5 DEF Remembers, Order, Spared, Traced

(* No secret is left behind: whatever VMs are cloned and destroyed, and    *)
(* however monitors and runs of set_for_vm interleave, one that nobody     *)
(* refers to is still known to a call, or to a monitor that will come to   *)
(* it - until a call to XAPI fails or a monitor restarts, as long as       *)
(* nobody interferes with a VM that is being given new secrets and some    *)
(* monitor saw the last record of each VM.  (process_vm_del)               *)
THEOREM SecretsTraced ==
    ASSUME "overlap" \notin Faults, "unseen" \notin Faults
    PROVE  Spec => []NothingForgotten
<1>1. Types /\ Kept /\ Remembers /\ [Next]_vars => Kept' /\ Remembers'
  <2> SUFFICES ASSUME Types, Kept, Remembers, [Next]_vars PROVE Kept' /\ Remembers'
    OBVIOUS
  <2>1. CASE UNCHANGED vars
    BY <2>1 DEF vars, Kept, Private, Apart, CallTarget, TidyTarget, InUseKept, Busy,
       Remembers, Order, Blank, Parted, Distinct, Passed, Spared, Traced, InUse, Held,
       Pending, In
  <2>2. CASE \E h \in Hosts : MonitorStep(h)
    BY <2>2, MonitorKeeps, MonitorRemembers
  <2>3. CASE \E c \in Calls : CallStep(c)
    BY <2>3, CallStepTypes, RemovalKeeps, CreationKeeps, EndKeeps, RemovalRemembers,
       CreationRemembers, EndRemembers DEF CallStep
  <2>4. CASE Environment
    BY <2>4, EnvironmentTypes, OthersKeep, MonitorKeeps, BeginKeeps, EndKeeps,
       OthersRemember, MonitorRemembers, BeginRemembers, EndRemembers DEF Environment
  <2>. QED
    BY <2>1, <2>2, <2>3, <2>4 DEF Next
<1>2. Remembers => NothingForgotten
  BY DEF Remembers, Traced, NothingForgotten
<1>. QED
  BY <1>1, <1>2, InitKept, InitRemembers, TypesInvariant, PTL DEF Spec
=============================================================================
