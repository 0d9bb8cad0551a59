----------------------------- MODULE TlsSecrets -----------------------------
(***************************************************************************)
(* The TLS secrets of the VMs of a pool (util/tls_secret.py): a VM refers  *)
(* to secrets by keys of its other_config, clones and snapshots of a VM    *)
(* refer to the same ones, and a secret must go when, and only when,       *)
(* nobody refers to it any more.                                           *)
(*                                                                         *)
(* Those who remove secrets are the monitors of all hosts of the pool,     *)
(* each of which remembers the secrets it saw in VM records and tidies     *)
(* them when the VM was destroyed (DockerMonitor.process_vm_del), and the  *)
(* runs of xscontainer-prepare-vm that give a VM new ones (set_for_vm).    *)
(* A step is one call to XAPI: the references to a secret are counted in   *)
(* one, and the secret is destroyed in another.                            *)
(***************************************************************************)
EXTENDS Naturals, FiniteSets

CONSTANTS
    VMs,        \* VM references; an element is one VM, never used again
    Hosts,      \* the hosts of the pool
    Calls,      \* concurrent runs of set_for_vm
    Keys,       \* XSCONTAINER_TLS_KEYS
    MaxSecrets, \* bound: how many secrets are ever created
    Local,      \* the VMs whose Docker the host of the calls talks to
    Faults      \* what may happen: a subset of FaultKinds

(* Calls to XAPI that fail; monitors that restart; others who act on a VM, *)
(* or on one it shares secrets with, while set_for_vm works on it; VMs     *)
(* that are destroyed before any monitor has seen the last of their record.*)
FaultKinds == {"xapi", "crash", "overlap", "unseen"}

ASSUME TlsParametersAssumption ==
    /\ Keys # {} /\ IsFiniteSet(Keys) /\ VMs # {} /\ IsFiniteSet(VMs)
    /\ MaxSecrets \in Nat
    /\ Local \subseteq VMs
    /\ Faults \subseteq FaultKinds

VARIABLES
    living,    \* the VMs, clones and snapshots there are
    fresh,     \* those to come
    tls,       \* their other_config: [VMs -> [Keys -> a secret or 0]]
    secrets,   \* the secrets there are
    created,   \* how many were ever created; they are numbered
    files,     \* the VMs with secrets in temporary files on the host of calls
    cache,     \* [Hosts -> tls_secret_cache]
    changed,   \* [Hosts -> the VMs the monitor has events of]
    tidy,      \* [Hosts -> process_vm_del under way]
    call,      \* [Calls -> set_for_vm under way]
    broken,    \* history: the VMs a set_for_vm failed on
    disturbed  \* history: a call failed or a monitor restarted

vars == <<living, fresh, tls, secrets, created, files, cache, changed, tidy,
          call, broken, disturbed>>
vms == <<living, fresh, tls>>

Secrets == 1..MaxSecrets
NoKeys == [k \in Keys |-> 0]

(* The secrets of a map, and the keys that have one. *)
In(map) == {map[k] : k \in Keys} \ {0}
KeysOf(map) == {k \in Keys : map[k] # 0}

NoTidy == [pc |-> "idle", vm |-> "none", left |-> {}, key |-> "none"]
NoCall == [pc |-> "idle", vm |-> "none", old |-> NoKeys, left |-> {},
           key |-> "none", new |-> NoKeys]

References(s) == {r \in living \X Keys : tls[r[1]][r[2]] = s}
InUse(s) == \E v \in living : s \in In(tls[v])

_get_refcount(s) == Cardinality(References(s))

(* Mutants: a reference too many is allowed, or one too few. *)
Removable_one_more(s, threshold) == _get_refcount(s) <= threshold + 1
Removable_one_less(s, threshold) == _get_refcount(s) < threshold

(* remove_if_refcount_less_or_equal goes on to destroy the secret. *)
Removable(s, threshold) == _get_refcount(s) <= threshold

(* A failure to destroy it, or to find it, is logged and nothing more. *)
Destroy(s) ==
    \/ secrets' = secrets \ {s} /\ UNCHANGED disturbed
    \/ "xapi" \in Faults /\ UNCHANGED secrets /\ disturbed' = TRUE

(* What others do to VMs that share secrets with one a set_for_vm works on. *)
Shares(v, w) == In(tls[v]) \cap In(tls[w]) # {}
Busy(v) == \E c \in Calls : call[c].pc # "idle" /\ call[c].vm = v
Undisturbed(v) ==
    "overlap" \notin Faults =>
        ~Busy(v) /\ \A w \in living : Busy(w) => ~Shares(v, w)

Tell(vs) == changed' = [h \in Hosts |-> changed[h] \cup vs]

(***************************************************************************)
(* XAPI: what others do to VMs                                             *)
(***************************************************************************)
(* VM.clone, VM.copy, VM.snapshot copy other_config.  The 'add' event is   *)
(* not one the monitors look at.                                           *)
CloneVM(v, w) ==
    /\ v \in living /\ w \in fresh /\ Undisturbed(v)
    /\ living' = living \cup {w} /\ fresh' = fresh \ {w}
    /\ tls' = [tls EXCEPT ![w] = tls[v]]
    /\ broken' = IF v \in broken THEN broken \cup {w} ELSE broken
    /\ UNCHANGED <<secrets, created, files, cache, changed, tidy, call,
                   disturbed>>

(* A change of the record that has nothing to do with TLS. *)
ModifyVM(v) ==
    /\ v \in living
    /\ Tell({v})
    /\ UNCHANGED <<vms, secrets, created, files, cache, tidy, call, broken,
                   disturbed>>

(* Some monitor has seen the secrets of the VM and nothing of it since. *)
Seen(v) ==
    \E h \in Hosts :
        /\ v \notin changed[h]
        /\ \A k \in KeysOf(tls[v]) : cache[h][v][k] = tls[v][k]

DestroyVM(v) ==
    /\ v \in living /\ Undisturbed(v)
    /\ "unseen" \notin Faults => Seen(v)
    /\ living' = living \ {v}
    /\ Tell({v})
    /\ UNCHANGED <<fresh, tls, secrets, created, files, cache, tidy, call,
                   broken, disturbed>>

(***************************************************************************)
(* The monitor of a host, as far as secrets go                             *)
(***************************************************************************)
(* process_vmrecord: the secrets in the record are remembered; those that  *)
(* the record had before and has no more are not forgotten.                *)
Remember(h, v) ==
    /\ tidy[h].pc = "idle" /\ v \in changed[h] /\ v \in living
    /\ cache' = [cache EXCEPT ![h][v] =
                    [k \in Keys |-> IF tls[v][k] # 0 THEN tls[v][k] ELSE @[k]]]
    /\ changed' = [changed EXCEPT ![h] = @ \ {v}]
    /\ UNCHANGED <<vms, secrets, created, files, tidy, call, broken, disturbed>>

(* Mutant: of a VM without secrets too. *)
process_vm_del_unknown(h, v) ==
    /\ tidy[h].pc = "idle" /\ v \in changed[h] /\ v \notin living
    /\ changed' = [changed EXCEPT ![h] = @ \ {v}]
    /\ tidy' = [tidy EXCEPT ![h] = [NoTidy EXCEPT !.pc = "count", !.vm = v,
                                      !.left = KeysOf(cache[h][v])]]
    /\ UNCHANGED <<vms, secrets, created, files, cache, call, broken, disturbed>>

process_vm_del(h, v) ==
    /\ tidy[h].pc = "idle" /\ v \in changed[h] /\ v \notin living
    /\ changed' = [changed EXCEPT ![h] = @ \ {v}]
    /\ tidy' = [tidy EXCEPT ![h] =
                  IF cache[h][v] = NoKeys THEN NoTidy
                  ELSE [NoTidy EXCEPT !.pc = "count", !.vm = v,
                                      !.left = KeysOf(cache[h][v])]]
    /\ UNCHANGED <<vms, secrets, created, files, cache, call, broken, disturbed>>

(* One key is dealt with; after the last one the VM is forgotten. *)
TidyNext(h, k) ==
    LET t == tidy[h] IN
    IF t.left = {k}
      THEN /\ tidy' = [tidy EXCEPT ![h] = NoTidy]
           /\ cache' = [cache EXCEPT ![h][t.vm] = NoKeys]
      ELSE /\ tidy' = [tidy EXCEPT ![h] = [t EXCEPT !.pc = "count",
                                            !.left = @ \ {k}, !.key = "none"]]
           /\ cache' = cache

(* A secret still in use is kept ... *)
TidyCount(h) ==
    /\ tidy[h].pc = "count"
    /\ \E k \in tidy[h].left :
          IF Removable(cache[h][tidy[h].vm][k], 0)
            THEN /\ tidy' = [tidy EXCEPT ![h].pc = "destroy", ![h].key = k]
                 /\ cache' = cache
            ELSE TidyNext(h, k)
    /\ UNCHANGED <<vms, secrets, created, files, changed, call, broken, disturbed>>

(* ... and one that is not is destroyed, by another host perhaps. *)
TidyDestroy(h) ==
    /\ tidy[h].pc = "destroy"
    /\ Destroy(cache[h][tidy[h].vm][tidy[h].key])
    /\ TidyNext(h, tidy[h].key)
    /\ UNCHANGED <<vms, created, files, changed, call, broken>>

(* The loop loses XAPI: what it was about to do, and the deletions it was  *)
(* to be told of, are gone; it sees all records again.                     *)
Reconnect(h) ==
    /\ "xapi" \in Faults
    /\ tidy' = [tidy EXCEPT ![h] = NoTidy]
    /\ changed' = [changed EXCEPT ![h] = living]
    /\ disturbed' = TRUE
    /\ UNCHANGED <<vms, secrets, created, files, cache, call, broken>>

(* The process ends and another starts. *)
Restart(h) ==
    /\ "crash" \in Faults
    /\ tidy' = [tidy EXCEPT ![h] = NoTidy]
    /\ cache' = [cache EXCEPT ![h] = [v \in VMs |-> NoKeys]]
    /\ changed' = [changed EXCEPT ![h] = living]
    /\ disturbed' = TRUE
    /\ UNCHANGED <<vms, secrets, created, files, call, broken>>

(***************************************************************************)
(* set_for_vm                                                              *)
(***************************************************************************)
CallAt(c, new) == call' = [call EXCEPT ![c] = new]

(* After the last secret _destroy_for_vm goes through the temporary files  *)
(* by the names its dictionary has for them, not by their paths: it finds  *)
(* none, and removes none.                                                 *)
Destroyed(t) ==
    IF t.left = {} THEN [t EXCEPT !.pc = "create", !.left = Keys] ELSE t

(* _destroy_for_vm reads which secrets the VM refers to. *)
SetBegin(c, v) ==
    /\ call[c].pc = "idle" /\ v \in living /\ Undisturbed(v)
    /\ created + Cardinality(Keys) <= MaxSecrets
    /\ CallAt(c, Destroyed([NoCall EXCEPT !.pc = "count", !.vm = v,
                                          !.old = tls[v], !.left = KeysOf(tls[v])]))
    /\ UNCHANGED <<vms, secrets, created, files, cache, changed, tidy, broken,
                   disturbed>>

SetNext(c, k) ==
    CallAt(c, Destroyed([call[c] EXCEPT !.pc = "count", !.left = @ \ {k},
                                        !.key = "none"]))

(* "Remove if there is no VMs other than this one who use the secret". *)
SetCount(c) ==
    /\ call[c].pc = "count"
    /\ \E k \in call[c].left :
          IF Removable(call[c].old[k], 1)
            THEN CallAt(c, [call[c] EXCEPT !.pc = "destroy", !.key = k])
            ELSE SetNext(c, k)
    /\ UNCHANGED <<vms, secrets, created, files, cache, changed, tidy, broken,
                   disturbed>>

SetDestroy(c) ==
    /\ call[c].pc = "destroy"
    /\ Destroy(call[c].old[call[c].key])
    /\ SetNext(c, call[c].key)
    /\ UNCHANGED <<vms, created, files, cache, changed, tidy, broken>>

(* An exception leaves set_for_vm: its VM has lost some secrets, or all.   *)
SetRaises(c) ==
    /\ CallAt(c, NoCall)
    /\ broken' = broken \cup {call[c].vm}

SetCreate(c) ==
    /\ call[c].pc = "create"
    /\ created < MaxSecrets
    /\ created' = created + 1
    /\ secrets' = secrets \cup {created'}
    /\ \E k \in call[c].left :
          CallAt(c, [call[c] EXCEPT !.new[k] = created', !.left = @ \ {k},
                                    !.pc = IF call[c].left = {k} THEN "update"
                                                                 ELSE @])
    /\ UNCHANGED <<vms, files, cache, changed, tidy, broken, disturbed>>

(* update_vm_other_config writes all the keys; the rest of other_config is *)
(* a matter of MonitoredVM.                                                *)
SetUpdate(c) ==
    LET v == call[c].vm IN
    /\ call[c].pc = "update"
    /\ IF v \in living
         THEN /\ tls' = [tls EXCEPT ![v] = call[c].new]
              /\ Tell({v})
              /\ CallAt(c, NoCall)
              /\ broken' = broken \ {v}
         ELSE UNCHANGED <<tls, changed>> /\ SetRaises(c)
    /\ UNCHANGED <<living, fresh, secrets, created, files, cache, tidy, disturbed>>

SetFails(c) ==
    /\ "xapi" \in Faults /\ call[c].pc # "idle"
    /\ SetRaises(c)
    /\ disturbed' = TRUE
    /\ UNCHANGED <<vms, secrets, created, files, cache, changed, tidy>>

(* A connection to the Docker of the VM from this host reads all its       *)
(* secrets and writes them to files, unless there are files less than a    *)
(* minute old.                                                             *)
export_for_vm(v) ==
    /\ v \in Local \cap living /\ KeysOf(tls[v]) = Keys /\ In(tls[v]) \subseteq secrets
    /\ files' = files \cup {v}
    /\ UNCHANGED <<vms, secrets, created, cache, changed, tidy, call, broken,
                   disturbed>>

-----------------------------------------------------------------------------
Init ==
    /\ living = {CHOOSE v \in VMs : TRUE}
    /\ fresh = VMs \ living
    /\ tls = [v \in VMs |-> NoKeys]
    /\ secrets = {} /\ created = 0
    /\ files = {}
    /\ cache = [h \in Hosts |-> [v \in VMs |-> NoKeys]]
    /\ changed = [h \in Hosts |-> {}]
    /\ tidy = [h \in Hosts |-> NoTidy]
    /\ call = [c \in Calls |-> NoCall]
    /\ broken = {} /\ disturbed = FALSE

process_event(h, v) == Remember(h, v) \/ process_vm_del(h, v)

MonitorStep(h) ==
    \/ \E v \in VMs : process_event(h, v)
    \/ TidyCount(h)
    \/ TidyDestroy(h)

CallStep(c) ==
    \/ SetCount(c)
    \/ SetDestroy(c)
    \/ SetCreate(c)
    \/ SetUpdate(c)

Environment ==
    \/ \E v, w \in VMs : CloneVM(v, w)
    \/ \E v \in VMs : ModifyVM(v) \/ DestroyVM(v) \/ export_for_vm(v)
    \/ \E h \in Hosts : Reconnect(h) \/ Restart(h)
    \/ \E c \in Calls, v \in VMs : SetBegin(c, v)
    \/ \E c \in Calls : SetFails(c)

Next ==
    \/ \E h \in Hosts : MonitorStep(h)
    \/ \E c \in Calls : CallStep(c)
    \/ Environment

Spec == Init /\ [][Next]_vars

(* Calls go on, and so do the monitors, each of which deals with all the   *)
(* events of a batch before it asks for more.                              *)
Fairness ==
    /\ \A h \in Hosts : /\ \A v \in VMs : WF_vars(process_event(h, v))
                        /\ WF_vars(TidyCount(h) \/ TidyDestroy(h))
    /\ \A c \in Calls : WF_vars(CallStep(c))

FairSpec == Spec /\ Fairness

-----------------------------------------------------------------------------
(***************************************************************************)
(* Properties                                                              *)
(***************************************************************************)
(* Types; secrets are among those created; a removal under way has         *)
(* something to remove (process_vm_del).                                   *)
TypeOK ==
    /\ living \subseteq VMs /\ fresh \subseteq VMs \ living /\ files \subseteq VMs
    /\ tls \in [VMs -> [Keys -> Secrets \cup {0}]]
    /\ created \in 0..MaxSecrets /\ secrets \subseteq 1..created
    /\ cache \in [Hosts -> [VMs -> [Keys -> Secrets \cup {0}]]]
    /\ changed \in [Hosts -> SUBSET VMs]
    /\ broken \subseteq VMs /\ disturbed \in BOOLEAN
    /\ \A h \in Hosts : tidy[h].pc # "idle" =>
            tidy[h].vm \in VMs /\ tidy[h].left \subseteq Keys /\ tidy[h].left # {}
    /\ \A c \in Calls :
        /\ call[c].pc \in {"idle", "count", "destroy", "create", "update"}
        /\ call[c].pc # "idle" => call[c].vm \in VMs

(* The secrets a VM refers to are there: whoever tidies after other VMs,   *)
(* on whatever host, and whatever secrets they share, a VM loses its own   *)
(* only to a set_for_vm of its own that is under way or failed.            *)
(* (remove_if_refcount_less_or_equal)                                      *)
InUseKept ==
    \A v \in living : v \in broken \/ Busy(v) \/ In(tls[v]) \subseteq secrets

(* A call holds the secrets it is about to replace and those it created.   *)
Held(s) == \E c \in Calls : s \in In(call[c].old) \cup In(call[c].new)

(* A monitor will come to it: it remembers the secret of a VM that is gone *)
(* and has not dealt with that yet.                                        *)
Pending(s) ==
    \E h \in Hosts, v \in VMs \ living :
        \/ v \in changed[h] /\ s \in In(cache[h][v])
        \/ /\ tidy[h].pc # "idle" /\ tidy[h].vm = v
           /\ \E k \in tidy[h].left : cache[h][v][k] = s

(* No secret is left behind: one that nobody refers to is still known to   *)
(* somebody who will look at it, as long as no call to XAPI failed and no  *)
(* monitor restarted.  (process_vm_del: "Tidy TLS secrets after            *)
(* vm-destroy"; _destroy_for_vm)                                           *)
NothingForgotten ==
    \/ disturbed \/ broken # {}
    \/ \A s \in secrets : InUse(s) \/ Held(s) \/ Pending(s)

(* And it goes in the end. *)
Tidied ==
    \A s \in Secrets :
        s \in secrets /\ ~InUse(s) ~>
            s \notin secrets \/ InUse(s) \/ disturbed \/ broken # {}

-----------------------------------------------------------------------------
(* "destroy_tls_secrets is wiping certs and keys for %s" (_destroy_for_vm  *)
(* of util/tls_secret.py): when it is done, the host has no copy of the    *)
(* old certificates and keys of the VM to connect with.                    *)
Wiped ==
    [][\A c \in Calls : call[c].pc # "create" /\ call'[c].pc = "create"
            => call'[c].vm \notin files']_vars

=============================================================================
