------------------------------ MODULE PoolKey ------------------------------
(***************************************************************************)
(* The SSH key of the pool: get_idrsa_secret and set_idrsa_secret of       *)
(* api_helper.  The two halves of a key pair are secrets in XAPI, and the  *)
(* other_config of the pool names them.  Whoever finds no key makes one,   *)
(* and nothing keeps two callers, on any hosts of the pool, from doing so  *)
(* at the same time.                                                       *)
(*                                                                         *)
(* A lookup is part of a call that does more with the key, so that this    *)
(* module is meant to be extended; by itself it lets calls look up halves  *)
(* in any order.  A step is one call to XAPI, or several of which only the *)
(* first can be told from outside.                                         *)
(***************************************************************************)
EXTENDS FiniteSets

CONSTANTS
    Calls,   \* concurrent calls
    Pairs,   \* key pairs ssh-keygen may come up with
    Absent

ASSUME PairsAssumption == Absent \notin Pairs

VARIABLES
    pool,       \* its other_config: the pair each named secret is a half of
    secrets,    \* the secrets in XAPI
    key,        \* [Calls -> Lookup]
    raced       \* history: two calls have been making a key at once

keyVars == <<pool, secrets, key, raced>>

Halves == {"private", "public"}
PoolConfig == [Halves -> Pairs \cup {Absent}]
NoKey == [h \in Halves |-> Absent]
KeySecrets(p) == {<<p, h>> : h \in Halves}

(* A lookup: where it is, the half it wants, the pair it made or got.      *)
NoLookup == [pc |-> "none", half |-> "public", pair |-> Absent]

Making == {"create", "set"}
LookupPCs == {"none", "look", "again", "got"} \cup Making

KeyGoes(c, t) == key' = [key EXCEPT ![c] = t]
KeyAt(c, pc) == [key[c] EXCEPT !.pc = pc]

KeyBegin(c, half) ==
    /\ key[c].pc = "none"
    /\ KeyGoes(c, [NoLookup EXCEPT !.pc = "look", !.half = half])
    /\ UNCHANGED <<pool, secrets, raced>>

Missing == \E h \in Halves : pool[h] = Absent

(* The key is there; the secret pool.other_config names is read, which     *)
(* nobody ever changes or destroys.                                        *)
KeyFound(c) ==
    /\ key[c].pc \in {"look", "again"} /\ ~Missing
    /\ <<pool[key[c].half], key[c].half>> \in secrets
    /\ KeyGoes(c, [KeyAt(c, "got") EXCEPT !.pair = pool[key[c].half]])
    /\ UNCHANGED <<pool, secrets, raced>>

(* ssh-keygen never makes a pair twice. *)
Unused == {p \in Pairs : /\ KeySecrets(p) \cap secrets = {}
                         /\ \A c \in Calls : key[c].pair # p}

(* Mutant: nobody looks whether it is. *)
KeyMissing_unchecked(c) ==
    /\ key[c].pc = "look"
    /\ \E p \in Unused : KeyGoes(c, [KeyAt(c, "create") EXCEPT !.pair = p])
    /\ raced' = (raced \/ \E d \in Calls \ {c} : key[d].pc \in Making)
    /\ UNCHANGED <<pool, secrets>>

(* It is not: create_idrsa makes a new pair. *)
KeyMissing(c) ==
    /\ key[c].pc = "look" /\ Missing
    /\ \E p \in Unused : KeyGoes(c, [KeyAt(c, "create") EXCEPT !.pair = p])
    /\ raced' = (raced \/ \E d \in Calls \ {c} : key[d].pc \in Making)
    /\ UNCHANGED <<pool, secrets>>

(* Two secrets nobody knows of yet. *)
CreateSecrets(c) ==
    /\ key[c].pc = "create"
    /\ secrets' = secrets \cup KeySecrets(key[c].pair)
    /\ KeyGoes(c, KeyAt(c, "set"))
    /\ UNCHANGED <<pool, raced>>

(* Mutant: a half that was there already is kept. *)
PoolWritten_keeps(c) ==
    [h \in Halves |-> IF h = "private" /\ pool[h] # Absent THEN pool[h]
                                                           ELSE key[c].pair]

(* set_pool_other_config_values: both keys of the map are set, whatever    *)
(* they were, and it is written back.                                      *)
PoolWritten(c) == [h \in Halves |-> key[c].pair]

SetPoolConfig(c) ==
    /\ key[c].pc = "set"
    /\ pool' = PoolWritten(c)
    /\ KeyGoes(c, KeyAt(c, "again"))
    /\ UNCHANGED <<secrets, raced>>

(* The call has used the key, or fails. *)
KeyEnd(c) ==
    /\ key[c].pc # "none"
    /\ KeyGoes(c, NoLookup)
    /\ UNCHANGED <<pool, secrets, raced>>

-----------------------------------------------------------------------------
KeyInit ==
    /\ \/ pool = NoKey /\ secrets = {}
       \/ \E p \in Pairs : /\ pool = [h \in Halves |-> p]
                           /\ secrets = KeySecrets(p)
    /\ key = [c \in Calls |-> NoLookup]
    /\ raced = FALSE

KeyStep(c) ==
    \/ KeyFound(c)
    \/ KeyMissing(c)
    \/ CreateSecrets(c)
    \/ SetPoolConfig(c)

KeyNext ==
    \E c \in Calls :
        \/ \E h \in Halves : KeyBegin(c, h)
        \/ KeyStep(c)
        \/ KeyEnd(c)

KeySpec == KeyInit /\ [][KeyNext]_keyVars

-----------------------------------------------------------------------------
(***************************************************************************)
(* Properties                                                              *)
(***************************************************************************)
(* The two secrets the pool names are the halves of one key pair, and they *)
(* are there, whoever made them and however many did.                      *)
(* (set_idrsa_secret, set_pool_other_config_values)                        *)
KeyWhole ==
    /\ pool.private = pool.public
    /\ ~Missing => KeySecrets(pool.public) \subseteq secrets

(* Unless two calls have been making a key at once, a key that was handed  *)
(* out is the key of the pool: what a VM was prepared with lets the pool   *)
(* in.  (get_idrsa_secret)                                                 *)
HandedOutIsPool ==
    ~raced => \A c \in Calls :
                 key[c].pc = "got" => key[c].pair = pool.public

=============================================================================
