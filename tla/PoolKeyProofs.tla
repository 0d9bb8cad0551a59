--------------------------- MODULE PoolKeyProofs ---------------------------
(***************************************************************************)
(* Proofs about PoolKey, for any number of callers and key pairs.  The     *)
(* facts about single steps are stated so that the modules that extend     *)
(* PoolKey can use them.                                                   *)
(***************************************************************************)
EXTENDS PoolKey, TLAPS

LookupType ==
    [pc : LookupPCs, half : Halves, pair : Pairs \cup {Absent}]

(* Types; who makes a key has a pair, and who is about to write it has     *)
(* created both its secrets.                                               *)
KeyTypes ==
    /\ pool \in PoolConfig
    /\ secrets \subseteq Pairs \X Halves
    /\ key \in [Calls -> LookupType]
    /\ raced \in BOOLEAN
    /\ \A c \in Calls :
        /\ key[c].pc \in Making \cup {"got"} => key[c].pair \in Pairs
        /\ key[c].pc = "set" => KeySecrets(key[c].pair) \subseteq secrets

(* As long as no two calls have been making a key at once, at most one is, *)
(* and it does so because there was none.                                  *)
OneMaker ==
    ~raced => \A c \in Calls : key[c].pc \in Making =>
                /\ Missing
                /\ \A d \in Calls : key[d].pc \in Making => d = c

KeyInv == KeyTypes /\ KeyWhole /\ OneMaker /\ HandedOutIsPool

-----------------------------------------------------------------------------
LEMMA KeyInitial ==
    ASSUME KeyInit
    PROVE  KeyInv
<1> USE DEF KeyInit, Halves, NoKey, KeySecrets, NoLookup
<1>1. KeyTypes
  <2>1. pool \in PoolConfig /\ secrets \subseteq Pairs \X Halves
    BY DEF PoolConfig
  <2>2. key \in [Calls -> LookupType] /\ \A c \in Calls : key[c].pc = "none"
    BY DEF LookupType, LookupPCs
  <2>3. QED BY <2>1, <2>2 DEF KeyTypes, Making
<1>2. KeyWhole
  <2>1. CASE pool = NoKey
    BY <2>1 DEF KeyWhole, Missing
  <2>2. ASSUME NEW p \in Pairs, pool = [h \in Halves |-> p], secrets = KeySecrets(p)
        PROVE  KeyWhole
    BY <2>2 DEF KeyWhole
  <2>3. QED BY <2>1, <2>2
<1>3. OneMaker /\ HandedOutIsPool
  BY DEF OneMaker, HandedOutIsPool, Making
<1>4. QED BY <1>1, <1>2, <1>3 DEF KeyInv

(* A call begins a lookup, or ends it. *)
LEMMA KeyBeginsEnds ==
    ASSUME KeyInv, NEW c \in Calls,
           (\E h \in Halves : KeyBegin(c, h)) \/ KeyEnd(c)
    PROVE  KeyInv'
<1>1. PICK t \in LookupType : /\ key' = [key EXCEPT ![c] = t]
                              /\ t.pc \in {"none", "look"}
                              /\ UNCHANGED <<pool, secrets, raced>>
  BY DEF KeyBegin, KeyEnd, KeyGoes, NoLookup, LookupType, LookupPCs, Halves
<1>2. KeyTypes'
  BY <1>1 DEF KeyInv, KeyTypes, Making
<1>3. KeyWhole'
  BY <1>1 DEF KeyInv, KeyWhole, Missing
<1>4. OneMaker' /\ HandedOutIsPool'
  BY <1>1 DEF KeyInv, KeyTypes, OneMaker, HandedOutIsPool, Making, Missing
<1>5. QED BY <1>2, <1>3, <1>4 DEF KeyInv

(* The pool names both halves, or neither. *)
LEMMA MissingBoth ==
    ASSUME KeyInv
    PROVE  /\ Missing => pool.public = Absent
           /\ ~Missing => \A h \in Halves : pool[h] = pool.public /\ pool[h] \in Pairs
BY DEF KeyInv, KeyTypes, KeyWhole, Missing, Halves, PoolConfig

LEMMA KeyFoundKeeps ==
    ASSUME KeyInv, NEW c \in Calls, KeyFound(c)
    PROVE  KeyInv'
<1>1. /\ UNCHANGED <<pool, secrets, raced>>
      /\ key' = [key EXCEPT ![c] = [KeyAt(c, "got") EXCEPT !.pair = pool.public]]
      /\ ~Missing /\ pool.public \in Pairs
  BY MissingBoth DEF KeyFound, KeyGoes, KeyInv, KeyTypes, LookupType
<1>2. KeyTypes'
  BY <1>1 DEF KeyInv, KeyTypes, KeyAt, LookupType, LookupPCs, Making
<1>3. KeyWhole'
  BY <1>1 DEF KeyInv, KeyWhole, Missing
<1>4. OneMaker' /\ HandedOutIsPool'
  BY <1>1 DEF KeyInv, KeyTypes, KeyAt, LookupType, OneMaker, HandedOutIsPool,
              Making, Missing
<1>5. QED BY <1>2, <1>3, <1>4 DEF KeyInv

LEMMA KeyMissingKeeps ==
    ASSUME KeyInv, NEW c \in Calls, KeyMissing(c)
    PROVE  KeyInv'
<1>1. PICK p \in Pairs : key' = [key EXCEPT ![c] = [KeyAt(c, "create") EXCEPT !.pair = p]]
  BY DEF KeyMissing, KeyGoes, Unused
<1>2. /\ UNCHANGED <<pool, secrets>> /\ Missing
      /\ raced' = (raced \/ \E d \in Calls \ {c} : key[d].pc \in Making)
  BY DEF KeyMissing
<1>3. KeyTypes'
  BY <1>1, <1>2 DEF KeyInv, KeyTypes, KeyAt, LookupType, LookupPCs, Making
<1>4. KeyWhole'
  BY <1>2 DEF KeyInv, KeyWhole, Missing
<1>5. OneMaker' /\ HandedOutIsPool'
  BY <1>1, <1>2 DEF KeyInv, KeyTypes, KeyAt, LookupType, OneMaker,
                    HandedOutIsPool, Making, Missing
<1>6. QED BY <1>3, <1>4, <1>5 DEF KeyInv

LEMMA CreateSecretsKeeps ==
    ASSUME KeyInv, NEW c \in Calls, CreateSecrets(c)
    PROVE  KeyInv'
<1>1. /\ UNCHANGED <<pool, raced>>
      /\ key' = [key EXCEPT ![c] = KeyAt(c, "set")]
      /\ secrets' = secrets \cup KeySecrets(key[c].pair)
      /\ key[c].pc = "create" /\ key[c].pair \in Pairs
  BY DEF CreateSecrets, KeyGoes, KeyInv, KeyTypes, Making
<1>2. KeySecrets(key[c].pair) \subseteq Pairs \X Halves
  BY <1>1 DEF KeySecrets
<1>3. KeyTypes'
  BY <1>1, <1>2 DEF KeyInv, KeyTypes, KeyAt, LookupType, LookupPCs, Making
<1>4. KeyWhole'
  BY <1>1 DEF KeyInv, KeyWhole, Missing
<1>5. OneMaker' /\ HandedOutIsPool'
  BY <1>1 DEF KeyInv, KeyTypes, KeyAt, LookupType, OneMaker, HandedOutIsPool,
              Making, Missing
<1>6. QED BY <1>3, <1>4, <1>5 DEF KeyInv

LEMMA SetPoolConfigKeeps ==
    ASSUME KeyInv, NEW c \in Calls, SetPoolConfig(c)
    PROVE  KeyInv'
<1>1. /\ UNCHANGED <<secrets, raced>>
      /\ key' = [key EXCEPT ![c] = KeyAt(c, "again")]
      /\ pool' = [h \in Halves |-> key[c].pair]
      /\ key[c].pc = "set" /\ key[c].pair \in Pairs
      /\ KeySecrets(key[c].pair) \subseteq secrets
  BY DEF SetPoolConfig, PoolWritten, KeyGoes, KeyInv, KeyTypes, Making
<1>2. KeyTypes'
  BY <1>1 DEF KeyInv, KeyTypes, KeyAt, LookupType, LookupPCs, Making, PoolConfig
<1>3. KeyWhole'
  BY <1>1 DEF KeyWhole, Halves
<1>4. ASSUME ~raced
      PROVE  \A d \in Calls : key'[d].pc \notin Making \cup {"got"}
  <2>1. Missing /\ \A d \in Calls : key[d].pc \in Making => d = c
    BY <1>1, <1>4 DEF KeyInv, OneMaker, Making
  <2>2. \A d \in Calls : key[d].pc # "got"
    BY <1>4, <2>1, MissingBoth, PairsAssumption
       DEF KeyInv, KeyTypes, HandedOutIsPool
  <2>3. QED
    BY <1>1, <2>1, <2>2 DEF KeyInv, KeyTypes, KeyAt, LookupType, Making
<1>5. OneMaker' /\ HandedOutIsPool'
  BY <1>1, <1>4 DEF OneMaker, HandedOutIsPool
<1>6. QED BY <1>2, <1>3, <1>5 DEF KeyInv

(* Whatever a call does about the key keeps the invariant. *)
LEMMA KeyStepKeeps ==
    ASSUME KeyInv, NEW c \in Calls, KeyStep(c)
    PROVE  KeyInv'
BY KeyFoundKeeps, KeyMissingKeeps, CreateSecretsKeeps, SetPoolConfigKeeps
   DEF KeyStep

LEMMA KeyUnchanged ==
    ASSUME KeyInv, UNCHANGED keyVars
    PROVE  KeyInv'
BY DEF KeyInv, KeyTypes, KeyWhole, OneMaker, HandedOutIsPool, keyVars, Missing

-----------------------------------------------------------------------------
(* However many callers, on whatever hosts, find that there is no key, and *)
(* wherever they fail: the pool never names halves of two pairs, nor       *)
(* secrets that are not there; and as long as no two have been making a    *)
(* key at once, nobody is handed a key the pool will not know.             *)
THEOREM PoolKeyCorrect == KeySpec => [](KeyWhole /\ HandedOutIsPool)
<1>1. KeyInv /\ [KeyNext]_keyVars => KeyInv'
  BY KeyBeginsEnds, KeyStepKeeps, KeyUnchanged DEF KeyNext
<1>2. KeyInv => KeyWhole /\ HandedOutIsPool
  BY DEF KeyInv
<1>3. QED BY <1>1, <1>2, KeyInitial, PTL DEF KeySpec

=============================================================================
