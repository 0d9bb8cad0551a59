--------------------------- MODULE VmDisksProofs ---------------------------
(***************************************************************************)
(* Proofs about VmDisks, for any number of calls, disks, devices, key      *)
(* pairs and failures.                                                     *)
(***************************************************************************)
EXTENDS VmDisks, PoolKeyProofs

(***************************************************************************)
(* The inductive invariant                                                 *)
(***************************************************************************)
VdiType ==
    [kind : {"free", "data", "iso", "drive", "image"}, marked : BOOLEAN,
     full : BOOLEAN, pair : Pairs \cup {Absent}]
VbdType ==
    [vdi : Vdis \cup {NULLREF}, device : 0 .. LastDevice, marked : BOOLEAN,
     plugged : BOOLEAN]
CallType ==
    [pc : PCs, vbds : SUBSET Vbds, wasRunning : BOOLEAN, disk : Vdis \cup {NULLREF},
     device : 0 .. LastDevice, vbd : Vbds \cup {NULLREF}, old : Vdis \cup {NULLREF},
     pair : Pairs \cup {Absent}]

DiskTypes ==
    /\ op \in {"drive", "image"} /\ running \in BOOLEAN
    /\ vdi \in [Vdis -> VdiType] /\ vbd \in [Vbds -> VbdType]
    /\ cd \in Vdis \cup {NULLREF, NoDrive}
    /\ call \in [Calls -> CallType]

DrivePCs == {"net", "vif", "key", "look", "unplug", "device", "old", "plug"}
ImagePCs == {"certs", "insert", "ask", "eject", "again", "wait", "final", "destroy"}
Before == {"idle", "net", "vif", "key", "certs", "create"}
Removing == {"unplug", "device", "old"}

(* What a call has at which place. *)
Place(c) ==
    /\ call[c].pc \in DrivePCs => op = "drive"
    /\ call[c].pc \in ImagePCs => op = "image"
    /\ key[c].pc # "none" => call[c].pc = "key"
    /\ call[c].pc \in Before => call[c].disk = NULLREF
    /\ call[c].pc \notin Before \cup {"final"} => call[c].disk \in Vdis
    /\ call[c].pc \notin Removing => call[c].old = NULLREF
    /\ call[c].pc \in Removing => call[c].old \in Vdis
    /\ call[c].pc \in {"unplug", "device", "plug"} => call[c].vbd \in Vbds

(* A kind a disk of the calls has, or had before it was destroyed. *)
Ours(d) == vdi[d].kind \in {op, "free"}

Disks ==
    \A d \in Vdis :
        /\ vdi[d].kind \in {"drive", "image"} => vdi[d].kind = op
        /\ vdi[d].marked => Ours(d)
        /\ ~vdi[d].full => \/ vdi[d] = FreeVdi \/ d \in abandoned
                           \/ \E c \in Calls : call[c].disk = d

(* Attached disks are there, and attached once. *)
Devices ==
    \A b \in Used :
        /\ vdi[vbd[b].vdi] # FreeVdi
        /\ vbd[b].marked => Ours(vbd[b].vdi)
        /\ Ours(vbd[b].vdi) => op = "drive"
        /\ vbd[b].plugged => running
        /\ \A e \in Used : vbd[e].vdi = vbd[b].vdi => e = b

(* A disk that is being made is complete when it is about to be attached,  *)
(* and nobody else knows of it until then.                                 *)
Early == {"upload", "look"} \cup Removing

Secret(c) ==
    call[c].pc \in Early =>
        /\ \A b \in Used : vbd[b].vdi # call[c].disk
        /\ \A e \in Calls : call[e].old # call[c].disk
        /\ vdi[call[c].disk].kind = op
        /\ call[c].pc # "upload" => vdi[call[c].disk].full

(* What calls hold is theirs; the device that is removed has the old disk, *)
(* the one that is plugged in the new one.                                 *)
Holds(c) ==
    /\ call[c].disk \in Vdis => Ours(call[c].disk)
    /\ call[c].old \in Vdis => Ours(call[c].old)
    /\ call[c].disk \in Vdis => \A e \in Calls \ {c} : call[e].disk # call[c].disk
    /\ call[c].vbd \in Used =>
         /\ call[c].pc \in {"unplug", "device"} => vbd[call[c].vbd].vdi = call[c].old
         /\ call[c].pc = "plug" => vbd[call[c].vbd].vdi = call[c].disk
    /\ call[c].pc = "old" => \A b \in Used : vbd[b].vdi # call[c].old
    /\ call[c].pc = "plug" => vdi[call[c].disk].full \/ vdi[call[c].disk] = FreeVdi

(* The key in a drive, or that is about to be put into one, is the pool's. *)
GoodKey(p) == ~raced => p = pool.public /\ p # Absent
GoodKeys ==
    /\ \A d \in Vdis : vdi[d].kind = "drive" => GoodKey(vdi[d].pair)
    /\ \A c \in Calls : op = "drive" /\ call[c].pc = "create" => GoodKey(call[c].pair)

DiskInv ==
    /\ KeyInv /\ DiskTypes
    /\ \A c \in Calls : Place(c) /\ Secret(c) /\ Holds(c)
    /\ Disks /\ Devices /\ GoodKeys /\ NoDiskForgotten

-----------------------------------------------------------------------------
LEMMA FreeRecords ==
    /\ FreeVdi \in VdiType /\ FreeVbd \in VbdType /\ Idle \in CallType
    /\ Idle.pc = "idle" /\ Idle.disk = NULLREF /\ Idle.old = NULLREF
    /\ Idle.vbd = NULLREF /\ FreeVbd.vdi = NULLREF
    /\ FreeVdi.kind = "free" /\ ~FreeVdi.marked /\ ~FreeVdi.full
BY DisksAssumption DEF FreeVdi, FreeVbd, Idle, VdiType, VbdType, CallType, PCs

LEMMA DisksInitial ==
    ASSUME Init
    PROVE  DiskInv
<1>1. KeyInv
  BY KeyInitial DEF Init
<1>2. call = [c \in Calls |-> Idle] /\ \A c \in Calls : key[c] = NoLookup
  BY DEF Init, KeyInit
<1>3. \A c \in Calls : Place(c) /\ Secret(c) /\ Holds(c)
  <2> SUFFICES ASSUME NEW c \in Calls
               PROVE  Place(c) /\ Secret(c) /\ Holds(c)
    OBVIOUS
  <2>1. /\ call[c].pc = "idle" /\ call[c].disk = NULLREF /\ call[c].old = NULLREF
        /\ call[c].vbd = NULLREF /\ key[c].pc = "none"
    BY <1>2, FreeRecords DEF NoLookup
  <2>2. Place(c) /\ Secret(c)
    BY <2>1 DEF Place, Secret, DrivePCs, ImagePCs, Before, Removing, Early
  <2>3. Holds(c)
    BY <2>1, DisksAssumption DEF Holds, Used
  <2>4. QED BY <2>2, <2>3
<1>4. /\ op \in {"drive", "image"} /\ running \in BOOLEAN
      /\ cd \in Vdis \cup {NULLREF, NoDrive} /\ call \in [Calls -> CallType]
  BY <1>2, FreeRecords, DisksAssumption DEF Init
<1> DEFINE data == [FreeVdi EXCEPT !.full = TRUE, !.kind = "data"]
           iso == [FreeVdi EXCEPT !.full = TRUE, !.kind = "iso"]
           drive == [kind |-> "drive", marked |-> TRUE, full |-> TRUE, pair |-> pool.public]
<1>5. /\ data \in VdiType /\ data.kind = "data" /\ ~data.marked /\ data.full
      /\ iso \in VdiType /\ iso.kind = "iso" /\ ~iso.marked /\ iso.full
      /\ FirstVdi = [d \in Vdis |-> IF d = Data THEN data ELSE IF d = Iso THEN iso ELSE FreeVdi]
  <2>1. FreeVdi \in VdiType /\ ~FreeVdi.marked
    BY FreeRecords
  <2>2. \A kind \in {"data", "iso"} :
          LET d == [FreeVdi EXCEPT !.full = TRUE, !.kind = kind]
          IN  d \in VdiType /\ d.kind = kind /\ ~d.marked /\ d.full
    BY <2>1 DEF VdiType
  <2>3. FirstVdi = [d \in Vdis |-> IF d = Data THEN data ELSE IF d = Iso THEN iso ELSE FreeVdi]
    BY DEF FirstVdi
  <2>4. QED BY <2>2, <2>3
<1> HIDE DEF data, iso
<1>6. /\ FirstVbd \in [Vbds -> VbdType]
      /\ FirstVbd[DataVbd].vdi = Data /\ ~FirstVbd[DataVbd].marked
      /\ FirstVbd[DataVbd].plugged => running
      /\ \A b \in Vbds \ {DataVbd} : FirstVbd[b] = FreeVbd
  BY <1>4, FreeRecords, DisksAssumption DEF VbdType, FirstVbd, FreeVbd
<1>7. CASE vdi = FirstVdi /\ vbd = FirstVbd
  <2>1. vdi \in [Vdis -> VdiType] /\ \A d \in Vdis : vdi[d] \in {data, iso, FreeVdi}
    BY <1>5, <1>7, FreeRecords
  <2>2. Used = {DataVbd} /\ vdi[Data] = data
    BY <1>5, <1>6, <1>7, FreeRecords, DisksAssumption DEF Used
  <2>3. DiskTypes
    BY <1>4, <1>6, <1>7, <2>1 DEF DiskTypes
  <2>4. Disks /\ NoDiskForgotten
    BY <1>5, <2>1, FreeRecords DEF Disks, NoDiskForgotten, Ours
  <2>5. Devices
    BY <1>4, <1>5, <1>6, <1>7, <2>2, FreeRecords DEF Devices, Ours
  <2>6. GoodKeys
    BY <1>2, <1>5, <2>1, FreeRecords DEF GoodKeys
  <2>7. QED BY <1>1, <1>3, <2>3, <2>4, <2>5, <2>6 DEF DiskInv
<1>8. ASSUME NEW d \in Vdis \ {Data, Iso}, NEW b \in Vbds \ {DataVbd},
             op = "drive", ~Missing, vdi = [FirstVdi EXCEPT ![d] = drive],
             vbd = [FirstVbd EXCEPT ![b] = [vdi |-> d, device |-> 1, marked |-> TRUE,
                                            plugged |-> running]]
      PROVE  DiskInv
  <2>1. pool.public \in Pairs /\ pool.public # Absent
    BY <1>1, <1>8, MissingBoth, PairsAssumption DEF Halves
  <2>2. drive \in VdiType /\ drive.kind = "drive" /\ drive.full /\ drive.pair = pool.public
    BY <2>1 DEF VdiType
  <2> HIDE DEF drive
  <2>3. vdi \in [Vdis -> VdiType] /\ \A e \in Vdis \ {d} : vdi[e] \in {data, iso, FreeVdi}
    BY <1>5, <1>8, <2>2, FreeRecords
  <2>4. vdi[Data] = data /\ vdi[d] = drive
    BY <1>5, <1>8, DisksAssumption
  <2>5. /\ vbd \in [Vbds -> VbdType] /\ Used = {DataVbd, b}
        /\ vbd[DataVbd] = FirstVbd[DataVbd] /\ vbd[b].vdi = d
        /\ vbd[b].plugged => running
    <3>1. [vdi |-> d, device |-> 1, marked |-> TRUE, plugged |-> running] \in VbdType
      BY <1>4, DisksAssumption DEF VbdType
    <3>2. vbd \in [Vbds -> VbdType] /\ vbd[DataVbd] = FirstVbd[DataVbd] /\ vbd[b].vdi = d
      BY <1>6, <1>8, <3>1, DisksAssumption
    <3>3. \A e \in Vbds \ {DataVbd, b} : vbd[e].vdi = NULLREF
      BY <1>6, <1>8, FreeRecords
    <3>4. QED BY <1>6, <1>8, <3>2, <3>3, DisksAssumption DEF Used
  <2>6. DiskTypes
    BY <1>4, <2>3, <2>5 DEF DiskTypes
  <2>7. Disks /\ NoDiskForgotten
    BY <1>5, <1>8, <2>2, <2>3, <2>4, <2>5, FreeRecords
       DEF Disks, NoDiskForgotten, Ours, Drives, Attached
  <2>8. Devices
    BY <1>5, <1>6, <1>8, <2>2, <2>4, <2>5, FreeRecords DEF Devices, Ours
  <2>9. GoodKeys
    BY <1>2, <1>5, <2>1, <2>2, <2>3, <2>4, FreeRecords DEF GoodKeys, GoodKey
  <2>10. QED BY <1>1, <1>3, <2>6, <2>7, <2>8, <2>9 DEF DiskInv
<1>9. QED BY <1>7, <1>8 DEF Init

(***************************************************************************)
(* Steps that concern a call and leave disks and devices alone             *)
(***************************************************************************)
(* The call ends, or goes on where no disk is about to be attached or      *)
(* removed; the disks it lets go of are given up, or gone.                 *)
LetsGo(d) == d \in Vdis => d \in abandoned' \/ vdi[d] = FreeVdi

LEMMA CallOnly ==
    ASSUME DiskInv, NEW c \in Calls, NEW t \in CallType, Goes(c, t), KeyInv',
           UNCHANGED <<op, vdi, vbd, running, pool, raced>>,
           cd' \in Vdis \cup {NULLREF, NoDrive},
           abandoned \subseteq abandoned',
           \A e \in Calls \ {c} : key'[e] = key[e],
           Place(c)', t.pc \notin Early \cup {"plug"},
           \/ t.disk = call[c].disk
           \/ t.disk = NULLREF /\ LetsGo(call[c].disk),
           LetsGo(call[c].old),
           op = "drive" /\ t.pc = "create" => GoodKey(t.pair)
    PROVE  DiskInv'
<1>1. /\ call' \in [Calls -> CallType] /\ call'[c] = t
      /\ \A e \in Calls \ {c} : call'[e] = call[e]
  BY DEF Goes, DiskInv, DiskTypes
<1>2. DiskTypes'
  BY <1>1 DEF DiskInv, DiskTypes, CallType, VdiType, VbdType
<1>3. t.old = NULLREF
  BY <1>1 DEF Place, Early
<1>4. Used' = Used
  BY DEF Used
<1>5. \A e \in Calls : Place(e)'
  BY <1>1 DEF DiskInv, Place
<1>6. ASSUME NEW e \in Calls
      PROVE  Secret(e)'
  <2>1. CASE e = c
    BY <1>1, <2>1 DEF Secret
  <2>2. CASE e # c
    <3>1. call'[e] = call[e] /\ Secret(e) /\ Place(e)
      BY <1>1, <2>2 DEF DiskInv
    <3>2. call[e].pc \in Early => call[e].disk \in Vdis
      BY <3>1 DEF Place, Early, Before, Removing
    <3>3. call[e].pc \in Early => \A f \in Calls : call'[f].old # call[e].disk
      BY <1>1, <1>3, <3>1, <3>2, DisksAssumption DEF Secret
    <3>4. QED BY <1>4, <3>1, <3>3 DEF Secret
  <2>3. QED BY <2>1, <2>2
<1>7. ASSUME NEW e \in Calls
      PROVE  Holds(e)'
  <2>1. CASE e = c
    <3>1. t.disk \in Vdis => t.disk = call[c].disk
      BY DisksAssumption
    <3>2. QED
      BY <1>1, <1>3, <2>1, <3>1, DisksAssumption DEF DiskInv, Holds, Ours, Early, Removing
  <2>2. CASE e # c
    <3>1. call'[e] = call[e] /\ Holds(e)
      BY <1>1, <2>2 DEF DiskInv
    <3>2. call[e].disk \in Vdis => \A f \in Calls \ {e} : call'[f].disk # call[e].disk
      BY <1>1, <3>1, DisksAssumption DEF Holds
    <3>3. QED BY <1>4, <3>1, <3>2 DEF Holds, Ours
  <2>3. QED BY <2>1, <2>2
<1>8. Disks'
  <2>1. ASSUME NEW d \in Vdis, ~vdi[d].full, vdi[d] # FreeVdi
        PROVE  d \in abandoned' \/ \E e \in Calls : call'[e].disk = d
    BY <1>1, <2>1 DEF DiskInv, Disks, LetsGo
  <2>2. QED BY <2>1 DEF DiskInv, Disks, Ours
<1>9. Devices'
  BY <1>4 DEF DiskInv, Devices, Ours
<1>10. GoodKeys'
  BY <1>1 DEF DiskInv, GoodKeys, GoodKey
<1>11. NoDiskForgotten'
  <2>1. ASSUME NEW d \in Vdis, vdi[d].kind \in {"drive", "image"}, d \in Held
        PROVE  d \in Held' \cup abandoned'
    <3>1. PICK e \in Calls : d = call[e].disk \/ d = call[e].old
      BY <2>1 DEF Held
    <3>2. vdi[d] # FreeVdi
      BY <2>1, FreeRecords
    <3>3. CASE e = c
      BY <1>1, <2>1, <3>1, <3>2, <3>3 DEF Held, LetsGo
    <3>4. CASE e # c
      BY <1>1, <3>1, <3>4 DEF Held
    <3>5. QED BY <3>3, <3>4
  <2>2. Attached' = Attached /\ Drives' = Drives
    BY <1>4 DEF Attached, Drives
  <2>3. QED BY <2>1, <2>2 DEF DiskInv, NoDiskForgotten
<1>12. QED
  BY <1>2, <1>5, <1>6, <1>7, <1>8, <1>9, <1>10, <1>11 DEF DiskInv

LEMMA CallRecord ==
    ASSUME DiskInv, NEW c \in Calls
    PROVE  /\ call[c] \in CallType
           /\ \A pc \in PCs :
                /\ At(c, pc) \in CallType /\ At(c, pc).pc = pc
                /\ At(c, pc).disk = call[c].disk /\ At(c, pc).old = call[c].old
                /\ At(c, pc).vbd = call[c].vbd
<1>1. call[c] \in CallType
  BY DEF DiskInv, DiskTypes
<1>2. QED BY <1>1 DEF At, CallType

LEMMA CallTo ==
    ASSUME DiskInv, NEW c \in Calls, NEW pc \in PCs \ (Early \cup {"plug"}), To(c, pc),
           call[c].pc \notin Removing,
           UNCHANGED <<keyVars, op, vdi, vbd, running, abandoned>>,
           cd' \in Vdis \cup {NULLREF, NoDrive},
           pc \in DrivePCs => op = "drive", pc \in ImagePCs => op = "image",
           key[c].pc # "none" => pc = "key",
           pc \in Before => call[c].disk = NULLREF,
           pc \notin Before \cup {"final"} => call[c].disk \in Vdis,
           op = "drive" => pc # "create"
    PROVE  DiskInv'
<1> DEFINE t == At(c, pc)
<1>1. /\ t \in CallType /\ t.pc = pc /\ t.disk = call[c].disk /\ t.old = NULLREF
      /\ call[c].old = NULLREF
  BY CallRecord DEF DiskInv, Place
<1>2. Goes(c, t)
  BY DEF To
<1>3. /\ KeyInv' /\ UNCHANGED <<key, pool, raced, op, vdi, vbd, running>>
      /\ abandoned \subseteq abandoned'
  BY KeyUnchanged DEF DiskInv, keyVars
<1> HIDE DEF t
<1>4. call'[c] = t
  BY <1>2 DEF Goes, DiskInv, DiskTypes
<1>5. Place(c)'
  BY <1>1, <1>3, <1>4 DEF Place, Early, Removing
<1>6. LetsGo(call[c].old)
  BY <1>1, DisksAssumption DEF LetsGo
<1>7. /\ t.pc \notin Early \cup {"plug"} /\ ~(op = "drive" /\ t.pc = "create")
      /\ \A e \in Calls \ {c} : key'[e] = key[e]
  BY <1>1, <1>3
<1>8. QED BY <1>1, <1>2, <1>3, <1>5, <1>6, <1>7, CallOnly

LEMMA CallEnds ==
    ASSUME DiskInv, NEW c \in Calls, NEW S, GivesUp(c, S),
           call[c].disk \in S \cup {NULLREF}, call[c].old \in S \cup {NULLREF},
           UNCHANGED <<op, vdi, vbd, cd, running>>,
           (key[c].pc = "none" /\ UNCHANGED keyVars) \/ KeyEnd(c)
    PROVE  DiskInv'
<1>1. /\ KeyInv' /\ pool' = pool /\ raced' = raced /\ key'[c].pc = "none"
      /\ \A e \in Calls \ {c} : key'[e] = key[e]
  BY KeyUnchanged, KeyBeginsEnds
     DEF DiskInv, keyVars, KeyEnd, KeyGoes, NoLookup, KeyInv, KeyTypes
<1>2. /\ Idle \in CallType /\ Goes(c, Idle) /\ Idle.pc = "idle" /\ Idle.disk = NULLREF
      /\ Idle.old = NULLREF
  BY FreeRecords DEF GivesUp
<1>3. call'[c] = Idle
  BY <1>2 DEF Goes, DiskInv, DiskTypes
<1>4. Place(c)'
  BY <1>1, <1>2, <1>3 DEF Place, DrivePCs, ImagePCs, Before, Removing
<1>5. /\ LetsGo(call[c].disk) /\ LetsGo(call[c].old) /\ abandoned \subseteq abandoned'
  BY DisksAssumption DEF LetsGo, GivesUp
<1>6. cd' \in Vdis \cup {NULLREF, NoDrive}
  BY DEF DiskInv, DiskTypes
<1>7. QED BY <1>1, <1>2, <1>4, <1>5, <1>6, CallOnly DEF Early, Removing

-----------------------------------------------------------------------------
(***************************************************************************)
(* create_config_drive up to the import                                    *)
(***************************************************************************)
LEMMA DriveBeginKeeps ==
    ASSUME DiskInv, NEW c \in Calls, DriveBegin(c)
    PROVE  DiskInv'
<1> DEFINE t == [Idle EXCEPT !.pc = "net", !.vbds = Used, !.wasRunning = running]
<1>1. /\ t \in CallType /\ t.pc = "net" /\ t.disk = NULLREF /\ t.old = NULLREF
  <2>1. Used \in SUBSET Vbds /\ running \in BOOLEAN /\ "net" \in PCs
    BY DEF Used, DiskInv, DiskTypes, PCs
  <2>2. QED BY <2>1, FreeRecords DEF CallType
<1>2. Goes(c, t) /\ op = "drive"
  BY DEF DriveBegin
<1> HIDE DEF t
<1>3. /\ KeyInv' /\ UNCHANGED <<op, vdi, vbd, cd, running, pool, raced, key, abandoned>>
  BY KeyUnchanged DEF DriveBegin, DiskInv, keyVars, devices, world
<1>4. /\ call[c].disk = NULLREF /\ call[c].old = NULLREF /\ key[c].pc = "none"
  BY DEF DriveBegin, DiskInv, Place, Before, Removing
<1>5. call'[c] = t
  BY <1>2 DEF Goes, DiskInv, DiskTypes
<1>6. Place(c)'
  BY <1>1, <1>2, <1>3, <1>4, <1>5 DEF Place, Early, Removing, Before, ImagePCs
<1>7. LetsGo(call[c].old) /\ cd' \in Vdis \cup {NULLREF, NoDrive}
  BY <1>3, <1>4, DisksAssumption DEF LetsGo, DiskInv, DiskTypes
<1>8. QED
  BY <1>1, <1>2, <1>3, <1>4, <1>6, <1>7, CallOnly DEF Early, Removing

(* Making a disk is prepared, or an image, or the user answers. *)
LEMMA PreparingKeeps ==
    ASSUME DiskInv, NEW c \in Calls,
           \/ CheckNetwork(c) \/ CreateVif(c) \/ Generate(c) \/ Insert(c)
           \/ InsertFails(c) \/ Answer(c) \/ Eject(c) \/ ScriptRun(c)
    PROVE  DiskInv'
<1>1. PICK pc \in PCs :
        /\ To(c, pc)
        /\ \/ call[c].pc \in {"net", "vif"} /\ pc \in {"vif", "key"}
           \/ call[c].pc = "certs" /\ pc = "create"
           \/ /\ call[c].pc \in {"insert", "again", "ask", "eject", "wait"}
              /\ pc \in {"wait", "ask", "final", "eject", "again"}
  BY DEF CheckNetwork, CreateVif, Generate, Insert, InsertFails, Answer, Eject,
         ScriptRun, PCs
<1>2. UNCHANGED <<keyVars, op, vdi, vbd, running, abandoned>>
  BY DEF CheckNetwork, CreateVif, Generate, Insert, InsertFails, Answer, Eject,
         ScriptRun, devices, world, history
<1>3. Place(c) /\ call[c].disk \in Vdis \cup {NULLREF}
  BY CallRecord DEF DiskInv, CallType
<1>4. cd' \in Vdis \cup {NULLREF, NoDrive}
  BY <1>3 DEF CheckNetwork, CreateVif, Generate, Insert, InsertFails, Answer, Eject,
              ScriptRun, devices, DiskInv, DiskTypes
<1>5. /\ pc \in DrivePCs => op = "drive"
      /\ pc \in ImagePCs => op = "image"
      /\ key[c].pc # "none" => pc = "key"
      /\ op = "drive" => pc # "create"
  BY <1>1, <1>3 DEF Place, DrivePCs, ImagePCs
<1>6. /\ call[c].pc \notin Removing
      /\ pc \notin Early \cup {"plug"}
      /\ pc \in Before => call[c].disk = NULLREF
      /\ pc \notin Before \cup {"final"} => call[c].disk \in Vdis
  BY <1>1, <1>3 DEF Place, Before, Early, Removing
<1>7. QED BY <1>1, <1>2, <1>4, <1>5, <1>6, CallTo

LEMMA KeyLookupKeeps ==
    ASSUME DiskInv, NEW c \in Calls, LookUpKey(c) \/ GetKey(c)
    PROVE  DiskInv'
<1>1. /\ call[c].pc = "key" /\ UNCHANGED diskVars
      /\ (\E h \in Halves : KeyBegin(c, h)) \/ KeyStep(c)
  BY DEF LookUpKey, GetKey, Halves
<1>2. KeyInv'
  BY <1>1, KeyBeginsEnds, KeyStepKeeps DEF DiskInv
<1>3. \A e \in Calls \ {c} : key'[e] = key[e]
  BY <1>1 DEF KeyBegin, KeyStep, KeyFound, KeyMissing, CreateSecrets, SetPoolConfig,
              KeyGoes, DiskInv, KeyInv, KeyTypes
<1>4. /\ raced => raced'
      /\ ~raced /\ pool' # pool => pool.public = Absent
  <2>1. CASE SetPoolConfig(c)
    <3>1. ~raced => Missing
      BY <2>1 DEF SetPoolConfig, DiskInv, KeyInv, OneMaker, Making
    <3>2. QED BY <2>1, <3>1, MissingBoth DEF SetPoolConfig, DiskInv
  <2>2. CASE ~SetPoolConfig(c)
    <3>1. CASE KeyMissing(c)
      <4>1. raced' = (raced \/ \E d \in Calls \ {c} : key[d].pc \in Making) /\ pool' = pool
        BY <3>1 DEF KeyMissing
      <4>2. QED BY <4>1, Zenon
    <3>2. CASE ~KeyMissing(c)
      <4>1. UNCHANGED <<pool, raced>>
        BY <1>1, <2>2, <3>2 DEF KeyBegin, KeyStep, KeyFound, CreateSecrets
      <4>2. QED BY <4>1
    <3>3. QED BY <3>1, <3>2
  <2>3. QED BY <2>1, <2>2
<1>5. GoodKeys'
  BY <1>1, <1>4 DEF DiskInv, GoodKeys, GoodKey, diskVars
<1>6. \A e \in Calls : Place(e)'
  BY <1>1, <1>3 DEF DiskInv, Place, diskVars
<1>7. \A e \in Calls : Secret(e)' /\ Holds(e)'
  BY <1>1 DEF DiskInv, Secret, Holds, Ours, Used, diskVars
<1>8. DiskTypes'
  BY <1>1 DEF DiskInv, DiskTypes, diskVars, CallType, VdiType, VbdType
<1>9. Disks' /\ Devices' /\ NoDiskForgotten'
  BY <1>1 DEF DiskInv, Disks, Devices, NoDiskForgotten, Ours, Used, Held, Drives, Attached,
              diskVars
<1>10. QED BY <1>2, <1>5, <1>6, <1>7, <1>8, <1>9 DEF DiskInv

(* The key that goes into the disk is the one that was handed out. *)
LEMMA BuildIsoKeeps ==
    ASSUME DiskInv, NEW c \in Calls, BuildIso(c)
    PROVE  DiskInv'
<1> DEFINE t == [At(c, "create") EXCEPT !.pair = key[c].pair]
<1>1. /\ call[c].pc = "key" /\ key[c].pc = "got" /\ KeyEnd(c) /\ Goes(c, t)
      /\ UNCHANGED <<op, vdi, vbd, cd, running, abandoned>>
  BY DEF BuildIso, devices, world, history
<1>2. /\ call[c].disk = NULLREF /\ call[c].old = NULLREF /\ op = "drive"
  BY <1>1 DEF DiskInv, Place, Before, Removing, DrivePCs
<1>3. key[c].pair \in Pairs /\ (~raced => key[c].pair = pool.public)
  BY <1>1 DEF DiskInv, KeyInv, KeyTypes, HandedOutIsPool
<1>4. /\ t \in CallType /\ t.pc = "create" /\ t.disk = NULLREF /\ t.old = NULLREF
      /\ t.pair = key[c].pair
  <2>1. /\ At(c, "create") \in CallType /\ At(c, "create").pc = "create"
        /\ At(c, "create").disk = NULLREF /\ At(c, "create").old = NULLREF
    BY <1>2, CallRecord DEF PCs
  <2>2. QED BY <1>3, <2>1 DEF CallType
<1> HIDE DEF t
<1>5. /\ KeyInv' /\ pool' = pool /\ raced' = raced /\ key'[c].pc = "none"
      /\ \A e \in Calls \ {c} : key'[e] = key[e]
  BY <1>1, KeyBeginsEnds DEF DiskInv, KeyEnd, KeyGoes, NoLookup, KeyInv, KeyTypes
<1>6. call'[c] = t
  BY <1>1 DEF Goes, DiskInv, DiskTypes
<1>7. Place(c)'
  BY <1>4, <1>5, <1>6 DEF Place, DrivePCs, ImagePCs, Before, Removing
<1>8. GoodKey(t.pair)
  BY <1>3, <1>4, PairsAssumption DEF GoodKey
<1>9. LetsGo(call[c].old) /\ cd' \in Vdis \cup {NULLREF, NoDrive}
  BY <1>1, <1>2, DisksAssumption DEF LetsGo, DiskInv, DiskTypes
<1>10. QED
  BY <1>1, <1>2, <1>4, <1>5, <1>7, <1>8, <1>9, CallOnly DEF Early, Removing

(* Exceptions, and what leads to them: the call gives up its disks. *)
LEMMA GivingUpKeeps ==
    ASSUME DiskInv, NEW c \in Calls,
           \/ BuildIsoFails(c) \/ RemoveFails(c) \/ PlugFails(c) \/ GenerateFails(c)
           \/ DestroyImageFails(c) \/ DriveFails(c)
    PROVE  DiskInv'
<1>1. Place(c)
  BY DEF DiskInv
<1>2. CASE BuildIsoFails(c)
  <2>1. call[c].disk = NULLREF /\ call[c].old = NULLREF
    BY <1>1, <1>2 DEF BuildIsoFails, Place, Before, Removing
  <2>2. QED BY <1>2, <2>1, CallEnds DEF BuildIsoFails, devices, world
<1>3. CASE RemoveFails(c)
  <2>1. key[c].pc = "none"
    BY <1>1, <1>3 DEF RemoveFails, Place
  <2>2. QED BY <1>3, <2>1, CallEnds DEF RemoveFails, devices, world
<1>4. CASE PlugFails(c)
  <2>1. key[c].pc = "none" /\ call[c].old = NULLREF
    BY <1>1, <1>4 DEF PlugFails, Place, Removing
  <2>2. QED BY <1>4, <2>1, CallEnds DEF PlugFails, devices, world
<1>5. CASE GenerateFails(c)
  <2>1. key[c].pc = "none" /\ call[c].old = NULLREF /\ call[c].disk = NULLREF
    BY <1>1, <1>5 DEF GenerateFails, Place, Before, Removing
  <2>2. QED BY <1>5, <2>1, CallEnds DEF GenerateFails, devices, world
<1>6. CASE DestroyImageFails(c)
  <2>1. key[c].pc = "none" /\ call[c].old = NULLREF
    BY <1>1, <1>6 DEF DestroyImageFails, Place, Removing
  <2>2. QED BY <1>6, <2>1, CallEnds DEF DestroyImageFails, devices, world
<1>7. CASE DriveFails(c)
  BY <1>7, CallEnds DEF DriveFails, devices, world
<1>8. QED BY <1>2, <1>3, <1>4, <1>5, <1>6, <1>7

-----------------------------------------------------------------------------
(***************************************************************************)
(* _generate_and_insert_certs                                              *)
(***************************************************************************)
(* A call of prepare-vm goes on with a record of which only the place and, *)
(* perhaps, the disk have changed.                                         *)
LEMMA ImageGoes ==
    ASSUME DiskInv, NEW c \in Calls, op = "image", NEW t \in CallType, Goes(c, t),
           UNCHANGED <<keyVars, op, vdi, vbd, running>>,
           cd' \in Vdis \cup {NULLREF, NoDrive}, abandoned \subseteq abandoned',
           t.pc \in {"idle", "certs", "final", "destroy", "wait"}, t.old = NULLREF,
           t.pc \in {"idle", "certs"} => t.disk = NULLREF,
           t.pc \in {"destroy", "wait"} => t.disk \in Vdis,
           \/ t.disk = call[c].disk
           \/ t.disk = NULLREF /\ LetsGo(call[c].disk)
    PROVE  DiskInv'
<1>1. Place(c) /\ call[c].old = NULLREF /\ key[c].pc = "none"
  BY CallRecord DEF DiskInv, Place, DrivePCs, Removing
<1>2. KeyInv' /\ UNCHANGED <<op, vdi, vbd, running, pool, raced, key>>
  BY KeyUnchanged DEF DiskInv, keyVars
<1>3. call'[c] = t
  BY DEF Goes, DiskInv, DiskTypes
<1>4. Place(c)'
  BY <1>1, <1>2, <1>3 DEF Place, DrivePCs, ImagePCs, Before, Removing
<1>5. LetsGo(call[c].old)
  BY <1>1, DisksAssumption DEF LetsGo
<1>6. t.pc \notin Early \cup {"plug"} /\ \A e \in Calls \ {c} : key'[e] = key[e]
  BY <1>2 DEF Early, Removing
<1>7. QED BY <1>2, <1>4, <1>5, <1>6, CallOnly

LEMMA ImageBeginKeeps ==
    ASSUME DiskInv, NEW c \in Calls, ImageBegin(c)
    PROVE  DiskInv'
<1> DEFINE t == [Idle EXCEPT !.pc = "certs"]
<1>1. t \in CallType /\ t.pc = "certs" /\ t.disk = NULLREF /\ t.old = NULLREF
  BY FreeRecords DEF CallType, PCs
<1>2. /\ op = "image" /\ Goes(c, t) /\ call[c].disk = NULLREF
      /\ UNCHANGED <<keyVars, op, vdi, vbd, cd, running, abandoned>>
  BY DEF ImageBegin, devices, world, DiskInv, Place, Before
<1>3. cd' \in Vdis \cup {NULLREF, NoDrive}
  BY <1>2 DEF DiskInv, DiskTypes
<1> HIDE DEF t
<1>4. QED BY <1>1, <1>2, <1>3, ImageGoes

LEMMA FinalEjectKeeps ==
    ASSUME DiskInv, NEW c \in Calls, FinalEject(c)
    PROVE  DiskInv'
<1>1. /\ call[c].pc = "final" /\ op = "image" /\ call[c].old = NULLREF
      /\ call[c].disk \in Vdis \cup {NULLREF}
      /\ UNCHANGED <<keyVars, op, vdi, vbd, running, abandoned>>
      /\ cd' \in Vdis \cup {NULLREF, NoDrive}
  BY CallRecord DEF FinalEject, world, history, DiskInv, DiskTypes, Place, ImagePCs, Removing,
     CallType
<1>2. CASE call[c].disk = NULLREF
  <2>1. Goes(c, Idle)
    BY <1>2 DEF FinalEject
  <2>2. QED BY <1>1, <1>2, <2>1, FreeRecords, ImageGoes
<1>3. CASE call[c].disk # NULLREF
  <2>1. Goes(c, At(c, "destroy"))
    BY <1>3 DEF FinalEject
  <2> DEFINE t == At(c, "destroy")
  <2>2. /\ t \in CallType /\ t.pc = "destroy" /\ t.disk = call[c].disk /\ t.old = NULLREF
    BY <1>1, CallRecord DEF PCs
  <2> HIDE DEF t
  <2>3. Goes(c, t)
    BY <2>1 DEF t
  <2>4. QED BY <1>1, <1>3, <2>2, <2>3, ImageGoes
<1>4. QED BY <1>2, <1>3

LEMMA ImageFailsKeeps ==
    ASSUME DiskInv, NEW c \in Calls, ImageFails(c)
    PROVE  DiskInv'
<1>1. /\ op = "image" /\ UNCHANGED <<keyVars, op, vdi, vbd, cd, running>>
      /\ cd' \in Vdis \cup {NULLREF, NoDrive} /\ Place(c)
      /\ call[c].disk \in Vdis \cup {NULLREF} /\ call[c].old = NULLREF
      /\ key[c].pc = "none"
  BY CallRecord DEF ImageFails, devices, world, DiskInv, DiskTypes, Place, DrivePCs,
     Removing, CallType
<1>2. CASE /\ call[c].pc \in {"create", "upload"}
           /\ Goes(c, [At(c, "final") EXCEPT !.disk = NULLREF])
           /\ abandoned' = abandoned \cup ({call[c].disk} \ {NULLREF})
  <2> DEFINE t == [At(c, "final") EXCEPT !.disk = NULLREF]
  <2>1. t \in CallType /\ t.pc = "final" /\ t.disk = NULLREF /\ t.old = NULLREF
    BY <1>1, CallRecord DEF PCs, CallType
  <2>2. LetsGo(call[c].disk) /\ abandoned \subseteq abandoned' /\ Goes(c, t)
    BY <1>2, DisksAssumption DEF LetsGo
  <2> HIDE DEF t
  <2>3. QED BY <1>1, <2>1, <2>2, ImageGoes
<1>3. CASE /\ call[c].pc \in {"insert", "eject", "again"} /\ abandoned' = abandoned
           /\ To(c, IF call[c].pc = "insert" THEN "wait" ELSE "final")
  <2>1. PICK pc \in {"wait", "final"} : To(c, pc)
    BY <1>3
  <2> DEFINE t == At(c, pc)
  <2>2. /\ t \in CallType /\ t.pc = pc /\ t.disk = call[c].disk /\ t.old = NULLREF
    BY <1>1, CallRecord DEF PCs
  <2>3. Goes(c, t) /\ call[c].disk \in Vdis
    BY <1>1, <1>3, <2>1 DEF To, Place, Before
  <2> HIDE DEF t
  <2>4. QED BY <1>1, <1>3, <2>2, <2>3, ImageGoes
<1>4. CASE /\ call[c].pc = "final" /\ abandoned' = abandoned
           /\ Goes(c, IF call[c].disk = NULLREF THEN Idle ELSE At(c, "destroy"))
  <2> DEFINE t == IF call[c].disk = NULLREF THEN Idle ELSE At(c, "destroy")
  <2>1. /\ t \in CallType /\ t.old = NULLREF /\ t.disk = call[c].disk
        /\ t.pc = IF call[c].disk = NULLREF THEN "idle" ELSE "destroy"
    BY <1>1, FreeRecords, CallRecord DEF PCs
  <2>2. Goes(c, t)
    BY <1>4
  <2> HIDE DEF t
  <2>3. QED BY <1>1, <1>4, <2>1, <2>2, ImageGoes
<1>5. CASE call[c].pc = "destroy" /\ GivesUp(c, {call[c].disk})
  BY <1>1, <1>5, CallEnds
<1>6. QED BY <1>2, <1>3, <1>4, <1>5 DEF ImageFails

-----------------------------------------------------------------------------
(***************************************************************************)
(* import_disk                                                             *)
(***************************************************************************)
LEMMA OneCall ==
    ASSUME DiskInv, NEW c \in Calls, NEW t \in CallType, Goes(c, t)
    PROVE  /\ call' \in [Calls -> CallType] /\ call'[c] = t
           /\ \A e \in Calls \ {c} : call'[e] = call[e]
BY DEF Goes, DiskInv, DiskTypes

LEMMA CreateDiskKeeps ==
    ASSUME DiskInv, NEW c \in Calls, CreateDisk(c)
    PROVE  DiskInv'
<1> DEFINE new == [kind |-> op, marked |-> (op = "drive"), full |-> FALSE,
                   pair |-> call[c].pair]
<1>1. PICK d \in FreeVdis :
        /\ vdi' = [vdi EXCEPT ![d] = new]
        /\ Goes(c, [At(c, "upload") EXCEPT !.disk = d, !.pair = Absent])
  BY DEF CreateDisk
<1>2. /\ call[c].pc = "create"
      /\ UNCHANGED <<keyVars, op, vbd, cd, running, abandoned>>
  BY DEF CreateDisk, world, history
<1>3. /\ call[c] \in CallType /\ call[c].disk = NULLREF /\ call[c].old = NULLREF
      /\ key[c].pc = "none" /\ op \in {"drive", "image"}
  BY <1>2, CallRecord DEF DiskInv, DiskTypes, Place, Before, Removing
<1>4. /\ new \in VdiType /\ new.kind = op /\ ~new.full /\ new.pair = call[c].pair
      /\ new # FreeVdi
  BY <1>3, FreeRecords DEF VdiType, CallType
<1>5. /\ d \in Vdis /\ vdi[d] = FreeVdi /\ d # NULLREF
      /\ \A e \in Calls : call[e].disk # d /\ call[e].old # d
      /\ \A b \in Used : vbd[b].vdi # d
  BY DisksAssumption DEF FreeVdis, DiskInv, Devices
<1> HIDE DEF new
<1> DEFINE t == [At(c, "upload") EXCEPT !.disk = d, !.pair = Absent]
<1>6. t \in CallType /\ t.pc = "upload" /\ t.disk = d /\ t.old = NULLREF
  <2>1. At(c, "upload") \in CallType /\ At(c, "upload").pc = "upload"
        /\ At(c, "upload").old = NULLREF
    BY <1>3, CallRecord DEF PCs
  <2>2. QED BY <1>5, <2>1 DEF CallType
<1>7. Goes(c, t)
  BY <1>1
<1> HIDE DEF t
<1>8. /\ call' \in [Calls -> CallType] /\ call'[c] = t
      /\ \A e \in Calls \ {c} : call'[e] = call[e]
  BY <1>6, <1>7, OneCall
<1>9. /\ vdi' \in [Vdis -> VdiType] /\ vdi'[d] = new
      /\ \A e \in Vdis \ {d} : vdi'[e] = vdi[e]
  BY <1>1, <1>4, <1>5 DEF DiskInv, DiskTypes
<1>10. Used' = Used /\ KeyInv' /\ UNCHANGED <<pool, raced, key>>
  BY <1>2, KeyUnchanged DEF Used, DiskInv, keyVars
<1>11. DiskTypes'
  BY <1>2, <1>8, <1>9 DEF DiskInv, DiskTypes, CallType, VdiType, VbdType
<1>12. ASSUME NEW e \in Calls
       PROVE  Place(e)'
  <2>1. CASE e = c
    BY <1>3, <1>5, <1>6, <1>8, <1>10, <2>1
       DEF Place, DrivePCs, ImagePCs, Before, Removing
  <2>2. CASE e # c
    BY <1>2, <1>8, <1>10, <2>2 DEF DiskInv, Place
  <2>3. QED BY <2>1, <2>2
<1>13. ASSUME NEW e \in Calls
       PROVE  Secret(e)'
  <2>1. CASE e = c
    <3>1. \A f \in Calls : call'[f].old # d
      BY <1>5, <1>6, <1>8
    <3>2. QED BY <1>2, <1>4, <1>5, <1>6, <1>8, <1>9, <1>10, <2>1, <3>1 DEF Secret
  <2>2. CASE e # c
    <3>1. call'[e] = call[e] /\ Secret(e) /\ Place(e) /\ call[e].disk # d
      BY <1>5, <1>8, <2>2 DEF DiskInv
    <3>2. call[e].pc \in Early => call[e].disk \in Vdis
      BY <3>1 DEF Place, Early, Before, Removing
    <3>3. call[e].pc \in Early => \A f \in Calls : call'[f].old # call[e].disk
      BY <1>6, <1>8, <3>1, <3>2, DisksAssumption DEF Secret
    <3>4. QED BY <1>2, <1>9, <1>10, <3>1, <3>2, <3>3 DEF Secret
  <2>3. QED BY <2>1, <2>2
<1>14. \A e \in Vdis : Ours(e) => Ours(e)'
  BY <1>2, <1>4, <1>9 DEF Ours
<1>15. ASSUME NEW e \in Calls
       PROVE  Holds(e)'
  <2>1. CASE e = c
    <3>1. \A f \in Calls \ {c} : call'[f].disk # d
      BY <1>5, <1>8
    <3>2. Ours(d)'
      BY <1>2, <1>4, <1>9 DEF Ours
    <3>3. Ours(call[e].disk)'
      BY <1>6, <1>8, <2>1, <3>2 DEF Ours
    <3>4. QED BY <1>6, <1>8, <2>1, <3>1, <3>3, DisksAssumption DEF Holds
  <2>2. CASE e # c
    <3>1. /\ call'[e] = call[e] /\ Holds(e) /\ Place(e)
          /\ call[e].disk # d /\ call[e].old # d
      BY <1>5, <1>8, <2>2 DEF DiskInv
    <3>2. call[e].disk \in Vdis => \A f \in Calls \ {e} : call'[f].disk # call[e].disk
      BY <1>6, <1>8, <3>1 DEF Holds
    <3>3. call[e].pc = "plug" => vdi'[call[e].disk] = vdi[call[e].disk]
      BY <1>9, <3>1 DEF Place, Before
    <3>4. /\ call[e].disk \in Vdis => Ours(call[e].disk)'
          /\ call[e].old \in Vdis => Ours(call[e].old)'
      BY <1>2, <1>9, <3>1 DEF Holds, Ours
    <3>5. QED BY <1>2, <1>10, <3>1, <3>2, <3>3, <3>4 DEF Holds
  <2>3. QED BY <2>1, <2>2
<1>16. Disks'
  <2>1. ASSUME NEW e \in Vdis \ {d}, ~vdi[e].full, vdi[e] # FreeVdi
        PROVE  e \in abandoned' \/ \E f \in Calls : call'[f].disk = e
    <3>1. CASE e \in abandoned
      BY <1>2, <3>1
    <3>2. CASE \E f \in Calls : call[f].disk = e
      BY <1>3, <1>8, <3>2, DisksAssumption
    <3>3. QED BY <2>1, <3>1, <3>2 DEF DiskInv, Disks
  <2>2. \E f \in Calls : call'[f].disk = d
    BY <1>6, <1>8
  <2>3. \A e \in Vdis : (vdi'[e].marked => Ours(e)')
    BY <1>2, <1>4, <1>9 DEF Ours, DiskInv, Disks
  <2>4. \A e \in Vdis : vdi'[e].kind \in {"drive", "image"} => vdi'[e].kind = op'
    BY <1>2, <1>4, <1>9 DEF DiskInv, Disks
  <2>5. \A e \in Vdis : ~vdi'[e].full => \/ vdi'[e] = FreeVdi \/ e \in abandoned'
                                         \/ \E f \in Calls : call'[f].disk = e
    BY <1>9, <2>1, <2>2
  <2>6. QED BY <2>3, <2>4, <2>5 DEF Disks
<1>17. Devices'
  <2>1. \A b \in Used : vdi'[vbd[b].vdi] = vdi[vbd[b].vdi]
    BY <1>5, <1>9 DEF Used, DiskInv, DiskTypes, VbdType
  <2>2. \A b \in Used : vbd'[b] = vbd[b] /\ (Ours(vbd[b].vdi)' <=> Ours(vbd[b].vdi))
    BY <1>2, <2>1 DEF Ours
  <2>3. QED BY <1>2, <1>10, <2>1, <2>2 DEF DiskInv, Devices
<1>18. GoodKeys'
  BY <1>2, <1>4, <1>6, <1>8, <1>9, <1>10 DEF DiskInv, GoodKeys, GoodKey
<1>19. NoDiskForgotten'
  <2>1. Held \subseteq Held' \cup {NULLREF} /\ d \in Held'
    BY <1>3, <1>6, <1>8 DEF Held
  <2>2. Attached' = Attached /\ \A e \in Vdis \ {d} : e \in Drives => e \in Drives'
    BY <1>2, <1>9, <1>10 DEF Attached, Drives
  <2>3. QED BY <1>2, <1>9, <2>1, <2>2, DisksAssumption DEF DiskInv, NoDiskForgotten
<1>20. QED
  BY <1>10, <1>11, <1>12, <1>13, <1>15, <1>16, <1>17, <1>18, <1>19 DEF DiskInv

LEMMA UploadKeeps ==
    ASSUME DiskInv, NEW c \in Calls, Upload(c)
    PROVE  DiskInv'
<1> DEFINE d == call[c].disk
<1>1. PICK pc \in {"look", "insert"} :
        /\ To(c, pc) /\ (pc = "look" => op = "drive") /\ (pc = "insert" => op = "image")
  BY DEF Upload
<1>2. /\ call[c].pc = "upload" /\ vdi' = [vdi EXCEPT ![d].full = TRUE]
      /\ UNCHANGED <<keyVars, op, vbd, cd, running, abandoned>>
  BY DEF Upload, world, history
<1>3. /\ d \in Vdis /\ call[c].old = NULLREF /\ key[c].pc = "none"
      /\ vdi[d].kind = op /\ vdi[d] \in VdiType /\ op \in {"drive", "image"}
  BY <1>2 DEF DiskInv, DiskTypes, Place, Secret, Early, Before, Removing
<1> DEFINE t == At(c, pc)
<1>4. t \in CallType /\ t.pc = pc /\ t.disk = d /\ t.old = NULLREF
  BY <1>3, CallRecord DEF PCs
<1>5. Goes(c, t)
  BY <1>1 DEF To
<1> HIDE DEF t
<1>6. /\ call' \in [Calls -> CallType] /\ call'[c] = t
      /\ \A e \in Calls \ {c} : call'[e] = call[e]
  BY <1>4, <1>5, OneCall
<1>7. /\ vdi' \in [Vdis -> VdiType] /\ \A e \in Vdis \ {d} : vdi'[e] = vdi[e]
      /\ vdi'[d].full /\ vdi'[d].kind = vdi[d].kind /\ vdi'[d].marked = vdi[d].marked
      /\ vdi'[d].pair = vdi[d].pair /\ vdi'[d] # FreeVdi /\ vdi[d] # FreeVdi
  <2>1. [vdi[d] EXCEPT !.full = TRUE] \in VdiType
    BY <1>3 DEF VdiType
  <2>2. vdi'[d] = [vdi[d] EXCEPT !.full = TRUE]
    BY <1>2, <1>3 DEF DiskInv, DiskTypes
  <2>3. vdi' \in [Vdis -> VdiType] /\ \A e \in Vdis \ {d} : vdi'[e] = vdi[e]
    BY <1>2, <1>3, <2>1 DEF DiskInv, DiskTypes
  <2>4. /\ vdi'[d].full /\ vdi'[d].kind = vdi[d].kind /\ vdi'[d].marked = vdi[d].marked
        /\ vdi'[d].pair = vdi[d].pair
    BY <1>3, <2>2 DEF VdiType
  <2>5. QED BY <1>3, <2>3, <2>4, FreeRecords
<1>8. Used' = Used /\ KeyInv' /\ UNCHANGED <<pool, raced, key>>
  BY <1>2, KeyUnchanged DEF Used, DiskInv, keyVars
<1>9. \A e \in Calls : call'[e].disk = call[e].disk /\ call'[e].old = call[e].old
  BY <1>3, <1>4, <1>6
<1> HIDE DEF d
<1>10. DiskTypes'
  BY <1>2, <1>6, <1>7 DEF DiskInv, DiskTypes, CallType, VdiType, VbdType
<1>11. \A e \in Vdis : Ours(e)' <=> Ours(e)
  BY <1>2, <1>7 DEF Ours
<1>12. ASSUME NEW e \in Calls
       PROVE  Place(e)'
  <2>1. CASE e = c
    BY <1>1, <1>2, <1>3, <1>4, <1>6, <1>8, <2>1
       DEF Place, DrivePCs, ImagePCs, Before, Removing
  <2>2. CASE e # c
    BY <1>2, <1>6, <1>8, <2>2 DEF DiskInv, Place
  <2>3. QED BY <2>1, <2>2
<1>13. ASSUME NEW e \in Calls
       PROVE  Secret(e)'
  <2>1. Secret(e) /\ Place(e)
    BY DEF DiskInv
  <2>2. CASE e = c
    <3>1. /\ \A b \in Used : vbd[b].vdi # d
          /\ \A f \in Calls : call'[f].old # d
      BY <1>2, <1>9, <2>1, <2>2 DEF Secret, Early, d
    <3>2. QED BY <1>2, <1>3, <1>4, <1>6, <1>7, <1>8, <2>2, <3>1 DEF Secret
  <2>3. CASE e # c
    <3>1. call'[e] = call[e]
      BY <1>6, <2>3
    <3>2. call[e].pc \in Early => call[e].disk \in Vdis
      BY <2>1 DEF Place, Early, Before, Removing
    <3>3. call[e].pc \in Early =>
            /\ vdi'[call[e].disk].kind = vdi[call[e].disk].kind
            /\ vdi[call[e].disk].full => vdi'[call[e].disk].full
      BY <1>7, <3>2
    <3>4. QED BY <1>2, <1>8, <1>9, <2>1, <3>1, <3>3 DEF Secret
  <2>4. QED BY <2>2, <2>3
<1>14. ASSUME NEW e \in Calls
       PROVE  Holds(e)'
  <2>1. Holds(e) /\ Place(e)
    BY DEF DiskInv
  <2>2. /\ call[e].disk \in Vdis => Ours(call[e].disk)'
        /\ call[e].old \in Vdis => Ours(call[e].old)'
    BY <1>2, <1>7, <1>9, <2>1 DEF Holds, Ours
  <2>3. CASE e = c
    BY <1>4, <1>6, <1>9, <2>1, <2>2, <2>3 DEF Holds
  <2>4. CASE e # c
    <3>1. call'[e] = call[e] /\ (call[e].disk # d \/ call[e].disk \notin Vdis)
      BY <1>3, <1>6, <2>1, <2>4 DEF Holds, d
    <3>2. call[e].pc = "plug" => vdi'[call[e].disk] = vdi[call[e].disk]
      BY <1>7, <2>1, <3>1 DEF Place, Before
    <3>3. QED BY <1>2, <1>6, <1>8, <1>9, <2>1, <2>2, <2>4, <3>2 DEF Holds
  <2>5. QED BY <2>3, <2>4
<1>15. Disks'
  BY <1>2, <1>7, <1>9, <1>11 DEF DiskInv, Disks
<1>16. Devices'
  <2>1. \A b \in Used : vbd[b].vdi \in Vdis
    BY DEF Used, DiskInv, DiskTypes, VbdType
  <2>2. \A b \in Used : /\ vdi[vbd[b].vdi] # FreeVdi => vdi'[vbd[b].vdi] # FreeVdi
                        /\ vbd'[b] = vbd[b] /\ (Ours(vbd[b].vdi)' <=> Ours(vbd[b].vdi))
    BY <1>2, <1>7, <2>1 DEF Ours
  <2>3. QED BY <1>2, <1>8, <2>2 DEF DiskInv, Devices
<1>17. GoodKeys'
  BY <1>1, <1>2, <1>4, <1>6, <1>7, <1>8 DEF DiskInv, GoodKeys, GoodKey
<1>18. NoDiskForgotten'
  <2>1. Held' = Held
    BY <1>9 DEF Held
  <2>2. Attached' = Attached /\ Drives' = Drives
    BY <1>2, <1>7, <1>8 DEF Attached, Drives
  <2>3. QED BY <1>2, <1>7, <2>1, <2>2 DEF DiskInv, NoDiskForgotten
<1>19. QED
  BY <1>8, <1>10, <1>12, <1>13, <1>14, <1>15, <1>16, <1>17, <1>18 DEF DiskInv

-----------------------------------------------------------------------------
(***************************************************************************)
(* remove_config_drive                                                     *)
(***************************************************************************)
LEMMA LookAtDeviceKeeps ==
    ASSUME DiskInv, NEW c \in Calls, LookAtDevice(c)
    PROVE  DiskInv'
<1>1. PICK b \in call[c].vbds \cap Used, pc \in {"unplug", "device"} :
        /\ IsConfigDrive(b)
        /\ Goes(c, [At(c, pc) EXCEPT !.vbds = call[c].vbds \ {b}, !.vbd = b,
                                     !.old = vbd[b].vdi])
  <2>1. PICK b \in call[c].vbds \cap Used :
          /\ IsConfigDrive(b)
          /\ Goes(c, [At(c, IF vbd[b].plugged THEN "unplug" ELSE "device")
                        EXCEPT !.vbds = At(c, IF vbd[b].plugged THEN "unplug" ELSE "device").vbds
                                        \ {b},
                               !.vbd = b, !.old = vbd[b].vdi])
    BY DEF LookAtDevice
  <2>2. \A pc \in {"unplug", "device"} : At(c, pc).vbds = call[c].vbds
    BY CallRecord DEF At, CallType
  <2>3. (IF vbd[b].plugged THEN "unplug" ELSE "device") \in {"unplug", "device"}
    OBVIOUS
  <2>4. QED BY <2>1, <2>2, <2>3
<1>2. /\ call[c].pc = "look" /\ op = "drive" /\ call[c].disk \in Vdis
      /\ call[c].old = NULLREF /\ key[c].pc = "none" /\ call[c] \in CallType
      /\ UNCHANGED <<keyVars, op, vdi, vbd, cd, running, abandoned>>
  BY CallRecord DEF LookAtDevice, devices, world, history, DiskInv, Place, DrivePCs,
     Before, Removing
<1> DEFINE d == vbd[b].vdi
<1>3. /\ b \in Vbds /\ d \in Vdis /\ Ours(d)
  <2>1. b \in Vbds /\ d \in Vdis
    BY DEF Used, DiskInv, DiskTypes, VbdType
  <2>2. Ours(d)
    BY <1>1, <2>1 DEF IsConfigDrive, DiskInv, Disks, Devices
  <2>3. QED BY <2>1, <2>2
<1> DEFINE t == [At(c, pc) EXCEPT !.vbds = call[c].vbds \ {b}, !.vbd = b, !.old = d]
<1>4. /\ t \in CallType /\ t.pc = pc /\ t.disk = call[c].disk /\ t.old = d /\ t.vbd = b
  <2>1. /\ At(c, pc) \in CallType /\ At(c, pc).pc = pc /\ At(c, pc).disk = call[c].disk
    BY CallRecord DEF PCs
  <2>2. call[c].vbds \ {b} \in SUBSET Vbds
    BY <1>2 DEF CallType
  <2>3. QED BY <1>3, <2>1, <2>2 DEF CallType
<1>5. Goes(c, t)
  BY <1>1
<1> HIDE DEF t
<1>6. /\ call' \in [Calls -> CallType] /\ call'[c] = t
      /\ \A e \in Calls \ {c} : call'[e] = call[e]
  BY <1>4, <1>5, OneCall
<1>7. Used' = Used /\ KeyInv' /\ UNCHANGED <<pool, raced, key>>
  BY <1>2, KeyUnchanged DEF Used, DiskInv, keyVars
<1>8. \A e \in Calls : call'[e].disk = call[e].disk
  BY <1>4, <1>6
<1>9. DiskTypes'
  BY <1>2, <1>6 DEF DiskInv, DiskTypes, CallType, VdiType, VbdType
<1>10. ASSUME NEW e \in Calls
       PROVE  Place(e)'
  <2>1. CASE e = c
    BY <1>2, <1>3, <1>4, <1>6, <1>7, <2>1
       DEF Place, DrivePCs, ImagePCs, Before, Removing
  <2>2. CASE e # c
    BY <1>2, <1>6, <1>7, <2>2 DEF DiskInv, Place
  <2>3. QED BY <2>1, <2>2
<1>11. ASSUME NEW e \in Calls
       PROVE  Secret(e)'
  <2>1. Secret(e)
    BY DEF DiskInv
  <2>2. call'[e].pc \in Early => call[e].pc \in Early
        /\ (call'[e].pc # "upload" => call[e].pc # "upload")
    BY <1>2, <1>6 DEF Early
  <2>3. call[e].pc \in Early => \A f \in Calls : call'[f].old # call[e].disk
    <3>1. call[e].pc \in Early => d # call[e].disk
      BY <2>1 DEF Secret
    <3>2. QED BY <1>4, <1>6, <2>1, <3>1 DEF Secret
  <2>4. QED BY <1>2, <1>7, <1>8, <2>1, <2>2, <2>3 DEF Secret
<1>12. ASSUME NEW e \in Calls
       PROVE  Holds(e)'
  <2>1. Holds(e)
    BY DEF DiskInv
  <2>2. CASE e = c
    BY <1>2, <1>3, <1>4, <1>6, <1>7, <1>8, <2>1, <2>2 DEF Holds, Ours
  <2>3. CASE e # c
    BY <1>2, <1>6, <1>7, <1>8, <2>1, <2>3 DEF Holds, Ours
  <2>4. QED BY <2>2, <2>3
<1>13. Disks' /\ Devices'
  BY <1>2, <1>7, <1>8 DEF DiskInv, Disks, Devices, Ours
<1>14. GoodKeys'
  BY <1>2, <1>4, <1>6, <1>7 DEF DiskInv, GoodKeys, GoodKey
<1>15. NoDiskForgotten'
  <2>1. Held \subseteq Held' \cup {NULLREF}
    BY <1>2, <1>4, <1>6 DEF Held
  <2>2. Attached' = Attached /\ Drives' = Drives
    BY <1>2, <1>7 DEF Attached, Drives
  <2>3. QED BY <1>2, <2>1, <2>2, DisksAssumption DEF DiskInv, NoDiskForgotten
<1>16. QED
  BY <1>7, <1>9, <1>10, <1>11, <1>12, <1>13, <1>14, <1>15 DEF DiskInv

(* A device goes or is plugged in or out; or nothing happens to one.       *)
LEMMA DeviceStep ==
    ASSUME DiskInv, NEW c \in Calls, NEW t \in CallType, Goes(c, t),
           UNCHANGED <<keyVars, op, vdi, cd, running, abandoned>>,
           vbd' \in [Vbds -> VbdType], Used' \subseteq Used,
           \A b \in Used' : /\ vbd'[b].vdi = vbd[b].vdi
                            /\ vbd'[b].marked = vbd[b].marked
                            /\ vbd'[b].plugged => running,
           Place(c)', op = "drive", t.old = call[c].old, t.pc # "upload",
           t.pc \in Early => call[c].pc \in Early \ {"upload"},
           \/ t.disk = call[c].disk
           \/ /\ t.disk = NULLREF /\ call[c].disk \in Attached'
              /\ vdi[call[c].disk].full \/ vdi[call[c].disk] = FreeVdi,
           Attached \subseteq Attached' \cup {t.old},
           t.pc \notin {"unplug", "plug", "create"},
           t.pc = "device" => (t.vbd \in Used' => vbd'[t.vbd].vdi = t.old),
           t.pc = "old" => \A b \in Used' : vbd'[b].vdi # t.old
    PROVE  DiskInv'
<1>1. /\ call' \in [Calls -> CallType] /\ call'[c] = t
      /\ \A e \in Calls \ {c} : call'[e] = call[e]
  BY OneCall
<1>2. KeyInv' /\ UNCHANGED <<pool, raced, key>>
  BY KeyUnchanged DEF DiskInv, keyVars
<1>3. /\ \A e \in Calls : /\ call'[e].old = call[e].old
                          /\ call'[e].disk \in {call[e].disk, NULLREF}
      /\ t.pc \in Early => t.disk = call[c].disk
  <2>1. t.pc \in Early => t.disk \in Vdis
    BY <1>1 DEF Place, Early, Before, Removing
  <2>2. QED BY <1>1, <2>1, DisksAssumption
<1>4. DiskTypes'
  BY <1>1 DEF DiskInv, DiskTypes, CallType, VdiType, VbdType
<1>5. \A e \in Calls : Place(e)'
  BY <1>1, <1>2 DEF DiskInv, Place
<1>6. ASSUME NEW e \in Calls
      PROVE  Secret(e)'
  <2>1. Secret(e)
    BY DEF DiskInv
  <2>2. call'[e].pc \in Early =>
          /\ call[e].pc \in Early /\ call'[e].disk = call[e].disk
          /\ call'[e].pc # "upload" => call[e].pc # "upload"
    BY <1>1, <1>3
  <2>3. QED BY <1>3, <2>1, <2>2 DEF Secret
<1>7. ASSUME NEW e \in Calls
      PROVE  Holds(e)'
  <2>1. Holds(e) /\ Place(e)
    BY DEF DiskInv
  <2>2. /\ (call[e].disk \in Vdis => Ours(call[e].disk))'
        /\ (call[e].old \in Vdis => Ours(call[e].old))'
        /\ call'[e].disk \in Vdis => \A f \in Calls \ {e} : call'[f].disk # call'[e].disk
    BY <1>3, <2>1, DisksAssumption DEF Holds, Ours
  <2>3. CASE e = c
    BY <1>1, <2>2, <2>3 DEF Holds
  <2>4. CASE e # c
    BY <1>1, <2>1, <2>2, <2>4 DEF Holds
  <2>5. QED BY <2>3, <2>4
<1>8. Disks'
  <2>1. ASSUME NEW d \in Vdis, ~vdi[d].full, vdi[d] # FreeVdi, NEW e \in Calls,
               call[e].disk = d
        PROVE  call'[e].disk = d
    BY <1>1, <2>1
  <2>2. QED BY <2>1 DEF DiskInv, Disks, Ours
<1>9. Devices'
  BY DEF DiskInv, Devices, Ours
<1>10. GoodKeys'
  BY <1>1, <1>2 DEF DiskInv, GoodKeys, GoodKey
<1>11. NoDiskForgotten'
  <2>1. ASSUME NEW d \in Vdis, vdi[d].kind \in {"drive", "image"}
        PROVE  d \in Drives'
    BY <2>1 DEF DiskInv, Disks, Drives
  <2>2. t.old \in Held'
    BY <1>1 DEF Held
  <2>3. ASSUME NEW d \in Held
        PROVE  d \in Held' \cup Attached'
    <3>1. PICK e \in Calls : d = call[e].disk \/ d = call[e].old
      BY DEF Held
    <3>2. CASE e = c
      BY <1>1, <3>1, <3>2 DEF Held
    <3>3. CASE e # c
      BY <1>1, <3>1, <3>3 DEF Held
    <3>4. QED BY <3>2, <3>3
  <2>4. QED BY <2>1, <2>2, <2>3 DEF DiskInv, NoDiskForgotten
<1>12. QED
  BY <1>2, <1>4, <1>5, <1>6, <1>7, <1>8, <1>9, <1>10, <1>11 DEF DiskInv

LEMMA UnplugKeeps ==
    ASSUME DiskInv, NEW c \in Calls, Unplug(c)
    PROVE  DiskInv'
<1> DEFINE t == At(c, "device")
           out == [vbd[call[c].vbd] EXCEPT !.plugged = FALSE]
<1>1. /\ call[c].pc = "unplug" /\ op = "drive" /\ call[c].vbd \in Vbds /\ Holds(c)
      /\ call[c].disk \in Vdis /\ call[c].old \in Vdis /\ key[c].pc = "none"
      /\ vbd' = [vbd EXCEPT ![call[c].vbd] = out] /\ Goes(c, t)
      /\ UNCHANGED <<keyVars, op, vdi, cd, running, abandoned>>
  BY DEF Unplug, world, history, To, DiskInv, DiskTypes, VbdType, Place, DrivePCs, Before,
     Removing
<1>2. /\ t \in CallType /\ t.pc = "device" /\ t.disk = call[c].disk
      /\ t.old = call[c].old /\ t.vbd = call[c].vbd
  BY CallRecord DEF PCs
<1>3. /\ out \in VbdType /\ out.vdi = vbd[call[c].vbd].vdi /\ ~out.plugged
      /\ out.marked = vbd[call[c].vbd].marked
  BY <1>1 DEF DiskInv, DiskTypes, VbdType
<1> HIDE DEF t, out
<1>4. /\ vbd' \in [Vbds -> VbdType] /\ vbd'[call[c].vbd] = out
      /\ \A b \in Vbds \ {call[c].vbd} : vbd'[b] = vbd[b]
  BY <1>1, <1>3 DEF DiskInv, DiskTypes
<1>5. /\ Used' = Used
      /\ \A b \in Vbds : vbd'[b].vdi = vbd[b].vdi /\ vbd'[b].marked = vbd[b].marked
      /\ \A b \in Used' : vbd'[b].plugged => running
  BY <1>1, <1>3, <1>4 DEF Used, DiskInv, Devices
<1>6. Place(c)'
  <2>1. call'[c] = t
    BY <1>1, <1>2, OneCall
  <2>2. QED
    BY <1>1, <1>2, <2>1 DEF Place, DrivePCs, ImagePCs, Before, Removing, keyVars
<1>7. Attached' = Attached
  BY <1>5 DEF Attached, Used
<1>8. t.vbd \in Used' => vbd'[t.vbd].vdi = t.old
  BY <1>1, <1>2, <1>5 DEF Holds, Used
<1>9. QED
  BY <1>1, <1>2, <1>4, <1>5, <1>6, <1>7, <1>8, DeviceStep DEF Early, Removing, Used

(* The old drive was attached once, so that it is not any more.            *)
LEMMA DestroyDeviceKeeps ==
    ASSUME DiskInv, NEW c \in Calls, DestroyDevice(c)
    PROVE  DiskInv'
<1> DEFINE b == call[c].vbd
           t == [At(c, "old") EXCEPT !.vbd = NULLREF]
<1>1. /\ call[c].pc = "device" /\ op = "drive" /\ b \in Used /\ Holds(c)
      /\ call[c].disk \in Vdis /\ call[c].old \in Vdis /\ key[c].pc = "none"
      /\ vbd' = [vbd EXCEPT ![b] = FreeVbd] /\ Goes(c, t)
      /\ UNCHANGED <<keyVars, op, vdi, cd, running, abandoned>>
  BY DEF DestroyDevice, world, history, DiskInv, Place, DrivePCs, Before, Removing
<1>2. /\ t \in CallType /\ t.pc = "old" /\ t.disk = call[c].disk /\ t.old = call[c].old
  <2>1. /\ At(c, "old") \in CallType /\ At(c, "old").pc = "old"
        /\ At(c, "old").disk = call[c].disk /\ At(c, "old").old = call[c].old
    BY CallRecord DEF PCs
  <2>2. QED BY <2>1 DEF CallType
<1> HIDE DEF t
<1>3. b \in Vbds /\ vbd[b].vdi = call[c].old
  BY <1>1 DEF Holds, Used
<1>4. /\ vbd' \in [Vbds -> VbdType] /\ vbd'[b] = FreeVbd
      /\ \A e \in Vbds \ {b} : vbd'[e] = vbd[e]
  BY <1>1, <1>3, FreeRecords DEF DiskInv, DiskTypes
<1>5. Used' = Used \ {b} /\ \A e \in Used' : vbd'[e] = vbd[e]
  BY <1>4, FreeRecords DEF Used
<1>6. \A e \in Used' : vbd'[e].vdi # call[c].old /\ (vbd'[e].plugged => running)
  BY <1>1, <1>3, <1>5 DEF DiskInv, Devices
<1>7. Place(c)'
  <2>1. call'[c] = t
    BY <1>1, <1>2, OneCall
  <2>2. QED
    BY <1>1, <1>2, <2>1 DEF Place, DrivePCs, ImagePCs, Before, Removing, keyVars
<1>8. Attached \subseteq Attached' \cup {t.old}
  BY <1>2, <1>3, <1>5 DEF Attached
<1> HIDE DEF b
<1>9. QED
  BY <1>1, <1>2, <1>4, <1>5, <1>6, <1>7, <1>8, DeviceStep DEF Early, Removing

LEMMA PlugKeeps ==
    ASSUME DiskInv, NEW c \in Calls, Plug(c)
    PROVE  DiskInv'
<1> DEFINE in == [vbd[call[c].vbd] EXCEPT !.plugged = TRUE]
<1>1. /\ call[c].pc = "plug" /\ op = "drive" /\ call[c].vbd \in Used /\ Holds(c)
      /\ call[c].disk \in Vdis /\ call[c].old = NULLREF /\ key[c].pc = "none"
      /\ running /\ vbd' = [vbd EXCEPT ![call[c].vbd] = in] /\ Goes(c, Idle)
      /\ UNCHANGED <<keyVars, op, vdi, cd, running, abandoned>>
  BY DEF Plug, world, history, DiskInv, DiskTypes, VbdType, Place, DrivePCs, Before,
     Removing
<1>2. /\ call[c].vbd \in Vbds /\ vbd[call[c].vbd].vdi = call[c].disk
      /\ vdi[call[c].disk].full \/ vdi[call[c].disk] = FreeVdi
  BY <1>1 DEF Holds, Used
<1>3. /\ in \in VbdType /\ in.vdi = vbd[call[c].vbd].vdi
      /\ in.marked = vbd[call[c].vbd].marked
  BY <1>2 DEF DiskInv, DiskTypes, VbdType
<1> HIDE DEF in
<1>4. /\ vbd' \in [Vbds -> VbdType] /\ vbd'[call[c].vbd] = in
      /\ \A b \in Vbds \ {call[c].vbd} : vbd'[b] = vbd[b]
  BY <1>1, <1>2, <1>3 DEF DiskInv, DiskTypes
<1>5. /\ Used' = Used
      /\ \A b \in Vbds : vbd'[b].vdi = vbd[b].vdi /\ vbd'[b].marked = vbd[b].marked
      /\ \A b \in Used' : vbd'[b].plugged => running
  BY <1>1, <1>3, <1>4 DEF Used, DiskInv, Devices
<1>6. Place(c)'
  <2>1. call'[c] = Idle
    BY <1>1, FreeRecords, OneCall
  <2>2. QED
    BY <1>1, <2>1, FreeRecords DEF Place, DrivePCs, ImagePCs, Before, Removing, keyVars
<1>7. Attached' = Attached /\ call[c].disk \in Attached
  BY <1>1, <1>2, <1>5 DEF Attached, Used
<1>8. QED
  BY <1>1, <1>2, <1>4, <1>5, <1>6, <1>7, FreeRecords, DeviceStep DEF Early, Removing, Used

(* A disk that is not attached is destroyed, by the only call that has it. *)
LEMMA DiskGoes ==
    ASSUME DiskInv, NEW c \in Calls, NEW t \in CallType, Goes(c, t), NEW x \in Vdis,
           vdi' = [vdi EXCEPT ![x] = FreeVdi],
           UNCHANGED <<keyVars, op, vbd, cd, running>>,
           abandoned \ {x} \subseteq abandoned',
           \A b \in Used : vbd[b].vdi # x,
           \A e \in Calls \ {c} : call[e].pc \in Early => call[e].disk # x,
           Place(c)', t.old = NULLREF, call[c].old \in {x, NULLREF},
           \/ t.pc = "look" /\ call[c].pc \in Early \ {"upload"} /\ call[c].disk # x
           \/ t.pc = "idle",
           \/ t.disk = call[c].disk
           \/ t.disk = NULLREF /\ call[c].disk = x
    PROVE  DiskInv'
<1>1. /\ call' \in [Calls -> CallType] /\ call'[c] = t
      /\ \A e \in Calls \ {c} : call'[e] = call[e]
  BY OneCall
<1>2. KeyInv' /\ Used' = Used /\ UNCHANGED <<pool, raced, key>>
  BY KeyUnchanged DEF Used, DiskInv, keyVars
<1>3. /\ vdi' \in [Vdis -> VdiType] /\ vdi'[x] = FreeVdi
      /\ \A e \in Vdis \ {x} : vdi'[e] = vdi[e]
  BY FreeRecords DEF DiskInv, DiskTypes
<1>4. \A e \in Calls : /\ call'[e].old \in {call[e].old, NULLREF}
                       /\ call'[e].disk \in {call[e].disk, NULLREF}
  BY <1>1, DisksAssumption
<1>5. DiskTypes'
  BY <1>1, <1>3 DEF DiskInv, DiskTypes, CallType, VdiType, VbdType
<1>6. \A e \in Vdis : Ours(e) => Ours(e)'
  BY <1>3, FreeRecords DEF Ours
<1>7. \A e \in Calls : Place(e)'
  BY <1>1, <1>2 DEF DiskInv, Place
<1>8. ASSUME NEW e \in Calls
      PROVE  Secret(e)'
  <2>1. Secret(e) /\ Place(e)'
    BY <1>7 DEF DiskInv
  <2>2. call'[e].pc \in Early => call'[e].disk \in Vdis
    BY <2>1 DEF Place, Early, Before, Removing
  <2>3. call'[e].pc \in Early =>
          /\ call[e].pc \in Early /\ call'[e].disk = call[e].disk /\ call[e].disk # x
          /\ call'[e].pc # "upload" => call[e].pc # "upload"
    BY <1>1, <1>4, <2>2, DisksAssumption DEF Early, Removing
  <2>4. call'[e].pc \in Early => \A f \in Calls : call'[f].old # call'[e].disk
    BY <1>4, <2>1, <2>2, <2>3, DisksAssumption DEF Secret
  <2>5. QED BY <1>2, <1>3, <2>1, <2>2, <2>3, <2>4 DEF Secret
<1>9. ASSUME NEW e \in Calls
      PROVE  Holds(e)'
  <2>1. Holds(e) /\ Place(e)
    BY DEF DiskInv
  <2>2. /\ (call[e].disk \in Vdis => Ours(call[e].disk))'
        /\ (call[e].old \in Vdis => Ours(call[e].old))'
        /\ call'[e].disk \in Vdis => \A f \in Calls \ {e} : call'[f].disk # call'[e].disk
    BY <1>4, <1>6, <2>1, DisksAssumption DEF Holds, Ours
  <2>3. CASE e = c
    BY <1>1, <2>2, <2>3 DEF Holds
  <2>4. CASE e # c
    <3>1. call[e].pc = "plug" => vdi'[call[e].disk] \in {vdi[call[e].disk], FreeVdi}
      BY <1>3, <2>1 DEF Place, Before
    <3>2. QED BY <1>1, <1>2, <2>1, <2>2, <2>4, <3>1 DEF Holds
  <2>5. QED BY <2>3, <2>4
<1>10. Disks'
  <2>1. ASSUME NEW d \in Vdis \ {x}, ~vdi[d].full, vdi[d] # FreeVdi
        PROVE  d \in abandoned' \/ \E e \in Calls : call'[e].disk = d
    <3>1. CASE d \in abandoned
      BY <3>1
    <3>2. CASE \E e \in Calls : call[e].disk = d
      BY <1>1, <3>2
    <3>3. QED BY <2>1, <3>1, <3>2 DEF DiskInv, Disks
  <2>2. \A d \in Vdis : /\ vdi'[d].kind \in {"drive", "image"} => vdi'[d].kind = op'
                        /\ (vdi[d].marked => Ours(d))'
    BY <1>3, <1>6, FreeRecords DEF DiskInv, Disks
  <2>3. \A d \in Vdis : ~vdi'[d].full => \/ vdi'[d] = FreeVdi \/ d \in abandoned'
                                         \/ \E e \in Calls : call'[e].disk = d
    BY <1>3, <2>1
  <2>4. QED BY <2>2, <2>3 DEF Disks
<1>11. Devices'
  <2>1. \A b \in Used : vdi'[vbd[b].vdi] = vdi[vbd[b].vdi]
    BY <1>3 DEF Used, DiskInv, DiskTypes, VbdType
  <2>2. \A b \in Used : vbd'[b] = vbd[b] /\ (Ours(vbd[b].vdi)' <=> Ours(vbd[b].vdi))
    BY <2>1 DEF Ours
  <2>3. QED BY <1>2, <2>1, <2>2 DEF DiskInv, Devices
<1>12. GoodKeys'
  BY <1>1, <1>2, <1>3, FreeRecords DEF DiskInv, GoodKeys, GoodKey
<1>13. NoDiskForgotten'
  <2>1. Attached' = Attached
    BY <1>2 DEF Attached
  <2>2. ASSUME NEW d \in Held \ {x}, d \in Vdis
        PROVE  d \in Held'
    <3>1. PICK e \in Calls : d = call[e].disk \/ d = call[e].old
      BY DEF Held
    <3>2. d = call'[e].disk \/ d = call'[e].old
      BY <1>1, <2>2, <3>1, DisksAssumption
    <3>3. QED BY <3>2 DEF Held
  <2>3. ASSUME NEW d \in Vdis, vdi'[d].kind \in {"drive", "image"}
        PROVE  d \in (Held \cup abandoned \cup (Drives \cap Attached))'
    <3>1. d # x /\ vdi'[d] = vdi[d]
      BY <1>3, <2>3, FreeRecords
    <3>2. d \in Drives => d \in Drives'
      BY <3>1 DEF Drives
    <3>3. QED BY <2>1, <2>2, <2>3, <3>1, <3>2 DEF DiskInv, NoDiskForgotten
  <2>4. QED BY <2>3 DEF NoDiskForgotten
<1>14. QED
  BY <1>2, <1>5, <1>7, <1>8, <1>9, <1>10, <1>11, <1>12, <1>13 DEF DiskInv

LEMMA DestroyOldKeeps ==
    ASSUME DiskInv, NEW c \in Calls, DestroyOld(c)
    PROVE  DiskInv'
<1> DEFINE t == [At(c, "look") EXCEPT !.old = NULLREF]
           x == call[c].old
<1>1. /\ call[c].pc = "old" /\ op = "drive" /\ Holds(c) /\ Secret(c)
      /\ call[c].disk \in Vdis /\ x \in Vdis /\ key[c].pc = "none"
      /\ vdi' = [vdi EXCEPT ![x] = FreeVdi] /\ Goes(c, t)
      /\ abandoned \ {x} \subseteq abandoned'
      /\ UNCHANGED <<keyVars, op, vbd, cd, running>>
  BY DEF DestroyOld, world, DiskInv, Place, DrivePCs, Before, Removing
<1>2. /\ t \in CallType /\ t.pc = "look" /\ t.disk = call[c].disk /\ t.old = NULLREF
  <2>1. /\ At(c, "look") \in CallType /\ At(c, "look").pc = "look"
        /\ At(c, "look").disk = call[c].disk
    BY CallRecord DEF PCs
  <2>2. QED BY <2>1 DEF CallType
<1> HIDE DEF t
<1>3. \A b \in Used : vbd[b].vdi # x
  BY <1>1 DEF Holds
<1>4. \A e \in Calls : call[e].pc \in Early => call[e].disk # x
  BY DEF DiskInv, Secret
<1>5. Place(c)'
  <2>1. call'[c] = t
    BY <1>1, <1>2, OneCall
  <2>2. QED
    BY <1>1, <1>2, <2>1 DEF Place, DrivePCs, ImagePCs, Before, Removing, keyVars
<1>6. call[c].pc \in Early \ {"upload"} /\ call[c].disk # x
  BY <1>1, <1>4 DEF Early, Removing
<1>7. QED BY <1>1, <1>2, <1>3, <1>4, <1>5, <1>6, DiskGoes

LEMMA DestroyImageKeeps ==
    ASSUME DiskInv, NEW c \in Calls, DestroyImage(c)
    PROVE  DiskInv'
<1> DEFINE x == call[c].disk
<1>1. /\ call[c].pc = "destroy" /\ op = "image" /\ Holds(c)
      /\ x \in Vdis /\ call[c].old = NULLREF /\ key[c].pc = "none"
      /\ vdi' = [vdi EXCEPT ![x] = FreeVdi] /\ Goes(c, Idle)
      /\ UNCHANGED <<keyVars, op, vbd, cd, running, abandoned>>
  BY DEF DestroyImage, world, history, DiskInv, Place, ImagePCs, Before, Removing
<1>2. Ours(x) /\ \A e \in Calls \ {c} : call[e].disk # x
  BY <1>1 DEF Holds
<1>3. \A b \in Used : vbd[b].vdi # x
  BY <1>1, <1>2 DEF DiskInv, Devices
<1>4. Place(c)'
  <2>1. call'[c] = Idle
    BY <1>1, FreeRecords, OneCall
  <2>2. QED
    BY <1>1, <2>1, FreeRecords DEF Place, DrivePCs, ImagePCs, Before, Removing, keyVars
<1>5. QED BY <1>1, <1>2, <1>3, <1>4, FreeRecords, DiskGoes

-----------------------------------------------------------------------------
(***************************************************************************)
(* create_vbd                                                              *)
(***************************************************************************)
(* Nobody but the call knows of its disk until it is attached.             *)
LEMMA AttachKeeps ==
    ASSUME DiskInv, NEW c \in Calls, Attach(c)
    PROVE  DiskInv'
<1> DEFINE d == call[c].disk
           new == [vdi |-> d, marked |-> TRUE, device |-> call[c].device, plugged |-> FALSE]
<1>1. PICK b \in FreeVbds :
        /\ vbd' = [vbd EXCEPT ![b] = new]
        /\ Goes(c, IF call[c].wasRunning
                     THEN [At(c, "plug") EXCEPT !.vbd = b, !.device = 0, !.vbds = {}]
                     ELSE Idle)
  BY DEF Attach
<1>2. /\ call[c].pc = "look" /\ op = "drive" /\ d \in Vdis /\ call[c].old = NULLREF
      /\ key[c].pc = "none" /\ call[c] \in CallType /\ Secret(c) /\ Holds(c)
      /\ UNCHANGED <<keyVars, op, vdi, cd, running, abandoned>>
  BY CallRecord DEF Attach, Attaching, world, history, DiskInv, Place, DrivePCs, Before,
     Removing
<1>3. /\ \A e \in Used : vbd[e].vdi # d
      /\ \A e \in Calls : call[e].old # d
      /\ \A e \in Calls \ {c} : call[e].disk # d
      /\ vdi[d].kind = op /\ vdi[d].full /\ vdi[d] # FreeVdi /\ Ours(d)
  BY <1>2, FreeRecords DEF Secret, Holds, Early
<1>4. b \in Vbds /\ b \notin Used /\ \A e \in Calls : call[e].vbd # b
  BY DEF FreeVbds
<1>5. new \in VbdType /\ new.vdi = d /\ new.marked /\ ~new.plugged
  BY <1>2 DEF VbdType, CallType
<1> HIDE DEF new
<1>6. PICK t \in CallType :
        /\ Goes(c, t) /\ t.old = NULLREF
        /\ \/ t.pc = "plug" /\ t.disk = d /\ t.vbd = b
           \/ t.pc = "idle" /\ t.disk = NULLREF /\ t.vbd = NULLREF
  <2>1. CASE call[c].wasRunning
    <3> DEFINE t == [At(c, "plug") EXCEPT !.vbd = b, !.device = 0, !.vbds = {}]
    <3>1. /\ At(c, "plug") \in CallType /\ At(c, "plug").pc = "plug"
          /\ At(c, "plug").disk = d /\ At(c, "plug").old = NULLREF
      BY <1>2, CallRecord DEF PCs
    <3>2. /\ t \in CallType /\ t.pc = "plug" /\ t.disk = d /\ t.vbd = b /\ t.old = NULLREF
      <4>1. 0 \in 0 .. LastDevice /\ {} \in SUBSET Vbds
        BY DisksAssumption
      <4>2. QED BY <1>4, <3>1, <4>1 DEF CallType
    <3>3. Goes(c, t)
      BY <1>1, <2>1
    <3>4. QED BY <3>2, <3>3
  <2>2. CASE ~call[c].wasRunning
    BY <1>1, <2>2, FreeRecords
  <2>3. QED BY <2>1, <2>2
<1>7. /\ call' \in [Calls -> CallType] /\ call'[c] = t
      /\ \A e \in Calls \ {c} : call'[e] = call[e]
  BY <1>6, OneCall
<1>8. /\ vbd' \in [Vbds -> VbdType] /\ vbd'[b] = new
      /\ \A e \in Vbds \ {b} : vbd'[e] = vbd[e]
  BY <1>1, <1>4, <1>5 DEF DiskInv, DiskTypes
<1>9. Used' = Used \cup {b} /\ \A e \in Used : vbd'[e] = vbd[e]
  BY <1>2, <1>4, <1>5, <1>8, DisksAssumption DEF Used
<1>10. KeyInv' /\ UNCHANGED <<pool, raced, key>>
  BY <1>2, KeyUnchanged DEF DiskInv, keyVars
<1> HIDE DEF d
<1>11. DiskTypes'
  BY <1>2, <1>7, <1>8 DEF DiskInv, DiskTypes, CallType, VdiType, VbdType
<1>12. ASSUME NEW e \in Calls
       PROVE  Place(e)'
  <2>1. CASE e = c
    BY <1>2, <1>4, <1>6, <1>7, <1>10, <2>1
       DEF Place, DrivePCs, ImagePCs, Before, Removing
  <2>2. CASE e # c
    BY <1>2, <1>7, <1>10, <2>2 DEF DiskInv, Place
  <2>3. QED BY <2>1, <2>2
<1>13. \A e \in Calls : call'[e].old = call[e].old
  BY <1>2, <1>6, <1>7
<1>14. ASSUME NEW e \in Calls
       PROVE  Secret(e)'
  <2>1. CASE e = c
    BY <1>6, <1>7, <2>1 DEF Secret, Early, Removing
  <2>2. CASE e # c
    <3>1. call'[e] = call[e] /\ Secret(e) /\ call[e].disk # d
      BY <1>3, <1>7, <2>2 DEF DiskInv
    <3>2. call[e].pc \in Early => \A f \in Used' : vbd'[f].vdi # call[e].disk
      BY <1>5, <1>8, <1>9, <3>1 DEF Secret
    <3>3. QED BY <1>2, <1>13, <3>1, <3>2 DEF Secret
  <2>3. QED BY <2>1, <2>2
<1>15. ASSUME NEW e \in Calls
       PROVE  Holds(e)'
  <2>1. CASE e = c
    <3>1. call'[c].disk \in Vdis => call'[c].disk = d
      BY <1>6, <1>7, DisksAssumption
    <3>2. \A f \in Calls \ {c} : call'[f].disk # d
      BY <1>3, <1>7
    <3>3. call'[c].pc = "plug" => /\ vbd'[call'[c].vbd].vdi = call'[c].disk
                                  /\ vdi'[call'[c].disk].full
      BY <1>2, <1>3, <1>5, <1>6, <1>7, <1>8
    <3>4. (call[c].disk \in Vdis => Ours(call[c].disk))'
      BY <1>2, <1>3, <3>1 DEF Ours
    <3>5. call'[c].old \notin Vdis /\ call'[c].pc \in {"plug", "idle"}
      BY <1>6, <1>7, DisksAssumption
    <3>6. QED BY <2>1, <3>1, <3>2, <3>3, <3>4, <3>5 DEF Holds
  <2>2. CASE e # c
    <3>1. /\ call'[e] = call[e] /\ Holds(e) /\ call[e].disk # d /\ call[e].old # d
      BY <1>3, <1>7, <2>2 DEF DiskInv
    <3>2. call[e].disk \in Vdis => \A f \in Calls \ {e} : call'[f].disk # call[e].disk
      BY <1>6, <1>7, <3>1, DisksAssumption DEF Holds
    <3>3. call[e].vbd \in Used' => call[e].vbd \in Used
      BY <1>4, <1>9
    <3>4. call[e].pc = "old" => \A f \in Used' : vbd'[f].vdi # call[e].old
      BY <1>5, <1>8, <1>9, <3>1 DEF Holds
    <3>5. QED BY <1>2, <1>9, <3>1, <3>2, <3>3, <3>4 DEF Holds, Ours
  <2>3. QED BY <2>1, <2>2
<1>16. Disks'
  <2>1. ASSUME NEW e \in Vdis, ~vdi[e].full, NEW f \in Calls, call[f].disk = e
        PROVE  call'[f].disk = e
    BY <1>3, <1>7, <2>1 DEF d
  <2>2. QED BY <1>2, <2>1 DEF DiskInv, Disks, Ours
<1>17. Devices'
  BY <1>2, <1>3, <1>5, <1>8, <1>9 DEF DiskInv, Devices, Ours
<1>18. GoodKeys'
  BY <1>2, <1>6, <1>7, <1>10 DEF DiskInv, GoodKeys, GoodKey
<1>19. NoDiskForgotten'
  <2>1. Attached' = Attached \cup {d} /\ Drives' = Drives /\ d \in Drives
    BY <1>2, <1>3, <1>5, <1>8, <1>9 DEF Attached, Drives
  <2>2. Held \subseteq Held' \cup {d}
    <3>1. ASSUME NEW e \in Calls, NEW h, h = call[e].disk \/ h = call[e].old
          PROVE  h \in Held' \cup {d}
      BY <1>7, <1>13, <3>1 DEF Held, d
    <3>2. QED BY <3>1 DEF Held
  <2>3. QED BY <1>2, <2>1, <2>2 DEF DiskInv, NoDiskForgotten
<1>20. QED
  BY <1>10, <1>11, <1>12, <1>14, <1>15, <1>16, <1>17, <1>18, <1>19 DEF DiskInv

LEMMA DeviceExistsKeeps ==
    ASSUME DiskInv, NEW c \in Calls, DeviceExists(c)
    PROVE  DiskInv'
<1>1. /\ call[c].pc = "look" /\ op = "drive" /\ call[c].disk \in Vdis
      /\ call[c].old = NULLREF /\ key[c].pc = "none" /\ call[c] \in CallType
      /\ UNCHANGED <<keyVars, op, vdi, vbd, cd, running>>
  BY CallRecord DEF DeviceExists, Attaching, devices, world, DiskInv, Place, DrivePCs,
     Before, Removing
<1>2. CASE /\ call[c].device < LastDevice /\ abandoned' = abandoned
           /\ Goes(c, [call[c] EXCEPT !.device = call[c].device + 1])
  <2> DEFINE t == [call[c] EXCEPT !.device = call[c].device + 1]
  <2>1. call[c].device + 1 \in 0 .. LastDevice
    BY <1>1, <1>2, DisksAssumption DEF CallType
  <2>2. t \in CallType /\ t.pc = "look" /\ t.disk = call[c].disk /\ t.old = NULLREF
    BY <1>1, <2>1 DEF CallType
  <2>3. Goes(c, t)
    BY <1>2
  <2> HIDE DEF t
  <2>4. /\ vbd' \in [Vbds -> VbdType] /\ Used' = Used /\ Attached' = Attached
        /\ \A b \in Used' : vbd'[b] = vbd[b] /\ (vbd'[b].plugged => running)
    BY <1>1 DEF DiskInv, DiskTypes, Used, Attached, Devices
  <2>5. Place(c)'
    <3>1. call'[c] = t
      BY <2>2, <2>3, OneCall
    <3>2. QED
      BY <1>1, <2>2, <3>1 DEF Place, DrivePCs, ImagePCs, Before, Removing, keyVars
  <2>6. QED
    BY <1>1, <1>2, <2>2, <2>3, <2>4, <2>5, DeviceStep DEF Early, Removing
<1>3. CASE GivesUp(c, {call[c].disk})
  BY <1>1, <1>3, CallEnds
<1>4. QED BY <1>2, <1>3 DEF DeviceExists

-----------------------------------------------------------------------------
(***************************************************************************)
(* The VM and its user                                                     *)
(***************************************************************************)
LEMMA PowerKeeps ==
    ASSUME DiskInv, Power
    PROVE  DiskInv'
<1>1. UNCHANGED <<keyVars, op, vdi, cd, call, abandoned>> /\ running' = ~running
  BY DEF Power, history
<1>2. /\ vbd' \in [Vbds -> VbdType]
      /\ \A b \in Vbds : /\ vbd'[b].vdi = vbd[b].vdi /\ vbd'[b].marked = vbd[b].marked
                         /\ b \in Used => vbd'[b].plugged = ~running
  <2>1. ASSUME NEW b \in Vbds, NEW on \in BOOLEAN
        PROVE  LET new == IF b \in Used THEN [vbd[b] EXCEPT !.plugged = on] ELSE vbd[b]
               IN  /\ new \in VbdType /\ new.vdi = vbd[b].vdi /\ new.marked = vbd[b].marked
                   /\ b \in Used => new.plugged = on
    BY DEF DiskInv, DiskTypes, VbdType
  <2>2. PICK on \in BOOLEAN : on = ~running
    BY DEF DiskInv, DiskTypes
  <2>3. vbd' = [b \in Vbds |-> IF b \in Used THEN [vbd[b] EXCEPT !.plugged = on] ELSE vbd[b]]
    BY <2>2, Zenon DEF Power
  <2>4. QED BY <2>1, <2>2, <2>3
<1>3. Used' = Used /\ KeyInv' /\ UNCHANGED <<pool, raced, key>>
  BY <1>1, <1>2, KeyUnchanged DEF Used, DiskInv, keyVars
<1>4. DiskTypes'
  BY <1>1, <1>2 DEF DiskInv, DiskTypes, CallType, VdiType
<1>5. \A b \in Used : b \in Vbds
  BY DEF Used
<1>6. ASSUME NEW c \in Calls
      PROVE  (Place(c) /\ Secret(c) /\ Holds(c))'
  <2>1. Place(c) /\ Secret(c) /\ Holds(c)
    BY DEF DiskInv
  <2>2. QED BY <1>1, <1>2, <1>3, <1>5, <2>1 DEF Place, Secret, Holds, Ours
<1>7. Disks'
  BY <1>1 DEF DiskInv, Disks, Ours
<1>8. Devices'
  BY <1>1, <1>2, <1>3, <1>5 DEF DiskInv, Devices, Ours
<1>9. GoodKeys' /\ NoDiskForgotten'
  <2>1. Attached' = Attached /\ Drives' = Drives /\ Held' = Held
    BY <1>1, <1>2, <1>3, <1>5 DEF Attached, Drives, Held
  <2>2. QED BY <1>1, <1>3, <2>1 DEF DiskInv, GoodKeys, GoodKey, NoDiskForgotten
<1>10. QED BY <1>3, <1>4, <1>6, <1>7, <1>8, <1>9 DEF DiskInv

(* Neither a disk nor a call is touched, only, perhaps, the CD drive.      *)
LEMMA OthersKeep ==
    ASSUME DiskInv, ChangeCd \/ UNCHANGED vars
    PROVE  DiskInv'
<1>1. /\ UNCHANGED <<keyVars, op, vdi, vbd, running, call, abandoned>>
      /\ cd' \in Vdis \cup {NULLREF, NoDrive}
  BY DEF ChangeCd, vars, diskVars, world, history, DiskInv, DiskTypes
<1>2. Used' = Used /\ KeyInv' /\ UNCHANGED <<pool, raced, key>>
  BY <1>1, KeyUnchanged DEF Used, DiskInv, keyVars
<1>3. DiskTypes'
  BY <1>1 DEF DiskInv, DiskTypes, CallType, VdiType, VbdType
<1>4. \A c \in Calls : (Place(c) /\ Secret(c) /\ Holds(c))'
  BY <1>1, <1>2 DEF DiskInv, Place, Secret, Holds, Ours
<1>5. Disks' /\ Devices'
  BY <1>1, <1>2 DEF DiskInv, Disks, Devices, Ours
<1>6. GoodKeys' /\ NoDiskForgotten'
  BY <1>1, <1>2
     DEF DiskInv, GoodKeys, GoodKey, NoDiskForgotten, Attached, Drives, Held
<1>7. QED BY <1>2, <1>3, <1>4, <1>5, <1>6 DEF DiskInv

LEMMA DiskNext ==
    ASSUME DiskInv, [Next]_vars
    PROVE  DiskInv'
<1>1. ASSUME NEW c \in Calls, DriveStep(c)
      PROVE  DiskInv'
  BY <1>1, PreparingKeeps, KeyLookupKeeps, BuildIsoKeeps, LookAtDeviceKeeps, UnplugKeeps,
     DestroyDeviceKeeps, DestroyOldKeeps, GivingUpKeeps, AttachKeeps, DeviceExistsKeeps,
     PlugKeeps DEF DriveStep
<1>2. ASSUME NEW c \in Calls, ImageStep(c)
      PROVE  DiskInv'
  BY <1>2, PreparingKeeps, FinalEjectKeeps, DestroyImageKeeps, GivingUpKeeps
     DEF ImageStep
<1>3. ASSUME NEW c \in Calls, ImportStep(c) \/ User(c) \/ Failing(c)
      PROVE  DiskInv'
  BY <1>3, CreateDiskKeeps, UploadKeeps, PreparingKeeps, GivingUpKeeps, ImageFailsKeeps
     DEF ImportStep, User, Failing
<1>4. QED
  BY <1>1, <1>2, <1>3, DriveBeginKeeps, ImageBeginKeeps, PowerKeeps, OthersKeep DEF Next

-----------------------------------------------------------------------------
(* The invariant the other theorems follow from: what a call may hold      *)
(* where it is, that a disk is attached once, and that until then nobody   *)
(* else knows of it.                                                       *)
THEOREM DisksCorrect == Spec => []DiskInv
<1>1. QED BY DisksInitial, DiskNext, PTL DEF Spec

LEMMA InvTyped ==
    ASSUME DiskInv
    PROVE  TypeOK
<1>1. pool \in PoolConfig /\ secrets \subseteq Pairs \X Halves
  BY DEF DiskInv, KeyInv, KeyTypes
<1>2. \A d \in Vdis :
        /\ vdi[d].kind \in {"free", "data", "iso", "drive", "image"}
        /\ ~vdi[d].full => \/ vdi[d] = FreeVdi \/ d \in abandoned
                           \/ \E c \in Calls : call[c].disk = d
  BY DEF DiskInv, DiskTypes, VdiType, Disks
<1>3. /\ \A b \in Used : vbd[b].device \in 0 .. LastDevice /\ (vbd[b].plugged => running)
      /\ cd \in Vdis \cup {NULLREF, NoDrive}
  BY DEF DiskInv, DiskTypes, VbdType, Devices, Used
<1>4. ASSUME NEW c \in Calls
      PROVE  /\ call[c].pc \in PCs
             /\ key[c].pc \in LookupPCs
             /\ key[c].pc # "none" => call[c].pc = "key"
             /\ call[c].disk # NULLREF => vdi[call[c].disk].kind \in {op, "free"}
  <2>1. call[c] \in CallType /\ Place(c) /\ Holds(c)
    BY DEF DiskInv, DiskTypes
  <2>2. key[c].pc \in LookupPCs
    BY DEF DiskInv, KeyInv, KeyTypes, LookupType
  <2>3. QED BY <2>1, <2>2 DEF CallType, Place, Holds, Ours
<1>5. QED BY <1>1, <1>2, <1>3, <1>4 DEF TypeOK

(* Types; a disk without content is in the hands of a call, or was.        *)
THEOREM DisksTyped == Spec => []TypeOK
<1>1. QED BY DisksCorrect, InvTyped, PTL

(* However many calls replace the config drive or insert certificates at   *)
(* once, and whatever fails: a disk of the service is attached, or held by *)
(* a call, or a call that had it failed.                                   *)
THEOREM DisksRemembered == Spec => []NoDiskForgotten
<1>1. DiskInv => NoDiskForgotten
  BY DEF DiskInv
<1>2. QED BY <1>1, DisksCorrect, PTL

(* The pool names the halves of one pair, and they are there, when calls   *)
(* that make config drives look the key up, make it, and fail.             *)
THEOREM PoolKeyWhole == Spec => []KeyWhole
<1>1. DiskInv => KeyWhole
  BY DEF DiskInv, KeyInv
<1>2. QED BY <1>1, DisksCorrect, PTL

(* Unless two calls have been making the key at once, what a call was      *)
(* handed as the key of the pool is that key, for the calls that make      *)
(* config drives too.                                                      *)
THEOREM PoolKeyHandedOut == Spec => []HandedOutIsPool
<1>1. DiskInv => HandedOutIsPool
  BY DEF DiskInv, KeyInv
<1>2. QED BY <1>1, DisksCorrect, PTL

(* Unless two calls have been making the key at once, the key in every     *)
(* complete config drive is the key of the pool.                           *)
THEOREM DriveKeysWork == Spec => []DriveKeyWorks
<1>1. DiskInv => DriveKeyWorks
  BY DEF DiskInv, GoodKeys, GoodKey, DriveKeyWorks, Drives
<1>2. QED BY <1>1, DisksCorrect, PTL

-----------------------------------------------------------------------------
(***************************************************************************)
(* What steps do to disks                                                  *)
(***************************************************************************)
LEMMA DiskChanges ==
    ASSUME DiskInv, [Next]_vars, vdi' # vdi
    PROVE  \E c \in Calls :
             CreateDisk(c) \/ Upload(c) \/ DestroyOld(c) \/ DestroyImage(c)
<1>1. ~UNCHANGED vars /\ ~Power /\ ~ChangeCd
  BY DEF vars, diskVars, Power, ChangeCd
<1>2. ASSUME NEW c \in Calls, DriveStep(c)
      PROVE  DestroyOld(c)
  BY <1>2 DEF DriveStep, CheckNetwork, CreateVif, LookUpKey, GetKey, BuildIso,
     LookAtDevice, Unplug, DestroyDevice, RemoveFails, Attach, DeviceExists, Plug,
     PlugFails, diskVars, devices
<1>3. ASSUME NEW c \in Calls, ImageStep(c)
      PROVE  DestroyImage(c)
  BY <1>3 DEF ImageStep, Generate, Insert, InsertFails, Eject, FinalEject,
     DestroyImageFails, devices
<1>4. ASSUME NEW c \in Calls
      PROVE  ~DriveBegin(c) /\ ~ImageBegin(c) /\ ~User(c) /\ ~Failing(c)
  BY DEF DriveBegin, ImageBegin, User, Answer, ScriptRun, Failing, BuildIsoFails,
     GenerateFails, DriveFails, ImageFails, devices
<1>5. QED BY <1>1, <1>2, <1>3, <1>4 DEF Next, ImportStep

LEMMA OwnDisksStep ==
    ASSUME DiskInv, [Next]_vars, NEW d \in Vdis, vdi[d].kind \in {"data", "iso"}
    PROVE  vdi'[d] = vdi[d]
<1>1. SUFFICES ASSUME vdi' # vdi
               PROVE  vdi'[d] = vdi[d]
  OBVIOUS
<1>2. PICK c \in Calls :
        CreateDisk(c) \/ Upload(c) \/ DestroyOld(c) \/ DestroyImage(c)
  BY <1>1, DiskChanges
<1>3. ~Ours(d) /\ vdi \in [Vdis -> VdiType] /\ Place(c) /\ Secret(c) /\ Holds(c)
  BY DEF Ours, DiskInv, DiskTypes
<1>4. CASE CreateDisk(c)
  <2>1. d \notin FreeVdis
    BY <1>3, FreeRecords DEF FreeVdis, Ours
  <2>2. QED BY <1>3, <1>4, <2>1 DEF CreateDisk, FreeVdis
<1>5. CASE Upload(c) \/ DestroyImage(c)
  <2>1. d # call[c].disk
    BY <1>3, <1>5
       DEF Upload, DestroyImage, Place, Holds, Before
  <2>2. QED BY <1>3, <1>5, <2>1 DEF Upload, DestroyImage
<1>6. CASE DestroyOld(c)
  <2>1. d # call[c].old
    BY <1>3, <1>6 DEF DestroyOld, Place, Holds, Removing
  <2>2. QED BY <1>3, <1>6, <2>1 DEF DestroyOld
<1>7. QED BY <1>2, <1>4, <1>5, <1>6

(* Whatever devices come and go while calls look for the old config drive, *)
(* and however many do: the disks of the VM and the ISOs of the user are   *)
(* never changed or destroyed.                                             *)
THEOREM OthersDisksSafe == Spec => OnlyOwnDisks
<1>1. DiskInv /\ [Next]_vars =>
        [\A d \in Vdis : vdi[d].kind \in {"data", "iso"} => vdi'[d] = vdi[d]]_vars
  BY OwnDisksStep
<1>2. QED BY <1>1, DisksCorrect, PTL DEF Spec, OnlyOwnDisks

=============================================================================
