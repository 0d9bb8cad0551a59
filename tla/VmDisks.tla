------------------------------ MODULE VmDisks ------------------------------
(***************************************************************************)
(* The disks the service puts into a VM: the config drive a CoreOS VM      *)
(* boots with (coreos.create_config_drive) and the virtual CD that takes   *)
(* generated certificates into a Windows VM (xscontainer-prepare-vm),      *)
(* with the SSH key the first one carries (module PoolKey) and the files   *)
(* that are left on the host (module Certificates).                        *)
(*                                                                         *)
(* One VM; several calls at once.  A step is one call to XAPI with the     *)
(* local work up to the next one.  XAPI is the environment: it refuses to  *)
(* destroy what is in use and to use a device number twice, and any call   *)
(* to it may fail.                                                         *)
(***************************************************************************)
EXTENDS PoolKey, Certificates

CONSTANTS
    Vdis, Vbds,  \* references XAPI may give to disks and to devices
    LastDevice,  \* the last device number _retry_device_exists tries
    Ops,         \* what is called: a subset of {"drive", "image"}
    MaxCalls,    \* how many calls there are (a bound)
    HostInternal, \* get_hi_preferene_on: host internal networking is wanted
    MaxFaults,   \* how many calls to XAPI or local commands fail (a bound)
    Data, DataVbd, Iso,  \* the disk of the VM, its device, an ISO of the user
    NULLREF, NoDrive

ASSUME DisksAssumption ==
    /\ LastDevice \in Nat \ {0}
    /\ MaxFaults \in Nat /\ MaxCalls \in Nat
    /\ Ops \subseteq {"drive", "image"}
    /\ NULLREF \notin Vdis \cup Vbds /\ NoDrive \notin Vdis \cup {NULLREF}
    /\ Data \in Vdis /\ Iso \in Vdis \ {Data} /\ DataVbd \in Vbds

VARIABLES
    op,         \* what the calls do: the two kinds have nothing in common,
                \* so that a behaviour has calls of one kind
    vdi,        \* the disks
    vbd,        \* the devices of the VM other than its CD drive
    cd,         \* the disk in its CD drive, NULLREF, or NoDrive
    running,    \* the VM runs
    vifs,       \* interfaces of the VM on the host internal network
    call,       \* the calls
    files,      \* files the last call of each has on the host
    faults,     \* how many have failed
    begun,      \* how many calls there have been
    abandoned,  \* history: disks whose call failed or gave up on them
    overlapped  \* history: two calls were in progress at once

diskVars == <<op, vdi, vbd, cd, running, vifs, call, files, faults, begun,
              abandoned, overlapped>>
vars == <<keyVars, diskVars>>

(* kind: what the disk is for; marked: its other_config has the key        *)
(* config-drive; full: its content is there; pair: the key in it.          *)
FreeVdi == [kind |-> "free", marked |-> FALSE, full |-> FALSE, pair |-> Absent]
FreeVbd == [vdi |-> NULLREF, device |-> 0, marked |-> FALSE, plugged |-> FALSE]

Idle == [pc |-> "idle", vbds |-> {}, wasRunning |-> FALSE,
         disk |-> NULLREF, device |-> 0, vbd |-> NULLREF, old |-> NULLREF,
         pair |-> Absent]

Used == {b \in Vbds : vbd[b].vdi # NULLREF}
Active == {c \in Calls : call[c].pc # "idle"}

(* XAPI never gives a reference twice: one is free when nobody holds it.   *)
FreeVbds ==
    {b \in Vbds \ Used : \A c \in Calls : b \notin call[c].vbds \cup {call[c].vbd}}
FreeVdis ==
    {d \in Vdis : /\ vdi[d] = FreeVdi
                  /\ \A c \in Calls : d \notin {call[c].disk, call[c].old}}

Goes(c, t) == call' = [call EXCEPT ![c] = t]
At(c, pc) == [call[c] EXCEPT !.pc = pc]
To(c, pc) == Goes(c, At(c, pc))

(* The call ends without having finished with some disks. *)
GivesUp(c, disks) ==
    /\ Goes(c, Idle)
    /\ abandoned' = abandoned \cup {d \in disks \ {NULLREF} : vdi[d] # FreeVdi}

(* One more call. *)
Begins ==
    /\ begun < MaxCalls /\ begun' = begun + 1
    /\ overlapped' = (overlapped \/ Active # {})

(* One more failure. *)
Fault == faults < MaxFaults /\ faults' = faults + 1

IsoFiles == {"tempisodir", "isofile"}
Leaves(c, names) == files' = [files EXCEPT ![c] = names]

devices == <<vdi, vbd, cd>>
world == <<op, running, vifs>>
history == <<faults, begun, abandoned, overlapped>>

(***************************************************************************)
(* create_config_drive                                                     *)
(***************************************************************************)
(* The VM record, read once. *)
DriveBegin(c) ==
    /\ op = "drive" /\ call[c].pc = "idle"
    /\ Goes(c, [Idle EXCEPT !.pc = "net", !.vbds = Used, !.wasRunning = running])
    /\ Leaves(c, {})
    /\ Begins
    /\ UNCHANGED <<keyVars, devices, world, faults, abandoned>>

(* Mutant: nobody looks whether there is an interface. *)
CheckNetwork_unchecked(c) ==
    /\ call[c].pc = "net"
    /\ \/ HostInternal /\ To(c, "vif") /\ files' = files
       \/ ~HostInternal /\ To(c, "key") /\ Leaves(c, IsoFiles)
    /\ UNCHANGED <<keyVars, devices, world, history>>

(* prepare_vm_for_config_drive: an interface on the host internal network. *)
(* Then create_config_drive_iso makes a directory and the file.            *)
CheckNetwork(c) ==
    /\ call[c].pc = "net"
    /\ \/ HostInternal /\ vifs = 0 /\ To(c, "vif") /\ files' = files
       \/ (HostInternal => vifs > 0) /\ To(c, "key") /\ Leaves(c, IsoFiles)
    /\ UNCHANGED <<keyVars, devices, world, history>>

CreateVif(c) ==
    /\ call[c].pc = "vif"
    /\ vifs' = vifs + 1
    /\ To(c, "key") /\ Leaves(c, IsoFiles)
    /\ UNCHANGED <<keyVars, devices, op, running, history>>

(* get_template_data: the name of the VM, and the public key of the pool.  *)
LookUpKey(c) ==
    /\ call[c].pc = "key"
    /\ KeyBegin(c, "public")
    /\ UNCHANGED diskVars

GetKey(c) == call[c].pc = "key" /\ KeyStep(c) /\ UNCHANGED diskVars

(* Mutant: when something fails the tools stay mounted. *)
Tidied_no_umount(names) ==
    IF "mounted" \in names THEN names ELSE names \ {"toolsdir", "tempisodir"}

(* The `finally' of create_config_drive_iso: the ISO file is not in it. *)
Tidied(names) == names \ {"mounted", "toolsdir", "tempisodir"}

(* The tools are mounted, copied and the ISO is made. *)
BuildIso(c) ==
    /\ call[c].pc = "key" /\ key[c].pc = "got"
    /\ KeyEnd(c)
    /\ Goes(c, [At(c, "create") EXCEPT !.pair = key[c].pair])
    /\ Leaves(c, Tidied(files[c] \cup {"toolsdir", "mounted"}))
    /\ UNCHANGED <<devices, world, history>>

(* There are no tools, or the mount, a copy or mkisofs fails; or else the  *)
(* umount does, and nothing is tidied.                                     *)
BuildIsoFails(c) ==
    /\ Fault
    /\ call[c].pc = "key" /\ key[c].pc = "got"
    /\ KeyEnd(c)
    /\ \/ \E made \in {{"toolsdir"}, {"toolsdir", "mounted"}} :
            Leaves(c, Tidied(files[c] \cup made))
       \/ Leaves(c, files[c] \cup {"toolsdir", "mounted"})
    /\ GivesUp(c, {})
    /\ UNCHANGED <<devices, world, begun, overlapped>>

(***************************************************************************)
(* import_disk                                                             *)
(***************************************************************************)
(* Mutant: the content is not uploaded. *)
CreateDisk_only(c) ==
    /\ call[c].pc = "create"
    /\ \E d \in FreeVdis :
         /\ vdi' = [vdi EXCEPT ![d] = [kind |-> op, marked |-> (op = "drive"),
                                      full |-> FALSE, pair |-> call[c].pair]]
         /\ Goes(c, [At(c, IF op = "drive" THEN "look" ELSE "insert")
                       EXCEPT !.disk = d, !.pair = Absent])
    /\ UNCHANGED <<keyVars, vbd, cd, world, files, history>>

CreateDisk(c) ==
    /\ call[c].pc = "create"
    /\ \E d \in FreeVdis :
         /\ vdi' = [vdi EXCEPT ![d] = [kind |-> op, marked |-> (op = "drive"),
                                      full |-> FALSE, pair |-> call[c].pair]]
         /\ Goes(c, [At(c, "upload") EXCEPT !.disk = d, !.pair = Absent])
    /\ UNCHANGED <<keyVars, vbd, cd, world, files, history>>

(* Mutant: nobody looks whether curl succeeded. *)
Upload_unchecked(c) ==
    /\ call[c].pc = "upload"
    /\ \E ok \in BOOLEAN : vdi' = [vdi EXCEPT ![call[c].disk].full = ok]
    /\ \/ op = "drive" /\ To(c, "look") /\ Leaves(c, files[c] \ {"isofile"})
       \/ op = "image" /\ To(c, "insert") /\ files' = files
    /\ UNCHANGED <<keyVars, vbd, cd, world, history>>

(* The local file goes, and the call goes on with its disk. *)
Upload(c) ==
    /\ call[c].pc = "upload"
    /\ vdi' = [vdi EXCEPT ![call[c].disk].full = TRUE]
    /\ \/ op = "drive" /\ To(c, "look") /\ Leaves(c, files[c] \ {"isofile"})
       \/ op = "image" /\ To(c, "insert") /\ files' = files
    /\ UNCHANGED <<keyVars, vbd, cd, world, history>>

(***************************************************************************)
(* remove_config_drive, with the devices the VM had when the call began    *)
(***************************************************************************)
(* Mutants: any disk will do; what is plugged in is left alone. *)
IsConfigDrive_any(b) == TRUE
IsConfigDrive_unplugged(b) == ~vbd[b].plugged /\ (vbd[b].marked \/ vdi[vbd[b].vdi].marked)

IsConfigDrive(b) == vbd[b].marked \/ vdi[vbd[b].vdi].marked

LookAtDevice(c) ==
    /\ call[c].pc = "look"
    /\ \E b \in call[c].vbds \cap Used :
         /\ IsConfigDrive(b)
         /\ Goes(c, [At(c, IF vbd[b].plugged THEN "unplug" ELSE "device")
                       EXCEPT !.vbds = @ \ {b}, !.vbd = b, !.old = vbd[b].vdi])
    /\ UNCHANGED <<keyVars, devices, world, files, history>>

Unplug(c) ==
    /\ call[c].pc = "unplug" /\ vbd[call[c].vbd].plugged
    /\ vbd' = [vbd EXCEPT ![call[c].vbd].plugged = FALSE]
    /\ To(c, "device")
    /\ UNCHANGED <<keyVars, vdi, cd, world, files, history>>

DestroyDevice(c) ==
    /\ call[c].pc = "device"
    /\ call[c].vbd \in Used /\ ~vbd[call[c].vbd].plugged
    /\ vbd' = [vbd EXCEPT ![call[c].vbd] = FreeVbd]
    /\ Goes(c, [At(c, "old") EXCEPT !.vbd = NULLREF])
    /\ UNCHANGED <<keyVars, vdi, cd, world, files, history>>

(* Mutant: the disk of the old drive stays. *)
DestroyOld_device_only(c) ==
    /\ call[c].pc = "old"
    /\ vdi' = vdi
    /\ Goes(c, [At(c, "look") EXCEPT !.old = NULLREF])
    /\ UNCHANGED <<keyVars, vbd, cd, world, files, history>>

DestroyOld(c) ==
    /\ call[c].pc = "old" /\ vdi[call[c].old] # FreeVdi
    /\ vdi' = [vdi EXCEPT ![call[c].old] = FreeVdi]
    /\ Goes(c, [At(c, "look") EXCEPT !.old = NULLREF])
    /\ abandoned' = abandoned \ {call[c].old}
    /\ UNCHANGED <<keyVars, vbd, cd, world, files, faults, begun, overlapped>>

(* Something the call wants to look at, unplug or destroy is gone or in    *)
(* use.                                                                    *)
RemoveFails(c) ==
    /\ \/ call[c].pc = "look" /\ ~ (call[c].vbds \subseteq Used)
       \/ call[c].pc = "unplug" /\ ~vbd[call[c].vbd].plugged
       \/ call[c].pc = "device" /\ (call[c].vbd \notin Used \/ vbd[call[c].vbd].plugged)
       \/ call[c].pc = "old" /\ vdi[call[c].old] = FreeVdi
    /\ GivesUp(c, {call[c].disk, call[c].old})
    /\ UNCHANGED <<keyVars, devices, world, files, faults, begun, overlapped>>

(***************************************************************************)
(* create_vbd                                                              *)
(***************************************************************************)
Taken == {vbd[b].device : b \in Used}

(* All devices have been looked at; those left are none of ours. *)
Attaching(c) ==
    /\ call[c].pc = "look"
    /\ \A b \in call[c].vbds : b \in Used /\ ~IsConfigDrive(b)

(* _retry_device_exists: VBD.create with the next device number.  A VM that *)
(* ran when the call began gets the disk plugged in.  What remains then,   *)
(* mark_monitorable_vm, is a client of module MonitoredVM.                 *)
Attach(c) ==
    /\ Attaching(c) /\ call[c].device \notin Taken
    /\ \E b \in FreeVbds :
         /\ vbd' = [vbd EXCEPT ![b] = [vdi |-> call[c].disk, marked |-> TRUE,
                                       device |-> call[c].device, plugged |-> FALSE]]
         /\ Goes(c, IF call[c].wasRunning
                      THEN [At(c, "plug") EXCEPT !.vbd = b, !.device = 0, !.vbds = {}]
                      ELSE Idle)
    /\ UNCHANGED <<keyVars, vdi, cd, world, files, history>>

DeviceExists(c) ==
    /\ Attaching(c) /\ call[c].device \in Taken
    /\ \/ /\ call[c].device < LastDevice
          /\ Goes(c, [call[c] EXCEPT !.device = @ + 1])
          /\ UNCHANGED abandoned
       \/ /\ call[c].device = LastDevice
          /\ GivesUp(c, {call[c].disk})
    /\ UNCHANGED <<keyVars, devices, world, files, faults, begun, overlapped>>

Plug(c) ==
    /\ call[c].pc = "plug"
    /\ call[c].vbd \in Used /\ ~vbd[call[c].vbd].plugged /\ running
    /\ vbd' = [vbd EXCEPT ![call[c].vbd].plugged = TRUE]
    /\ Goes(c, Idle)
    /\ UNCHANGED <<keyVars, vdi, cd, world, files, history>>

(* The VM halted, or it was started or the device was removed meanwhile. *)
PlugFails(c) ==
    /\ call[c].pc = "plug"
    /\ call[c].vbd \notin Used \/ vbd[call[c].vbd].plugged \/ ~running
    /\ GivesUp(c, {call[c].disk})
    /\ UNCHANGED <<keyVars, devices, world, files, faults, begun, overlapped>>

(***************************************************************************)
(* _generate_and_insert_certs of xscontainer-prepare-vm                    *)
(***************************************************************************)
ImageBegin(c) ==
    /\ op = "image" /\ call[c].pc = "idle" /\ running
    /\ Goes(c, [Idle EXCEPT !.pc = "certs"])
    /\ Leaves(c, {})
    /\ Begins
    /\ UNCHANGED <<keyVars, devices, world, faults, abandoned>>

(* generate_certs_and_return_iso, with the set_for_vm of module TlsSecrets.*)
Generate(c) ==
    /\ call[c].pc = "certs"
    /\ To(c, "create") /\ Leaves(c, Remains(AllWell, FALSE))
    /\ UNCHANGED <<keyVars, devices, world, history>>

GenerateFails(c) ==
    /\ Fault /\ call[c].pc = "certs"
    /\ \E n \in StepNumber, partly \in BOOLEAN : Leaves(c, Remains(n, partly))
    /\ GivesUp(c, {})
    /\ UNCHANGED <<keyVars, devices, world, begun, overlapped>>

(* VBD.insert. *)
Insert(c) ==
    /\ call[c].pc \in {"insert", "again"} /\ cd = NULLREF
    /\ cd' = call[c].disk
    /\ To(c, "wait")
    /\ UNCHANGED <<keyVars, vdi, vbd, world, files, history>>

(* VBD_NOT_EMPTY: the user is asked whether to eject what is there.  Any   *)
(* other failure goes unnoticed.  A second failure leads to the `finally'. *)
InsertFails(c) ==
    /\ cd # NULLREF
    /\ \/ call[c].pc = "insert" /\ To(c, IF cd = NoDrive THEN "wait" ELSE "ask")
       \/ call[c].pc = "again" /\ To(c, "final")
    /\ UNCHANGED <<keyVars, devices, world, files, history>>

Answer(c) ==
    /\ call[c].pc = "ask"
    /\ \E yes \in BOOLEAN : To(c, IF yes THEN "eject" ELSE "final")
    /\ UNCHANGED <<keyVars, devices, world, files, history>>

Eject(c) ==
    /\ call[c].pc = "eject"
    /\ \/ cd \in Vdis /\ cd' = NULLREF /\ To(c, "again")
       \/ cd \notin Vdis /\ cd' = cd /\ To(c, "final")
    /\ UNCHANGED <<keyVars, vdi, vbd, world, files, history>>

(* "Type y and enter once the script has been run." *)
ScriptRun(c) ==
    /\ call[c].pc = "wait"
    /\ To(c, "final")
    /\ UNCHANGED <<keyVars, devices, world, files, history>>

(* The `finally': the local file goes, what is in the drive - whatever it  *)
(* is - is ejected, and the disk is destroyed.                             *)
FinalEject(c) ==
    /\ call[c].pc = "final"
    /\ cd' = IF cd \in Vdis THEN NULLREF ELSE cd
    /\ Goes(c, IF call[c].disk = NULLREF THEN Idle ELSE At(c, "destroy"))
    /\ Leaves(c, files[c] \ {"targetiso"})
    /\ UNCHANGED <<keyVars, vdi, vbd, world, history>>

DestroyImage(c) ==
    /\ call[c].pc = "destroy" /\ cd # call[c].disk
    /\ vdi' = [vdi EXCEPT ![call[c].disk] = FreeVdi]
    /\ Goes(c, Idle)
    /\ UNCHANGED <<keyVars, vbd, cd, world, files, history>>

(* It is in the drive still, or again. *)
DestroyImageFails(c) ==
    /\ call[c].pc = "destroy" /\ cd = call[c].disk
    /\ GivesUp(c, {call[c].disk})
    /\ UNCHANGED <<keyVars, devices, world, files, faults, begun, overlapped>>

(***************************************************************************)
(* Calls to XAPI that fail                                                 *)
(***************************************************************************)
(* The bounds of the model: no space for a disk, no new key pair.          *)
Exhausted(c) ==
    \/ call[c].pc = "create" /\ FreeVdis = {}
    \/ key[c].pc = "look" /\ Missing /\ Unused = {}
    \/ Attaching(c) /\ FreeVbds = {}

(* create_config_drive lets the exception through.  The local ISO goes if  *)
(* it was being imported.                                                  *)
DriveFails(c) ==
    /\ \/ Fault
       \/ Exhausted(c) /\ faults' = faults
    /\ op = "drive" /\ call[c].pc # "idle" /\ key[c].pc # "got"
    /\ GivesUp(c, {call[c].disk, call[c].old})
    /\ IF key[c].pc = "none" THEN UNCHANGED keyVars ELSE KeyEnd(c)
    /\ Leaves(c, Tidied(files[c]) \
                    (IF call[c].pc \in {"create", "upload"}
                       THEN {"isofile"} ELSE {}))
    /\ UNCHANGED <<devices, world, begun, overlapped>>

(* An import that fails is tried once more, with the reference of the      *)
(* default SR for its uuid, which fails.  The `finally' knows no disk      *)
(* then.  A failing insert is overlooked, a failing eject at the end too.  *)
ImageFails(c) ==
    /\ \/ Fault
       \/ Exhausted(c) /\ faults' = faults
    /\ op = "image"
    /\ \/ /\ call[c].pc \in {"create", "upload"}
          /\ Goes(c, [At(c, "final") EXCEPT !.disk = NULLREF])
          /\ abandoned' = abandoned \cup ({call[c].disk} \ {NULLREF})
          /\ files' = files
       \/ /\ call[c].pc \in {"insert", "eject", "again"}
          /\ To(c, IF call[c].pc = "insert" THEN "wait" ELSE "final")
          /\ UNCHANGED <<abandoned, files>>
       \/ /\ call[c].pc = "final"
          /\ Goes(c, IF call[c].disk = NULLREF THEN Idle ELSE At(c, "destroy"))
          /\ Leaves(c, files[c] \ {"targetiso"})
          /\ abandoned' = abandoned
       \/ /\ call[c].pc = "destroy"
          /\ GivesUp(c, {call[c].disk})
          /\ files' = files
    /\ UNCHANGED <<keyVars, devices, world, begun, overlapped>>

(***************************************************************************)
(* The VM and its user                                                     *)
(***************************************************************************)
Power ==
    /\ running' = ~running
    /\ vbd' = [b \in Vbds |-> IF b \in Used THEN [vbd[b] EXCEPT !.plugged = ~running]
                                           ELSE vbd[b]]
    /\ UNCHANGED <<keyVars, op, vdi, cd, vifs, call, files, history>>

(* The user changes the CD; the ISOs are those of the user. *)
ChangeCd ==
    /\ \/ cd = NULLREF /\ cd' \in {d \in Vdis : vdi[d].kind = "iso"}
       \/ cd \in Vdis /\ cd' = NULLREF
    /\ UNCHANGED <<keyVars, vdi, vbd, world, call, files, history>>

-----------------------------------------------------------------------------
FirstVdi ==
    [d \in Vdis |-> IF d \in {Data, Iso}
                      THEN [FreeVdi EXCEPT !.full = TRUE,
                                           !.kind = IF d = Data THEN "data" ELSE "iso"]
                      ELSE FreeVdi]
FirstVbd ==
    [b \in Vbds |-> IF b = DataVbd THEN [FreeVbd EXCEPT !.vdi = Data, !.plugged = running]
                                   ELSE FreeVbd]

(* A VM with a disk and perhaps a CD drive and a config drive. *)
Init ==
    /\ KeyInit
    /\ op \in Ops
    /\ running \in BOOLEAN /\ vifs = 0
    /\ \/ vdi = FirstVdi /\ vbd = FirstVbd
       \/ /\ op = "drive" /\ ~Missing
          /\ \E d \in Vdis \ {Data, Iso}, b \in Vbds \ {DataVbd} :
               /\ vdi = [FirstVdi EXCEPT ![d] = [kind |-> "drive", marked |-> TRUE,
                                                 full |-> TRUE, pair |-> pool.public]]
               /\ vbd = [FirstVbd EXCEPT ![b] = [vdi |-> d, device |-> 1, marked |-> TRUE,
                                                 plugged |-> running]]
    /\ cd \in IF op = "drive" THEN {NoDrive} ELSE {NULLREF, NoDrive, Iso}
    /\ call = [c \in Calls |-> Idle]
    /\ files = [c \in Calls |-> {}]
    /\ faults = 0 /\ begun = 0 /\ abandoned = {} /\ overlapped = FALSE

DriveStep(c) ==
    \/ CheckNetwork(c)
    \/ CreateVif(c)
    \/ LookUpKey(c)
    \/ GetKey(c)
    \/ BuildIso(c)
    \/ LookAtDevice(c)
    \/ Unplug(c)
    \/ DestroyDevice(c)
    \/ DestroyOld(c)
    \/ RemoveFails(c)
    \/ Attach(c)
    \/ DeviceExists(c)
    \/ Plug(c)
    \/ PlugFails(c)

ImageStep(c) ==
    \/ Generate(c)
    \/ Insert(c)
    \/ InsertFails(c)
    \/ Eject(c)
    \/ FinalEject(c)
    \/ DestroyImage(c)
    \/ DestroyImageFails(c)

ImportStep(c) == CreateDisk(c) \/ Upload(c)

User(c) == Answer(c) \/ ScriptRun(c)

Failing(c) ==
    \/ BuildIsoFails(c)
    \/ GenerateFails(c)
    \/ DriveFails(c)
    \/ ImageFails(c)

Next ==
    \/ \E c \in Calls :
          \/ DriveBegin(c) \/ ImageBegin(c)
          \/ DriveStep(c)
          \/ ImageStep(c)
          \/ ImportStep(c)
          \/ User(c)
          \/ Failing(c)
    \/ Power
    \/ ChangeCd

Spec == Init /\ [][Next]_vars

-----------------------------------------------------------------------------
(***************************************************************************)
(* Properties                                                              *)
(***************************************************************************)
PCs == {"idle", "net", "vif", "key", "create", "upload", "look",
        "unplug", "device", "old", "plug",
        "certs", "insert", "ask", "eject", "again", "wait", "final", "destroy"}

(* Types; disks without content have no owner but a call; a lookup of the  *)
(* key is part of a call that makes a config drive.                        *)
TypeOK ==
    /\ pool \in PoolConfig /\ secrets \subseteq Pairs \X Halves
    /\ \A d \in Vdis :
        /\ vdi[d].kind \in {"free", "data", "iso", "drive", "image"}
        /\ ~vdi[d].full => \/ vdi[d] = FreeVdi \/ d \in abandoned
                           \/ \E c \in Calls : call[c].disk = d
    /\ \A b \in Used : vbd[b].device \in 0 .. LastDevice /\ (vbd[b].plugged => running)
    /\ cd \in Vdis \cup {NULLREF, NoDrive}
    /\ \A c \in Calls :
        /\ call[c].pc \in PCs
        /\ key[c].pc \in LookupPCs
        /\ key[c].pc # "none" => call[c].pc = "key"
        /\ call[c].disk # NULLREF => vdi[call[c].disk].kind \in {op, "free"}

Drives == {d \in Vdis : vdi[d].kind = "drive"}
Attached == {vbd[b].vdi : b \in Used}
Held == UNION {{call[c].disk, call[c].old} : c \in Calls}

(* Only disks the service made are ever destroyed or changed, whatever     *)
(* devices come and go while a call looks for the old config drive.        *)
(* (remove_config_drive, _generate_and_insert_certs)                       *)
OnlyOwnDisks ==
    [][\A d \in Vdis : vdi[d].kind \in {"data", "iso"} => vdi'[d] = vdi[d]]_vars

(* Complete config drives that are attached, or that a call is about to    *)
(* attach.  One that a call gave up on is neither: nobody will.            *)
Usable ==
    {d \in Drives : /\ vdi[d].full
                    /\ d \in Attached \/ \E c \in Calls : call[c].disk = d}

(* No step takes the last one from the VM, whoever replaces it, but the    *)
(* failure of a call whose own, complete and not attached, is the last: the*)
(* old drive is only removed by a call that has its new one, and a failure *)
(* before that costs the VM nothing.  (create_config_drive)                *)
DriveLostByFailureOnly ==
    [][Usable # {} /\ Usable' = {} =>
          \E c \in Calls : /\ call[c].disk \in Usable \ Attached
                           /\ call'[c].pc = "idle"
                           /\ call[c].disk \in abandoned']_vars

(* A disk of the service is attached to the VM, or in the hands of a call, *)
(* or a call failed that had it: none is forgotten.                        *)
(* (remove_config_drive, import_disk, _generate_and_insert_certs)          *)
NoDiskForgotten ==
    \A d \in Vdis : vdi[d].kind \in {"drive", "image"} =>
                       d \in Held \cup abandoned \cup (Drives \cap Attached)

(* Calls that do not overlap never give the VM two config drives or two    *)
(* interfaces on the host internal network, even if they fail.             *)
(* (create_config_drive, prepare_vm_for_config_drive)                      *)
NoDuplicates ==
    ~overlapped => Cardinality(Drives \cap Attached) <= 1 /\ vifs <= 1

(* And one that returns has attached its own disk, complete, and no other  *)
(* drive is left.  (create_config_drive)                                   *)
ReturnsAttached ==
    [][\A c \in Calls :
          /\ op = "drive" /\ call[c].pc # "idle" /\ call'[c].pc = "idle"
          /\ ~overlapped /\ call[c].disk \notin abandoned' \cup {NULLREF}
          => (Drives \cap Attached)' = {call[c].disk} /\ vdi'[call[c].disk].full]_vars

(* A VM that boots from its config drive lets the pool in: the key in the  *)
(* drive is the pool's, unless two calls have been making the key at once. *)
(* (get_idrsa_secret, get_template_data)                                   *)
DriveKeyWorks ==
    ~raced => \A d \in Drives : vdi[d].full => vdi[d].pair = pool.public

(* No private key of generated certificates is left on the host, whatever  *)
(* fails while they are made, and none but in the ISO while it is used; a  *)
(* config drive that is imported has nothing else on the host, nor         *)
(* mounted, and after the import nothing at all.                           *)
(* (generate_certs_and_return_iso, create_config_drive_iso)                *)
HostTidied ==
    \A c \in Calls :
        /\ files[c] \cap PrivateKeys = {}
        /\ call[c].pc = "idle" => "targetiso" \notin files[c]
        /\ call[c].pc \in {"create", "upload"} => files[c] \subseteq {"isofile", "targetiso"}
        /\ op = "drive" /\ call[c].pc \in {"look", "plug"} => files[c] = {}

=============================================================================
