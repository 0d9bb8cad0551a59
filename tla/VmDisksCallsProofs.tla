------------------------- MODULE VmDisksCallsProofs -------------------------
(***************************************************************************)
(* Proofs about VmDisks: what a call that ends leaves behind, on the host  *)
(* and in the VM, wherever it ends.                                        *)
(***************************************************************************)
EXTENDS VmDisksProofs, SequenceTheorems, FiniteSetTheorems

(***************************************************************************)
(* Certificates                                                            *)
(***************************************************************************)
CaFiles == {"ca-key.pem", "ca.pem"}
ClientFiles ==
    {"client", "client/key.pem", "client/client.csr", "client/extfile.cnf",
     "ca.srl", "client/cert.pem", "client/ca.pem"}
ServerFiles ==
    {"server", "server/server-key.pem", "server/server.csr",
     "server/extfile.cnf", "server/server-cert.pem", "server/ca.pem"}
PrepareFiles == {"set_for_vm", "configure_tls.cmd", "daemon.json", "targetiso"}
AllFiles == {"tempdir"} \cup CaFiles \cup ClientFiles \cup ServerFiles \cup PrepareFiles

LEMMA FileNames ==
    /\ GenerateCa \in Seq(AllFiles) /\ Range(GenerateCa) = CaFiles
    /\ GenerateClient \in Seq(AllFiles) /\ Range(GenerateClient) = ClientFiles
    /\ GenerateServer \in Seq(AllFiles) /\ Range(GenerateServer) = ServerFiles
    /\ Prepare \in Seq(AllFiles) /\ Range(Prepare) = PrepareFiles
<1> USE DEF AllFiles, CaFiles, ClientFiles, ServerFiles, PrepareFiles
<1>1. GenerateCa \in Seq(AllFiles) /\ Range(GenerateCa) = CaFiles
  BY DEF GenerateCa, Range
<1>2. GenerateClient \in Seq(AllFiles) /\ Range(GenerateClient) = ClientFiles
  BY DEF GenerateClient, Range
<1>3. GenerateServer \in Seq(AllFiles) /\ Range(GenerateServer) = ServerFiles
  BY DEF GenerateServer, Range
<1>4. Prepare \in Seq(AllFiles) /\ Range(Prepare) = PrepareFiles
  BY DEF Prepare, Range
<1>5. QED BY <1>1, <1>2, <1>3, <1>4

LEMMA Joined ==
    ASSUME NEW S, NEW s \in Seq(S), NEW t \in Seq(S), NEW A, NEW B,
           Range(s) = A, Range(t) = B
    PROVE  (s \o t) \in Seq(S) /\ Range(s \o t) = A \cup B
<1>1. Range(s \o t) = Range(s) \cup Range(t)
  BY RangeConcatenation
<1>2. (s \o t) \in Seq(S)
  BY ConcatProperties
<1>3. QED BY <1>1, <1>2

LEMMA StepNames ==
    Steps \in Seq(AllFiles) /\ Range(Steps) = AllFiles
<1> DEFINE first == <<"tempdir">>
           ca == first \o GenerateCa
           client == ca \o GenerateClient
           server == client \o GenerateServer
<1>1. first \in Seq(AllFiles) /\ Range(first) = {"tempdir"}
  BY DEF AllFiles, Range
<1>2. ca \in Seq(AllFiles) /\ Range(ca) = {"tempdir"} \cup CaFiles
  <2> HIDE DEF first
  <2>1. QED BY <1>1, FileNames, Joined
<1>3. client \in Seq(AllFiles) /\ Range(client) = {"tempdir"} \cup CaFiles \cup ClientFiles
  <2> HIDE DEF ca
  <2>1. QED BY <1>2, FileNames, Joined
<1>4. /\ server \in Seq(AllFiles)
      /\ Range(server) = {"tempdir"} \cup CaFiles \cup ClientFiles \cup ServerFiles
  <2> HIDE DEF client
  <2>1. QED BY <1>3, FileNames, Joined
<1>5. (server \o Prepare) \in Seq(AllFiles) /\ Range(server \o Prepare) = AllFiles
  <2> HIDE DEF server
  <2>1. QED BY <1>4, FileNames, Joined DEF AllFiles
<1>6. QED BY <1>5 DEF Steps

LEMMA StepsNumbered ==
    /\ AllWell \in Nat /\ AllWell \notin StepNumber
    /\ \A k \in StepNumber : Steps[k] \in AllFiles /\ k \in Nat /\ k < AllWell
    /\ \A f \in AllFiles : Number(f) \in StepNumber /\ Number(f) < AllWell
<1>1. Len(Steps) \in Nat /\ \A k \in StepNumber : Steps[k] \in AllFiles
  BY StepNames DEF StepNumber
<1>2. AllFiles = {Steps[k] : k \in StepNumber}
  BY StepNames, RangeEquality DEF StepNumber
<1>3. ASSUME NEW f \in AllFiles
      PROVE  Number(f) \in StepNumber
  <2>1. \E k \in StepNumber : Steps[k] = f
    BY <1>2
  <2>2. QED BY <2>1 DEF Number
<1>4. QED BY <1>1, <1>3 DEF StepNumber, AllWell

(* The private keys and the ISO are among what each clause removes.        *)
LEMMA WipedFiles ==
    ASSUME NEW S
    PROVE  /\ _wipe_certificates(S) \subseteq S
           /\ _wipe_certificates(S) \cap CERTIFICATE_FILES = {}
           /\ RemoveTempdir(S) \subseteq S
<1>1. _wipe_certificates(S) \subseteq
        S \ (CERTIFICATE_FILES \cup {"configure_tls.cmd", "daemon.json"})
  BY DEF _wipe_certificates
<1>2. QED BY <1>1 DEF RemoveTempdir

(* Wherever it fails, neither a private key nor the ISO is left.           *)
LEMMA FailedRemains ==
    ASSUME NEW n \in StepNumber, NEW partly \in BOOLEAN
    PROVE  /\ Remains(n, partly) \cap PrivateKeys = {}
           /\ "targetiso" \notin Remains(n, partly)
<1> DEFINE tried == {Steps[k] : k \in {m \in StepNumber : m < n \/ (m = n /\ partly)}}
           kept == (tried \ UNION {NoFile, ClientTidied(n), ServerTidied(n), _wipe_ca})
                   \ {"targetiso"}
<1>1. Remains(n, partly) = RemoveTempdir(_wipe_certificates(kept))
  BY Zenon DEF Remains
<1>2. "targetiso" \notin kept /\ "ca-key.pem" \notin kept
  BY DEF _wipe_ca
<1> HIDE DEF kept
<1>3. /\ Remains(n, partly) \subseteq kept
      /\ Remains(n, partly) \cap CERTIFICATE_FILES = {}
  BY <1>1, WipedFiles
<1>4. QED BY <1>2, <1>3 DEF PrivateKeys, CERTIFICATE_FILES

(* When all goes well nothing but the ISO is.                              *)
LEMMA GeneratedRemains == Remains(AllWell, FALSE) = {"targetiso"}
<1> DEFINE tried == {Steps[k] : k \in {m \in StepNumber : m < AllWell \/ (m = AllWell /\ FALSE)}}
           written == tried \ UNION {NoFile, ClientTidied(AllWell), ServerTidied(AllWell), _wipe_ca}
<1>1. tried = AllFiles
  <2>1. tried = {Steps[k] : k \in StepNumber}
    BY StepsNumbered
  <2>2. QED BY <2>1, StepNames, RangeEquality DEF StepNumber
<1>2. /\ ClientTidied(AllWell) = {"client/client.csr", "client/extfile.cnf"}
      /\ ServerTidied(AllWell) = {"server/server.csr", "server/extfile.cnf", "ca.srl"}
  <2>1. /\ Reached("client/client.csr", AllWell)
        /\ Reached("server/extfile.cnf", AllWell)
    BY StepsNumbered DEF Reached, AllFiles, ClientFiles, ServerFiles, StepNumber
  <2>2. QED BY <2>1 DEF ClientTidied, ServerTidied
<1>3. Remains(AllWell, FALSE) = RemoveTempdir(_wipe_certificates(written))
  BY StepsNumbered, Zenon DEF Remains
<1> HIDE DEF tried
<1>4. written = {"tempdir", "configure_tls.cmd", "daemon.json", "targetiso",
                 "client", "client/key.pem", "client/cert.pem", "client/ca.pem",
                 "server", "server/server-key.pem", "server/server-cert.pem",
                 "server/ca.pem"}
  BY <1>1, <1>2 DEF AllFiles, CaFiles, ClientFiles, ServerFiles, PrepareFiles,
     NoFile, _wipe_ca
<1> HIDE DEF written
<1> DEFINE wiped == written \ (CERTIFICATE_FILES \cup {"configure_tls.cmd", "daemon.json"})
<1>5. wiped = {"tempdir", "targetiso", "client", "server"}
  BY <1>4 DEF CERTIFICATE_FILES
<1> HIDE DEF wiped
<1>6. /\ Inside("client", wiped) = {} /\ Inside("server", wiped \ {"client"}) = {}
  BY <1>5, FileNames DEF Inside, ClientFiles, ServerFiles
<1>7. _wipe_certificates(written) = {"tempdir", "targetiso"}
  <2>1. _wipe_certificates(written) = (wiped \ {"client"}) \ {"server"}
    BY <1>6 DEF _wipe_certificates, wiped
  <2>2. QED BY <1>5, <2>1
<1>8. QED BY <1>3, <1>7 DEF RemoveTempdir

-----------------------------------------------------------------------------
(***************************************************************************)
(* Files of calls                                                          *)
(***************************************************************************)
(* What a call has on the host, by its place. *)
TidyAt(pc, F) ==
    /\ op = "drive" =>
         /\ F \subseteq IsoFiles \cup {"toolsdir", "mounted"}
         /\ pc = "key" => F \subseteq IsoFiles
         /\ pc \in {"create", "upload"} => F \subseteq {"isofile"}
         /\ pc \in {"look", "plug"} \cup Removing => F = {}
    /\ op = "image" =>
         /\ F \cap PrivateKeys = {}
         /\ pc \in {"create", "upload"} => F \subseteq {"targetiso"}
         /\ pc \in {"idle", "destroy"} => "targetiso" \notin F

HostInv ==
    /\ files = [c \in Calls |-> files[c]]
    /\ \A c \in Calls : TidyAt(call[c].pc, files[c])

LEMMA CallLeaves ==
    ASSUME DiskInv, HostInv, NEW c \in Calls, NEW t, Goes(c, t), op' = op,
           NEW F, Leaves(c, F) \/ (files' = files /\ F = files[c]),
           TidyAt(t.pc, F)
    PROVE  HostInv'
<1>1. call'[c] = t /\ \A e \in Calls \ {c} : call'[e] = call[e]
  BY DEF Goes, DiskInv, DiskTypes
<1>2. /\ files' = [e \in Calls |-> files'[e]] /\ files'[c] = F
      /\ \A e \in Calls \ {c} : files'[e] = files[e]
  BY DEF HostInv, Leaves
<1>3. ASSUME NEW e \in Calls
      PROVE  TidyAt(call[e].pc, files[e])'
  BY <1>1, <1>2 DEF HostInv, TidyAt
<1>4. QED BY <1>2, <1>3 DEF HostInv

LEMMA CallLeavesTo ==
    ASSUME DiskInv, HostInv, NEW c \in Calls, NEW pc \in PCs, To(c, pc), op' = op,
           NEW F, Leaves(c, F) \/ (files' = files /\ F = files[c]),
           TidyAt(pc, F)
    PROVE  HostInv'
<1>1. Goes(c, At(c, pc)) /\ At(c, pc).pc = pc
  BY CallRecord DEF To
<1>2. QED BY <1>1, CallLeaves

LEMMA CallEndsTidy ==
    ASSUME DiskInv, HostInv, NEW c \in Calls, Goes(c, Idle), op' = op,
           NEW F, Leaves(c, F) \/ (files' = files /\ F = files[c]),
           TidyAt("idle", F)
    PROVE  HostInv'
BY CallLeaves, FreeRecords

LEMMA DriveTidy ==
    ASSUME DiskInv, HostInv, NEW c \in Calls, DriveBegin(c) \/ DriveStep(c)
    PROVE  HostInv'
<1>1. TidyAt(call[c].pc, files[c]) /\ Place(c)
  BY DEF HostInv, DiskInv
<1>2. CASE DriveBegin(c)
  <2> DEFINE t == [Idle EXCEPT !.pc = "net", !.vbds = Used, !.wasRunning = running]
  <2>1. Goes(c, t) /\ Leaves(c, {}) /\ op' = op /\ t.pc = "net"
    BY <1>2, FreeRecords DEF DriveBegin, world, CallType
  <2> HIDE DEF t
  <2>2. TidyAt("net", {})
    BY DEF TidyAt
  <2>3. QED BY <2>1, <2>2, CallLeaves
<1>3. CASE CheckNetwork(c) \/ CreateVif(c)
  <2>1. op = "drive" /\ op' = op
    BY <1>1, <1>3 DEF CheckNetwork, CreateVif, Place, DrivePCs, world
  <2>2. \/ To(c, "vif") /\ files' = files
        \/ To(c, "key") /\ Leaves(c, IsoFiles)
    BY <1>3 DEF CheckNetwork, CreateVif
  <2>3. TidyAt("vif", files[c]) /\ TidyAt("key", IsoFiles)
    BY <1>1, <2>1 DEF TidyAt, Removing
  <2>4. QED BY <2>1, <2>2, <2>3, CallLeavesTo DEF PCs
<1>4. CASE LookUpKey(c) \/ GetKey(c)
  BY <1>4 DEF LookUpKey, GetKey, diskVars, HostInv, TidyAt
<1>5. CASE BuildIso(c)
  <2> DEFINE t == [At(c, "create") EXCEPT !.pair = key[c].pair]
             F == Tidied(files[c] \cup {"toolsdir", "mounted"})
  <2>1. Goes(c, t) /\ Leaves(c, F) /\ op' = op /\ call[c].pc = "key" /\ op = "drive"
    BY <1>1, <1>5 DEF BuildIso, world, Place, DrivePCs
  <2>2. t.pc = "create"
    BY CallRecord DEF CallType, PCs
  <2>3. F \subseteq {"isofile"}
    BY <1>1, <2>1 DEF TidyAt, Tidied, IsoFiles
  <2> HIDE DEF t, F
  <2>4. TidyAt("create", F)
    BY <2>1, <2>3 DEF TidyAt, IsoFiles, Removing
  <2>5. QED BY <2>1, <2>2, <2>4, CallLeaves
<1>6. CASE \/ LookAtDevice(c) \/ Unplug(c) \/ DestroyDevice(c) \/ DestroyOld(c)
           \/ RemoveFails(c) \/ Attach(c) \/ DeviceExists(c) \/ Plug(c) \/ PlugFails(c)
  <2>1. /\ call[c].pc \in {"look", "plug"} \cup Removing /\ files' = files
        /\ op' = op /\ op = "drive"
    BY <1>1, <1>6 DEF LookAtDevice, Unplug, DestroyDevice, DestroyOld, RemoveFails,
       Attach, Attaching, DeviceExists, Plug, PlugFails, Place, DrivePCs, Removing, world
  <2>2. files[c] = {}
    BY <1>1, <2>1 DEF TidyAt
  <2>3. PICK t : Goes(c, t)
    BY <1>6, Zenon DEF LookAtDevice, Unplug, DestroyDevice, DestroyOld, RemoveFails,
       Attach, DeviceExists, Plug, PlugFails, To, GivesUp
  <2>4. TidyAt(t.pc, {})
    BY <2>1 DEF TidyAt
  <2>5. QED BY <2>1, <2>2, <2>3, <2>4, CallLeaves
<1>7. QED BY <1>2, <1>3, <1>4, <1>5, <1>6 DEF DriveStep

LEMMA ImageTidy ==
    ASSUME DiskInv, HostInv, NEW c \in Calls,
           ImageBegin(c) \/ ImageStep(c) \/ ImportStep(c) \/ User(c)
    PROVE  HostInv'
<1>1. TidyAt(call[c].pc, files[c]) /\ Place(c) /\ op' = op /\ op \in {"drive", "image"}
  BY DEF HostInv, DiskInv, DiskTypes, ImageBegin, ImageStep, ImportStep, User, Generate, Insert,
     InsertFails, Eject, FinalEject, DestroyImage, DestroyImageFails, CreateDisk, Upload,
     Answer, ScriptRun, world
<1>2. CASE ImageBegin(c)
  <2> DEFINE t == [Idle EXCEPT !.pc = "certs"]
  <2>1. Goes(c, t) /\ Leaves(c, {}) /\ t.pc = "certs"
    BY <1>2, FreeRecords DEF ImageBegin, CallType
  <2> HIDE DEF t
  <2>2. TidyAt("certs", {})
    BY DEF TidyAt
  <2>3. QED BY <1>1, <2>1, <2>2, CallLeaves
<1>3. CASE Generate(c)
  <2>1. op = "image" /\ To(c, "create") /\ Leaves(c, {"targetiso"})
    BY <1>1, <1>3, GeneratedRemains DEF Generate, Place, ImagePCs
  <2>2. TidyAt("create", {"targetiso"})
    BY <2>1 DEF TidyAt, PrivateKeys
  <2>3. QED BY <1>1, <2>1, <2>2, CallLeavesTo DEF PCs
<1>4. CASE Insert(c) \/ InsertFails(c) \/ Eject(c) \/ Answer(c) \/ ScriptRun(c)
  <2>1. PICK pc \in {"wait", "ask", "final", "eject", "again"} : To(c, pc)
    BY <1>4 DEF Insert, InsertFails, Eject, Answer, ScriptRun
  <2>2. op = "image" /\ files' = files
    BY <1>1, <1>4 DEF Insert, InsertFails, Eject, Answer, ScriptRun, Place, ImagePCs
  <2>3. TidyAt(pc, files[c])
    BY <1>1, <2>2 DEF TidyAt
  <2>4. QED BY <1>1, <2>1, <2>2, <2>3, CallLeavesTo DEF PCs
<1>5. CASE FinalEject(c)
  <2>1. op = "image" /\ Leaves(c, files[c] \ {"targetiso"})
    BY <1>1, <1>5 DEF FinalEject, Place, ImagePCs
  <2>2. Goes(c, Idle) \/ To(c, "destroy")
    BY <1>5 DEF FinalEject, To
  <2>3. TidyAt("idle", files[c] \ {"targetiso"}) /\ TidyAt("destroy", files[c] \ {"targetiso"})
    BY <1>1, <2>1 DEF TidyAt
  <2>4. QED BY <1>1, <2>1, <2>2, <2>3, CallLeavesTo, CallEndsTidy DEF PCs
<1>6. CASE DestroyImage(c) \/ DestroyImageFails(c)
  <2>1. op = "image" /\ files' = files /\ Goes(c, Idle) /\ call[c].pc = "destroy"
    BY <1>1, <1>6 DEF DestroyImage, DestroyImageFails, GivesUp, Place, ImagePCs
  <2>2. TidyAt("idle", files[c])
    BY <1>1, <2>1 DEF TidyAt
  <2>3. QED BY <1>1, <2>1, <2>2, CallEndsTidy
<1>7. CASE CreateDisk(c)
  <2>1. PICK d \in FreeVdis :
          Goes(c, [At(c, "upload") EXCEPT !.disk = d, !.pair = Absent])
    BY <1>7 DEF CreateDisk
  <2> DEFINE t == [At(c, "upload") EXCEPT !.disk = d, !.pair = Absent]
  <2>2. t.pc = "upload" /\ files' = files /\ call[c].pc = "create"
    BY <1>7, CallRecord DEF CreateDisk, CallType, PCs
  <2>3. Goes(c, t)
    BY <2>1
  <2> HIDE DEF t
  <2>4. TidyAt("upload", files[c])
    BY <1>1, <2>2 DEF TidyAt, Removing
  <2>5. QED BY <1>1, <2>2, <2>3, <2>4, CallLeaves
<1>8. CASE Upload(c)
  <2>1. CASE op = "drive"
    <3>1. To(c, "look") /\ Leaves(c, files[c] \ {"isofile"}) /\ call[c].pc = "upload"
      BY <1>8, <2>1 DEF Upload
    <3>2. TidyAt("look", files[c] \ {"isofile"})
      BY <1>1, <2>1, <3>1 DEF TidyAt, Removing
    <3>3. QED BY <1>1, <3>1, <3>2, CallLeavesTo DEF PCs
  <2>2. CASE op = "image"
    <3>1. To(c, "insert") /\ files' = files
      BY <1>8, <2>2 DEF Upload
    <3>2. TidyAt("insert", files[c])
      BY <1>1, <2>2 DEF TidyAt
    <3>3. QED BY <1>1, <3>1, <3>2, CallLeavesTo DEF PCs
  <2>3. QED BY <1>1, <2>1, <2>2
<1>9. QED
  BY <1>2, <1>3, <1>4, <1>5, <1>6, <1>7, <1>8 DEF ImageStep, ImportStep, User

LEMMA FailingTidy ==
    ASSUME DiskInv, HostInv, NEW c \in Calls, Failing(c)
    PROVE  HostInv'
<1>1. TidyAt(call[c].pc, files[c]) /\ Place(c) /\ op' = op
  BY DEF HostInv, DiskInv, Failing, BuildIsoFails, GenerateFails, DriveFails, ImageFails,
     world
<1>2. CASE BuildIsoFails(c)
  <2>1. op = "drive" /\ call[c].pc = "key" /\ Goes(c, Idle)
    BY <1>1, <1>2 DEF BuildIsoFails, GivesUp, Place, DrivePCs
  <2>2. PICK F : /\ Leaves(c, F) /\ F \subseteq files[c] \cup {"toolsdir", "mounted"}
    BY <1>2 DEF BuildIsoFails, Tidied
  <2>3. TidyAt("idle", F)
    BY <1>1, <2>1, <2>2 DEF TidyAt, Removing
  <2>4. QED BY <1>1, <2>1, <2>2, <2>3, CallEndsTidy
<1>3. CASE GenerateFails(c)
  <2>1. op = "image" /\ Goes(c, Idle)
    BY <1>1, <1>3 DEF GenerateFails, GivesUp, Place, ImagePCs
  <2>2. PICK n \in StepNumber, partly \in BOOLEAN : Leaves(c, Remains(n, partly))
    BY <1>3 DEF GenerateFails
  <2>3. TidyAt("idle", Remains(n, partly))
    BY <2>1, FailedRemains DEF TidyAt
  <2>4. QED BY <1>1, <2>1, <2>2, <2>3, CallEndsTidy
<1>4. CASE DriveFails(c)
  <2>1. op = "drive" /\ Goes(c, Idle)
    BY <1>4 DEF DriveFails, GivesUp
  <2>2. PICK F : Leaves(c, F) /\ F \subseteq files[c]
    BY <1>4 DEF DriveFails, Tidied
  <2>3. TidyAt("idle", F)
    BY <1>1, <2>1, <2>2 DEF TidyAt, Removing
  <2>4. QED BY <1>1, <2>1, <2>2, <2>3, CallEndsTidy
<1>5. CASE ImageFails(c)
  <2>1. op = "image"
    BY <1>5 DEF ImageFails
  <2>2. CASE /\ call[c].pc \in {"create", "upload"} /\ files' = files
             /\ Goes(c, [At(c, "final") EXCEPT !.disk = NULLREF])
    <3> DEFINE t == [At(c, "final") EXCEPT !.disk = NULLREF]
    <3>1. t.pc = "final"
      BY CallRecord DEF CallType, PCs
    <3>2. Goes(c, t)
      BY <2>2
    <3> HIDE DEF t
    <3>3. TidyAt("final", files[c])
      BY <1>1, <2>1 DEF TidyAt
    <3>4. QED BY <1>1, <2>2, <3>1, <3>2, <3>3, CallLeaves
  <2>3. CASE /\ call[c].pc \in {"insert", "eject", "again"} /\ files' = files
             /\ To(c, IF call[c].pc = "insert" THEN "wait" ELSE "final")
    <3>1. PICK pc \in {"wait", "final"} : To(c, pc)
      BY <2>3
    <3>2. TidyAt(pc, files[c])
      BY <1>1, <2>1 DEF TidyAt
    <3>3. QED BY <1>1, <2>3, <3>1, <3>2, CallLeavesTo DEF PCs
  <2>4. CASE /\ Leaves(c, files[c] \ {"targetiso"})
             /\ Goes(c, IF call[c].disk = NULLREF THEN Idle ELSE At(c, "destroy"))
    <3>1. Goes(c, Idle) \/ To(c, "destroy")
      BY <2>4 DEF To
    <3>2. TidyAt("idle", files[c] \ {"targetiso"}) /\ TidyAt("destroy", files[c] \ {"targetiso"})
      BY <1>1, <2>1 DEF TidyAt
    <3>3. QED BY <1>1, <2>4, <3>1, <3>2, CallLeavesTo, CallEndsTidy DEF PCs
  <2>5. CASE call[c].pc = "destroy" /\ GivesUp(c, {call[c].disk}) /\ files' = files
    <3>1. Goes(c, Idle) /\ TidyAt("idle", files[c])
      BY <1>1, <2>1, <2>5 DEF GivesUp, TidyAt
    <3>2. QED BY <1>1, <2>5, <3>1, CallEndsTidy
  <2>6. QED BY <1>5, <2>2, <2>3, <2>4, <2>5 DEF ImageFails
<1>6. QED BY <1>2, <1>3, <1>4, <1>5 DEF Failing

(* No private key of generated certificates stays on the host, wherever    *)
(* making them fails, and no mounted tools but those that umount refused;  *)
(* an import finds nothing but its ISO.  For any number of calls and       *)
(* failures.                                                               *)
THEOREM HostLeftTidy == Spec => []HostTidied
<1>1. Init => HostInv
  BY FreeRecords DEF Init, HostInv, TidyAt
<1>2. DiskInv /\ HostInv /\ [Next]_vars => HostInv'
  <2>1. ASSUME DiskInv, HostInv, Power \/ ChangeCd \/ UNCHANGED vars
        PROVE  HostInv'
    BY <2>1 DEF Power, ChangeCd, vars, diskVars, world, HostInv, TidyAt
  <2>2. QED BY <2>1, DriveTidy, ImageTidy, FailingTidy DEF Next
<1>3. DiskInv /\ HostInv => HostTidied
  <2>1. SUFFICES ASSUME DiskInv, HostInv, NEW c \in Calls
                 PROVE  /\ files[c] \cap PrivateKeys = {}
                        /\ call[c].pc = "idle" => "targetiso" \notin files[c]
                        /\ call[c].pc \in {"create", "upload"} =>
                             files[c] \subseteq {"isofile", "targetiso"}
                        /\ op = "drive" /\ call[c].pc \in {"look", "plug"} => files[c] = {}
    BY DEF HostTidied
  <2>2. TidyAt(call[c].pc, files[c])
    BY <2>1 DEF HostInv
  <2>3. op \in {"drive", "image"}
    BY <2>1 DEF DiskInv, DiskTypes
  <2>4. QED BY <2>2, <2>3 DEF TidyAt, IsoFiles, PrivateKeys, Removing
<1>4. QED BY <1>1, <1>2, <1>3, DisksCorrect, PTL DEF Spec

-----------------------------------------------------------------------------
(***************************************************************************)
(* Calls that do not overlap                                               *)
(***************************************************************************)
DriveDevices == {b \in Used : vdi[vbd[b].vdi].kind = "drive"}

OneDrive == \A b, e \in DriveDevices : b = e
Marked == \A d \in Drives : vdi[d].marked

(* A call that replaces the drive has not lost sight of a device with one. *)
Replacing == {"net", "vif", "key", "create", "upload", "look", "old"}
Sees(c) ==
    /\ call[c].pc = "vif" => vifs = 0
    /\ call[c].pc \in Replacing => DriveDevices \subseteq call[c].vbds
    /\ call[c].pc \in {"unplug", "device"} =>
         DriveDevices \subseteq call[c].vbds \cup {call[c].vbd}
    /\ call[c].pc = "plug" => DriveDevices = {call[c].vbd}

AloneInv ==
    /\ vifs \in Nat
    /\ ~overlapped =>
         /\ \A c, e \in Active : c = e
         /\ vifs <= 1 /\ OneDrive
         /\ \A c \in Calls : Sees(c)

LEMMA AloneKept ==
    ASSUME DiskInv, AloneInv, NEW c \in Calls, NEW t, Goes(c, t),
           call[c].pc # "idle", overlapped' = overlapped,
           vifs' \in Nat, ~overlapped => vifs' <= 1 /\ OneDrive' /\ Sees(c)'
    PROVE  AloneInv'
<1>1. /\ call'[c] = t /\ \A e \in Calls \ {c} : call'[e] = call[e]
  BY DEF Goes, DiskInv, DiskTypes
<1>2. SUFFICES ASSUME ~overlapped
               PROVE  /\ \A d, e \in Active' : d = e
                      /\ \A e \in Calls : Sees(e)'
  BY DEF AloneInv
<1>3. \A e \in Calls \ {c} : call[e].pc = "idle"
  BY <1>2 DEF AloneInv, Active
<1>4. Active' \subseteq {c}
  BY <1>1, <1>3 DEF Active
<1>5. \A e \in Calls \ {c} : Sees(e)'
  BY <1>1, <1>3 DEF Sees, Replacing
<1>6. QED BY <1>2, <1>4, <1>5

(* Devices and the kinds of disks as they were. *)
LEMMA AloneGoesOn ==
    ASSUME DiskInv, AloneInv, NEW c \in Calls, NEW t, Goes(c, t),
           call[c].pc # "idle", overlapped' = overlapped, vifs' = vifs,
           UNCHANGED <<vdi, vbd>>,
           ~overlapped /\ Sees(c) =>
             /\ t.pc = "vif" => vifs = 0
             /\ t.pc \in Replacing => DriveDevices \subseteq t.vbds
             /\ t.pc \in {"unplug", "device"} => DriveDevices \subseteq t.vbds \cup {t.vbd}
             /\ t.pc # "plug"
    PROVE  AloneInv'
<1>1. call'[c] = t
  BY DEF Goes, DiskInv, DiskTypes
<1>2. DriveDevices' = DriveDevices /\ (OneDrive => OneDrive')
  BY DEF DriveDevices, OneDrive, Used
<1>3. vifs' \in Nat /\ (~overlapped => vifs' <= 1 /\ OneDrive' /\ Sees(c))
  BY <1>2 DEF AloneInv
<1>4. ASSUME ~overlapped
      PROVE  Sees(c)'
  BY <1>1, <1>2, <1>3, <1>4 DEF Sees
<1>5. QED BY <1>3, <1>4, AloneKept

LEMMA AloneEnds ==
    ASSUME DiskInv, AloneInv, NEW c \in Calls, Goes(c, Idle),
           call[c].pc # "idle", overlapped' = overlapped, vifs' = vifs,
           UNCHANGED <<vdi, vbd>>
    PROVE  AloneInv'
BY AloneGoesOn, FreeRecords DEF Replacing

(* Calls that put certificates into a VM have no drives. *)
LEMMA NoDriveDevices ==
    ASSUME DiskInv, op = "image"
    PROVE  DriveDevices = {}
BY DEF DiskInv, DiskTypes, VbdType, Disks, DriveDevices, Used

LEMMA BeginAlone ==
    ASSUME DiskInv, AloneInv, NEW c \in Calls, DriveBegin(c) \/ ImageBegin(c)
    PROVE  AloneInv'
<1> DEFINE t == IF op = "drive"
                  THEN [Idle EXCEPT !.pc = "net", !.vbds = Used, !.wasRunning = running]
                  ELSE [Idle EXCEPT !.pc = "certs"]
<1>1. /\ Goes(c, t) /\ UNCHANGED <<vdi, vbd, vifs>>
      /\ overlapped' = (overlapped \/ Active # {})
  BY DEF DriveBegin, ImageBegin, Begins, devices, world
<1>2. t.pc = "certs" \/ (t.pc = "net" /\ t.vbds = Used)
  BY FreeRecords DEF CallType
<1> HIDE DEF t
<1>3. /\ call'[c] = t /\ \A e \in Calls \ {c} : call'[e] = call[e]
  BY <1>1 DEF Goes, DiskInv, DiskTypes
<1>4. DriveDevices' = DriveDevices /\ DriveDevices \subseteq Used /\ OneDrive' = OneDrive
  BY <1>1 DEF DriveDevices, OneDrive, Used
<1>5. SUFFICES ASSUME ~overlapped'
               PROVE  /\ \A d, e \in Active' : d = e
                      /\ vifs' <= 1 /\ OneDrive'
                      /\ \A e \in Calls : Sees(e)'
  BY <1>1 DEF AloneInv
<1>6. ~overlapped /\ \A e \in Calls : call[e].pc = "idle"
  BY <1>1, <1>5 DEF Active
<1>7. Active' \subseteq {c}
  BY <1>3, <1>6 DEF Active
<1>8. ASSUME NEW e \in Calls
      PROVE  Sees(e)'
  BY <1>2, <1>3, <1>4, <1>6 DEF Sees, Replacing
<1>9. QED BY <1>1, <1>4, <1>6, <1>7, <1>8 DEF AloneInv

LEMMA PreparingAlone ==
    ASSUME DiskInv, AloneInv, NEW c \in Calls,
           CheckNetwork(c) \/ CreateVif(c) \/ LookUpKey(c) \/ GetKey(c) \/ BuildIso(c)
    PROVE  AloneInv'
<1>1. CASE CheckNetwork(c)
  <2>1. PICK pc \in {"vif", "key"} : To(c, pc) /\ (pc = "vif" => vifs = 0)
    BY <1>1 DEF CheckNetwork
  <2> DEFINE t == At(c, pc)
  <2>2. t.pc = pc /\ t.vbds = call[c].vbds
    BY CallRecord DEF At, CallType, PCs
  <2>3. /\ Goes(c, t) /\ call[c].pc = "net" /\ UNCHANGED <<vdi, vbd, vifs, overlapped>>
    BY <1>1, <2>1 DEF CheckNetwork, To, devices, world, history
  <2> HIDE DEF t
  <2>4. QED BY <2>1, <2>2, <2>3, AloneGoesOn DEF Sees, Replacing
<1>2. CASE CreateVif(c)
  <2> DEFINE t == At(c, "key")
  <2>1. t.pc = "key" /\ t.vbds = call[c].vbds
    BY CallRecord DEF At, CallType, PCs
  <2>2. /\ Goes(c, t) /\ call[c].pc = "vif" /\ UNCHANGED <<vdi, vbd, overlapped>>
        /\ vifs' = vifs + 1
    BY <1>2 DEF CreateVif, To, devices, history
  <2> HIDE DEF t
  <2>3. call'[c] = t
    BY <2>2 DEF Goes, DiskInv, DiskTypes
  <2>4. DriveDevices' = DriveDevices /\ OneDrive' = OneDrive
    BY <2>2 DEF DriveDevices, OneDrive, Used
  <2>5. ~overlapped => vifs = 0 /\ OneDrive /\ DriveDevices \subseteq t.vbds
    BY <2>1, <2>2 DEF AloneInv, Sees, Replacing
  <2>6. QED BY <2>1, <2>2, <2>3, <2>4, <2>5, AloneKept DEF Sees, Replacing, AloneInv
<1>3. CASE LookUpKey(c) \/ GetKey(c)
  BY <1>3 DEF LookUpKey, GetKey, diskVars, AloneInv, Active, OneDrive, DriveDevices, Used,
     Sees, Replacing
<1>4. CASE BuildIso(c)
  <2> DEFINE t == [At(c, "create") EXCEPT !.pair = key[c].pair]
  <2>1. t.pc = "create" /\ t.vbds = call[c].vbds
    BY CallRecord DEF At, CallType, PCs
  <2>2. /\ Goes(c, t) /\ call[c].pc = "key" /\ UNCHANGED <<vdi, vbd, vifs, overlapped>>
    BY <1>4 DEF BuildIso, devices, world, history
  <2> HIDE DEF t
  <2>3. QED BY <2>1, <2>2, AloneGoesOn DEF Sees, Replacing
<1>5. QED BY <1>1, <1>2, <1>3, <1>4

LEMMA ImportAlone ==
    ASSUME DiskInv, AloneInv, NEW c \in Calls, ImportStep(c)
    PROVE  AloneInv'
<1>1. CASE CreateDisk(c)
  <2>1. PICK d \in FreeVdis :
          /\ vdi' = [vdi EXCEPT ![d] = [kind |-> op, marked |-> (op = "drive"),
                                        full |-> FALSE, pair |-> call[c].pair]]
          /\ Goes(c, [At(c, "upload") EXCEPT !.disk = d, !.pair = Absent])
    BY <1>1 DEF CreateDisk
  <2> DEFINE t == [At(c, "upload") EXCEPT !.disk = d, !.pair = Absent]
  <2>2. t.pc = "upload" /\ t.vbds = call[c].vbds /\ Goes(c, t)
    <3>1. call[c] \in CallType
      BY CallRecord
    <3>2. QED BY <2>1, <3>1 DEF At, CallType, PCs
  <2>3. call[c].pc = "create" /\ UNCHANGED <<vbd, vifs, overlapped>>
    BY <1>1 DEF CreateDisk, world, history
  <2> HIDE DEF t
  <2>4. \A b \in Used : vdi'[vbd[b].vdi] = vdi[vbd[b].vdi]
    BY <2>1 DEF FreeVdis, DiskInv, Devices, DiskTypes
  <2>5. DriveDevices' = DriveDevices /\ (OneDrive => OneDrive')
    BY <2>3, <2>4 DEF DriveDevices, OneDrive, Used
  <2>6. call'[c] = t
    BY <2>2 DEF Goes, DiskInv, DiskTypes
  <2>7. ~overlapped => vifs <= 1 /\ OneDrive /\ DriveDevices \subseteq call[c].vbds
    BY <2>3 DEF AloneInv, Sees, Replacing
  <2>8. QED BY <2>2, <2>3, <2>5, <2>6, <2>7, AloneKept DEF Sees, AloneInv
<1>2. CASE Upload(c)
  <2>1. PICK pc \in {"look", "insert"} : To(c, pc)
    BY <1>2 DEF Upload
  <2> DEFINE t == At(c, pc)
  <2>2. t.pc = pc /\ t.vbds = call[c].vbds /\ Goes(c, t)
    <3>1. call[c] \in CallType
      BY CallRecord
    <3>2. QED BY <2>1, <3>1 DEF At, To, CallType, PCs
  <2>3. /\ call[c].pc = "upload" /\ UNCHANGED <<vbd, vifs, overlapped>>
        /\ vdi' = [vdi EXCEPT ![call[c].disk].full = TRUE]
    BY <1>2 DEF Upload, world, history
  <2> HIDE DEF t
  <2>4. \A d \in Vdis : vdi'[d].kind = vdi[d].kind /\ vdi'[d].marked = vdi[d].marked
    BY <2>3 DEF DiskInv, DiskTypes, VdiType
  <2>5. \A b \in Used : vbd[b].vdi \in Vdis
    BY DEF Used, DiskInv, DiskTypes, VbdType
  <2>6. DriveDevices' = DriveDevices /\ (OneDrive => OneDrive')
    BY <2>3, <2>4, <2>5 DEF DriveDevices, OneDrive, Used
  <2>7. call'[c] = t
    BY <2>2 DEF Goes, DiskInv, DiskTypes
  <2>8. ~overlapped => vifs <= 1 /\ OneDrive /\ DriveDevices \subseteq call[c].vbds
    BY <2>3 DEF AloneInv, Sees, Replacing
  <2>9. QED BY <2>2, <2>3, <2>6, <2>7, <2>8, AloneKept DEF Sees, AloneInv
<1>3. QED BY <1>1, <1>2 DEF ImportStep

LEMMA LookingAlone ==
    ASSUME DiskInv, AloneInv, NEW c \in Calls,
           LookAtDevice(c) \/ RemoveFails(c) \/ DeviceExists(c) \/ PlugFails(c)
    PROVE  AloneInv'
<1>1. CASE LookAtDevice(c)
  <2>1. PICK b \in Used, pc \in {"unplug", "device"} :
          Goes(c, [At(c, pc) EXCEPT !.vbds = @ \ {b}, !.vbd = b, !.old = vbd[b].vdi])
    BY <1>1 DEF LookAtDevice
  <2> DEFINE t == [At(c, pc) EXCEPT !.vbds = @ \ {b}, !.vbd = b, !.old = vbd[b].vdi]
  <2>2. t.pc = pc /\ t.vbds = call[c].vbds \ {b} /\ t.vbd = b /\ Goes(c, t)
    <3>1. call[c] \in CallType
      BY CallRecord
    <3>2. QED BY <2>1, <3>1 DEF At, CallType, PCs
  <2>3. call[c].pc = "look" /\ UNCHANGED <<vdi, vbd, vifs, overlapped>>
    BY <1>1 DEF LookAtDevice, devices, world, history
  <2> HIDE DEF t
  <2>4. QED BY <2>2, <2>3, AloneGoesOn DEF Sees, Replacing
<1>2. CASE RemoveFails(c) \/ PlugFails(c)
  BY <1>2, AloneEnds DEF RemoveFails, PlugFails, GivesUp, devices, world
<1>3. CASE DeviceExists(c)
  <2>1. /\ call[c].pc = "look" /\ UNCHANGED <<vdi, vbd, vifs, overlapped>>
    BY <1>3 DEF DeviceExists, Attaching, devices, world
  <2>2. CASE GivesUp(c, {call[c].disk})
    BY <2>1, <2>2, AloneEnds DEF GivesUp
  <2>3. CASE Goes(c, [call[c] EXCEPT !.device = @ + 1])
    <3> DEFINE t == [call[c] EXCEPT !.device = @ + 1]
    <3>1. t.pc = "look" /\ t.vbds = call[c].vbds /\ Goes(c, t)
      BY <2>1, <2>3, CallRecord DEF CallType
    <3> HIDE DEF t
    <3>2. QED BY <2>1, <3>1, AloneGoesOn DEF Sees, Replacing
  <2>4. QED BY <1>3, <2>2, <2>3 DEF DeviceExists
<1>4. QED BY <1>1, <1>2, <1>3

LEMMA RemovingAlone ==
    ASSUME DiskInv, AloneInv, NEW c \in Calls,
           Unplug(c) \/ DestroyDevice(c) \/ DestroyOld(c) \/ Plug(c)
    PROVE  AloneInv'
<1>1. \A b \in Used : vbd[b].vdi \in Vdis
  BY DEF Used, DiskInv, DiskTypes, VbdType
<1>2. UNCHANGED <<vifs, overlapped>>
  BY DEF Unplug, DestroyDevice, DestroyOld, Plug, world, history
<1>3. CASE Unplug(c)
  <2> DEFINE t == At(c, "device")
  <2>1. t.pc = "device" /\ t.vbds = call[c].vbds /\ t.vbd = call[c].vbd /\ Goes(c, t)
    <3>1. call[c] \in CallType
      BY CallRecord
    <3>2. QED BY <1>3, <3>1 DEF Unplug, At, To, CallType, PCs
  <2>2. /\ call[c].pc = "unplug" /\ vdi' = vdi
        /\ vbd' = [vbd EXCEPT ![call[c].vbd].plugged = FALSE]
    BY <1>3 DEF Unplug
  <2> HIDE DEF t
  <2>3. \A b \in Vbds : vbd'[b].vdi = vbd[b].vdi
    BY <2>2 DEF DiskInv, DiskTypes, VbdType
  <2>4. DriveDevices' = DriveDevices /\ (OneDrive => OneDrive')
    BY <2>2, <2>3 DEF DriveDevices, OneDrive, Used
  <2>5. call'[c] = t
    BY <2>1 DEF Goes, DiskInv, DiskTypes
  <2>6. ~overlapped => /\ vifs <= 1 /\ OneDrive
                       /\ DriveDevices \subseteq call[c].vbds \cup {call[c].vbd}
    BY <2>2 DEF AloneInv, Sees
  <2>7. QED BY <1>2, <2>1, <2>2, <2>4, <2>5, <2>6, AloneKept DEF Sees, Replacing, AloneInv
<1>4. CASE Plug(c)
  <2>1. /\ call[c].pc = "plug" /\ vdi' = vdi /\ Goes(c, Idle)
        /\ vbd' = [vbd EXCEPT ![call[c].vbd].plugged = TRUE]
    BY <1>4 DEF Plug
  <2>2. \A b \in Vbds : vbd'[b].vdi = vbd[b].vdi
    BY <2>1 DEF DiskInv, DiskTypes, VbdType
  <2>3. DriveDevices' = DriveDevices /\ (OneDrive => OneDrive')
    BY <2>1, <2>2 DEF DriveDevices, OneDrive, Used
  <2>4. call'[c].pc = "idle"
    BY <2>1, FreeRecords DEF Goes, DiskInv, DiskTypes
  <2>5. QED BY <1>2, <2>1, <2>3, <2>4, AloneKept DEF Sees, Replacing, AloneInv
<1>5. CASE DestroyDevice(c)
  <2> DEFINE t == [At(c, "old") EXCEPT !.vbd = NULLREF]
  <2>1. t.pc = "old" /\ t.vbds = call[c].vbds /\ Goes(c, t)
    <3>1. call[c] \in CallType
      BY CallRecord
    <3>2. QED BY <1>5, <3>1 DEF DestroyDevice, At, CallType, PCs
  <2>2. /\ call[c].pc = "device" /\ vdi' = vdi
        /\ vbd' = [vbd EXCEPT ![call[c].vbd] = FreeVbd]
    BY <1>5 DEF DestroyDevice
  <2> HIDE DEF t
  <2>3. /\ DriveDevices' \subseteq DriveDevices \ {call[c].vbd}
        /\ \A b \in DriveDevices' : vbd'[b].vdi = vbd[b].vdi
    BY <2>2, FreeRecords DEF DriveDevices, Used, DiskInv, DiskTypes
  <2>4. OneDrive => OneDrive'
    BY <2>2, <2>3 DEF OneDrive
  <2>5. call'[c] = t
    BY <2>1 DEF Goes, DiskInv, DiskTypes
  <2>6. ~overlapped => /\ vifs <= 1 /\ OneDrive
                       /\ DriveDevices \subseteq call[c].vbds \cup {call[c].vbd}
    BY <2>2 DEF AloneInv, Sees
  <2>7. ~overlapped => Sees(c)'
    BY <2>1, <2>3, <2>5, <2>6 DEF Sees
  <2>8. QED BY <1>2, <2>1, <2>2, <2>4, <2>6, <2>7, AloneKept DEF AloneInv
<1>6. CASE DestroyOld(c)
  <2> DEFINE t == [At(c, "look") EXCEPT !.old = NULLREF]
  <2>1. t.pc = "look" /\ t.vbds = call[c].vbds /\ Goes(c, t)
    <3>1. call[c] \in CallType
      BY CallRecord
    <3>2. QED BY <1>6, <3>1 DEF DestroyOld, At, CallType, PCs
  <2>2. /\ call[c].pc = "old" /\ vbd' = vbd
        /\ vdi' = [vdi EXCEPT ![call[c].old] = FreeVdi]
    BY <1>6 DEF DestroyOld
  <2> HIDE DEF t
  <2>3. \A d \in Vdis : vdi'[d] = vdi[d] \/ vdi'[d].kind = "free"
    BY <2>2, FreeRecords DEF DiskInv, DiskTypes
  <2>4. /\ DriveDevices' \subseteq DriveDevices
        /\ \A b \in DriveDevices' : vdi'[vbd[b].vdi] = vdi[vbd[b].vdi]
    BY <1>1, <2>2, <2>3 DEF DriveDevices, Used
  <2>5. OneDrive => OneDrive'
    BY <2>2, <2>4 DEF OneDrive
  <2>6. call'[c] = t
    BY <2>1 DEF Goes, DiskInv, DiskTypes
  <2>7. ~overlapped => vifs <= 1 /\ OneDrive /\ DriveDevices \subseteq call[c].vbds
    BY <2>2 DEF AloneInv, Sees, Replacing
  <2>8. ~overlapped => Sees(c)'
    BY <2>1, <2>4, <2>6, <2>7 DEF Sees
  <2>9. QED BY <1>2, <2>1, <2>2, <2>5, <2>7, <2>8, AloneKept DEF AloneInv
<1>7. QED BY <1>3, <1>4, <1>5, <1>6

(* Once no device it knows has a config drive, there is none. *)
LEMMA AttachingAlone ==
    ASSUME DiskInv, Marked, AloneInv, NEW c \in Calls, Attaching(c), ~overlapped
    PROVE  DriveDevices = {}
<1>1. \A b \in Used : vbd[b].vdi \in Vdis
  BY DEF Used, DiskInv, DiskTypes, VbdType
<1>2. QED
  BY <1>1 DEF Attaching, AloneInv, Sees, Replacing, DriveDevices, Drives, Marked,
     IsConfigDrive

LEMMA AttachedAlone ==
    ASSUME DiskInv, Marked, AloneInv, NEW c \in Calls, Attach(c), ~overlapped
    PROVE  \E b \in Vbds : /\ DriveDevices' = {b} /\ vbd'[b].vdi = call[c].disk
                           /\ vdi'[call[c].disk] = vdi[call[c].disk]
                           /\ vdi[call[c].disk].full
                           /\ call'[c] = IF call[c].wasRunning
                                THEN [At(c, "plug") EXCEPT !.vbd = b, !.device = 0, !.vbds = {}]
                                ELSE Idle
<1> DEFINE new == [vdi |-> call[c].disk, marked |-> TRUE, device |-> call[c].device,
                   plugged |-> FALSE]
           next(b) == IF call[c].wasRunning
                        THEN [At(c, "plug") EXCEPT !.vbd = b, !.device = 0, !.vbds = {}]
                        ELSE Idle
<1>1. PICK b \in FreeVbds : vbd' = [vbd EXCEPT ![b] = new] /\ Goes(c, next(b))
  BY DEF Attach
<1>2. new.vdi = call[c].disk
  OBVIOUS
<1> SUFFICES \E e \in Vbds : /\ DriveDevices' = {e} /\ vbd'[e].vdi = call[c].disk
                             /\ vdi'[call[c].disk] = vdi[call[c].disk]
                             /\ vdi[call[c].disk].full
                             /\ call'[c] = next(e)
  OBVIOUS
<1> HIDE DEF new, next
<1>3. b \in Vbds /\ vdi' = vdi /\ call[c].pc = "look" /\ Attaching(c)
  BY Zenon DEF Attach, Attaching, FreeVbds
<1>4. /\ call[c].disk \in Vdis /\ op = "drive"
      /\ vdi[call[c].disk].kind = "drive" /\ vdi[call[c].disk].full
  BY <1>3 DEF DiskInv, Place, Secret, Before, Early, DrivePCs
<1>5. \A e \in Vbds : vbd'[e] = IF e = b THEN new ELSE vbd[e]
  BY <1>1 DEF DiskInv, DiskTypes
<1>6. DriveDevices = {}
  BY <1>3, AttachingAlone
<1>7. \A e \in DriveDevices' : e = b
  BY <1>3, <1>5, <1>6 DEF DriveDevices, Used
<1>8. b \in DriveDevices' /\ vbd'[b].vdi = call[c].disk
  BY <1>2, <1>3, <1>4, <1>5, DisksAssumption DEF DriveDevices, Used
<1>9. DriveDevices' = {b}
  BY <1>7, <1>8
<1>10. call'[c] = next(b)
  BY <1>1 DEF Goes, DiskInv, DiskTypes
<1>11. QED BY <1>3, <1>4, <1>8, <1>9, <1>10

LEMMA AttachAlone ==
    ASSUME DiskInv, Marked, AloneInv, NEW c \in Calls, Attach(c)
    PROVE  AloneInv'
<1>1. PICK t : Goes(c, t)
  BY DEF Attach
<1>2. call[c].pc = "look" /\ UNCHANGED <<vifs, overlapped>>
  BY DEF Attach, Attaching, world, history
<1>3. ASSUME ~overlapped
      PROVE  OneDrive' /\ Sees(c)'
  <2>1. PICK b \in Vbds :
          /\ DriveDevices' = {b} /\ vbd'[b].vdi = call[c].disk
          /\ call'[c] = IF call[c].wasRunning
               THEN [At(c, "plug") EXCEPT !.vbd = b, !.device = 0, !.vbds = {}]
               ELSE Idle
    BY <1>3, AttachedAlone
  <2>2. \/ call'[c].pc = "plug" /\ call'[c].vbd = b
        \/ call'[c].pc = "idle"
    <3>1. call[c] \in CallType
      BY CallRecord
    <3>2. QED BY <2>1, FreeRecords, <3>1 DEF At, CallType, PCs
  <2>3. QED BY <2>1, <2>2 DEF OneDrive, Sees, Replacing
<1>4. QED BY <1>1, <1>2, <1>3, AloneKept DEF AloneInv

LEMMA ImageAlone ==
    ASSUME DiskInv, AloneInv, NEW c \in Calls, ImageStep(c) \/ User(c)
    PROVE  AloneInv'
<1>1. op = "image" /\ UNCHANGED <<vbd, vifs, overlapped>> /\ call[c].pc # "idle"
  BY DEF ImageStep, Generate, Insert, InsertFails, Eject, FinalEject, DestroyImage,
     DestroyImageFails, User, Answer, ScriptRun, DiskInv, Place, ImagePCs, devices, world,
     history
<1>2. CASE DestroyImage(c)
  <2>1. Goes(c, Idle) /\ vdi' = [vdi EXCEPT ![call[c].disk] = FreeVdi]
    BY <1>2 DEF DestroyImage
  <2>2. DriveDevices' = {} /\ call'[c].pc = "idle"
    BY <1>1, <2>1, NoDriveDevices, FreeRecords
       DEF DriveDevices, Used, Goes, DiskInv, DiskTypes, VbdType
  <2>3. OneDrive' /\ Sees(c)'
    BY <2>2 DEF OneDrive, Sees, Replacing
  <2>4. QED BY <1>1, <2>1, <2>3, AloneKept DEF AloneInv
<1>3. CASE ~DestroyImage(c)
  <2>1. vdi' = vdi
    BY <1>3 DEF ImageStep, Generate, Insert, InsertFails, Eject, FinalEject,
       DestroyImageFails, User, Answer, ScriptRun, devices
  <2>2. \/ Goes(c, Idle)
        \/ \E pc \in {"create", "wait", "ask", "final", "again", "eject", "destroy"} : To(c, pc)
    BY <1>3 DEF ImageStep, Generate, Insert, InsertFails, Eject, FinalEject,
       DestroyImageFails, GivesUp, User, Answer, ScriptRun, To
  <2>3. CASE Goes(c, Idle)
    BY <1>1, <2>1, <2>3, AloneEnds
  <2>4. ASSUME NEW pc \in {"create", "wait", "ask", "final", "again", "eject", "destroy"},
               To(c, pc)
        PROVE  AloneInv'
    <3> DEFINE t == At(c, pc)
    <3>1. t.pc = pc /\ Goes(c, t)
      BY <2>4, CallRecord DEF To, PCs
    <3> HIDE DEF t
    <3>2. QED BY <1>1, <2>1, <3>1, NoDriveDevices, AloneGoesOn DEF Replacing
  <2>5. QED BY <2>2, <2>3, <2>4
<1>4. QED BY <1>2, <1>3

LEMMA FailingAlone ==
    ASSUME DiskInv, AloneInv, NEW c \in Calls, Failing(c)
    PROVE  AloneInv'
<1>1. UNCHANGED <<vdi, vbd, vifs, overlapped>> /\ call[c].pc # "idle"
  BY DEF Failing, BuildIsoFails, GenerateFails, DriveFails, ImageFails, devices, world
<1>2. CASE Goes(c, Idle)
  BY <1>1, <1>2, AloneEnds
<1>3. CASE ~Goes(c, Idle)
  <2>1. ImageFails(c) /\ op = "image"
    BY <1>3 DEF Failing, BuildIsoFails, GenerateFails, DriveFails, ImageFails, GivesUp
  <2>2. PICK t : Goes(c, t) /\ t.pc \in {"final", "wait", "destroy"}
    <3>1. \/ Goes(c, [At(c, "final") EXCEPT !.disk = NULLREF])
          \/ To(c, "wait") \/ To(c, "final") \/ To(c, "destroy")
      BY <1>3, <2>1 DEF ImageFails, GivesUp, To
    <3>2. /\ [At(c, "final") EXCEPT !.disk = NULLREF].pc = "final"
          /\ \A pc \in {"final", "wait", "destroy"} : At(c, pc).pc = pc
      BY CallRecord DEF CallType, PCs
    <3>3. QED BY <3>1, <3>2 DEF To
  <2>3. QED BY <1>1, <2>1, <2>2, NoDriveDevices, AloneGoesOn DEF Replacing
<1>4. QED BY <1>2, <1>3

LEMMA AloneNext ==
    ASSUME DiskInv, Marked, AloneInv, [Next]_vars
    PROVE  AloneInv'
<1>1. ASSUME ChangeCd \/ UNCHANGED vars
      PROVE  AloneInv'
  BY <1>1 DEF ChangeCd, vars, diskVars, world, history, AloneInv, Active, OneDrive,
     DriveDevices, Used, Sees, Replacing
<1>2. ASSUME Power
      PROVE  AloneInv'
  <2>1. /\ vdi' = vdi /\ UNCHANGED <<vifs, call, overlapped>>
        /\ vbd' = [b \in Vbds |-> IF b \in Used THEN [vbd[b] EXCEPT !.plugged = ~running]
                                                ELSE vbd[b]]
    BY <1>2 DEF Power, history
  <2>2. \A b \in Vbds : vbd'[b].vdi = vbd[b].vdi
    BY <2>1 DEF DiskInv, DiskTypes, VbdType
  <2>3. DriveDevices' = DriveDevices /\ OneDrive' = OneDrive
    BY <2>1, <2>2 DEF DriveDevices, OneDrive, Used
  <2>4. QED BY <2>1, <2>3 DEF AloneInv, Active, Sees
<1>3. ASSUME NEW c \in Calls, DriveStep(c)
      PROVE  AloneInv'
  BY <1>3, PreparingAlone, LookingAlone, RemovingAlone, AttachAlone DEF DriveStep
<1>4. QED
  BY <1>1, <1>2, <1>3, BeginAlone, ImportAlone, ImageAlone, FailingAlone DEF Next

LEMMA MarkedNext ==
    ASSUME DiskInv, Marked, [Next]_vars
    PROVE  Marked'
<1>1. CASE vdi' = vdi
  BY <1>1 DEF Marked, Drives
<1>2. CASE vdi' # vdi
  <2>1. PICK c \in Calls :
          CreateDisk(c) \/ Upload(c) \/ DestroyOld(c) \/ DestroyImage(c)
    BY <1>2, DiskChanges
  <2>2. vdi \in [Vdis -> VdiType]
    BY DEF DiskInv, DiskTypes
  <2>3. \A d \in Vdis : \/ vdi'[d].kind = vdi[d].kind /\ vdi'[d].marked = vdi[d].marked
                        \/ vdi'[d].kind = op /\ vdi'[d].marked = (op = "drive")
                        \/ vdi'[d].kind = "free"
    <3>1. CASE CreateDisk(c)
      <4>1. PICK d \in Vdis :
              vdi' = [vdi EXCEPT ![d] = [kind |-> op, marked |-> (op = "drive"),
                                         full |-> FALSE, pair |-> call[c].pair]]
        BY <3>1 DEF CreateDisk, FreeVdis
      <4>2. QED BY <2>2, <4>1
    <3>2. CASE Upload(c)
      BY <2>2, <3>2 DEF Upload, VdiType
    <3>3. CASE DestroyOld(c) \/ DestroyImage(c)
      BY <2>2, <3>3, FreeRecords DEF DestroyOld, DestroyImage
    <3>4. QED BY <2>1, <3>1, <3>2, <3>3
  <2>4. QED BY <2>3 DEF Marked, Drives
<1>3. QED BY <1>1, <1>2

LEMMA AloneInitial ==
    ASSUME Init
    PROVE  Marked /\ AloneInv
<1>1. vifs = 0 /\ Active = {} /\ \A c \in Calls : call[c].pc = "idle"
  BY FreeRecords DEF Init, Active
<1>2. \A d \in Vdis : FirstVdi[d].kind # "drive"
  BY FreeRecords DEF FirstVdi, FreeVdi
<1>3. Marked /\ OneDrive
  <2>1. CASE vdi = FirstVdi
    BY <1>2, <2>1, DisksInitial DEF Marked, Drives, OneDrive, DriveDevices, Used, DiskInv,
       DiskTypes, VbdType
  <2>2. CASE vdi # FirstVdi
    <3>1. PICK d \in Vdis \ {Data, Iso}, b \in Vbds \ {DataVbd} :
            /\ vdi = [FirstVdi EXCEPT ![d] = [kind |-> "drive", marked |-> TRUE,
                                              full |-> TRUE, pair |-> pool.public]]
            /\ vbd = [FirstVbd EXCEPT ![b] = [vdi |-> d, device |-> 1, marked |-> TRUE,
                                              plugged |-> running]]
      BY <2>2 DEF Init
    <3>2. /\ vdi[d].marked /\ \A e \in Vdis \ {d} : vdi[e].kind # "drive"
          /\ Data \in Vdis \ {d}
      BY <1>2, <3>1, DisksAssumption DEF FirstVdi
    <3>3. \A e \in Used : e = b \/ vbd[e].vdi = Data
      BY <3>1, FreeRecords DEF Used, FirstVbd, FreeVbd
    <3>4. \A e \in DriveDevices : e = b
      BY <3>2, <3>3 DEF DriveDevices
    <3>5. QED BY <3>2, <3>4 DEF Marked, Drives, OneDrive
  <2>3. QED BY <2>1, <2>2
<1>4. QED BY <1>1, <1>3 DEF AloneInv, Sees, Replacing

LEMMA AloneAlways == Spec => [](DiskInv /\ Marked /\ AloneInv)
<1>1. Init => Marked /\ AloneInv
  BY AloneInitial
<1>2. DiskInv /\ Marked /\ AloneInv /\ [Next]_vars => Marked' /\ AloneInv'
  BY MarkedNext, AloneNext
<1>3. QED BY <1>1, <1>2, DisksCorrect, PTL DEF Spec

(* However many calls there are, as long as each begins after the last one *)
(* ended, the VM never has two config drives or two interfaces on the host *)
(* internal network, wherever any of them fails.                           *)
THEOREM NoDuplicatesEver == Spec => []NoDuplicates
<1>1. DiskInv /\ AloneInv => NoDuplicates
  <2>1. SUFFICES ASSUME DiskInv, AloneInv, ~overlapped
                 PROVE  Cardinality(Drives \cap Attached) <= 1 /\ vifs <= 1
    BY DEF NoDuplicates
  <2>2. Drives \cap Attached = {vbd[b].vdi : b \in DriveDevices}
    BY <2>1 DEF Drives, Attached, DriveDevices, Used, DiskInv, DiskTypes, VbdType
  <2>3. vifs <= 1 /\ \A b, e \in DriveDevices : b = e
    BY <2>1 DEF AloneInv, OneDrive
  <2>4. CASE DriveDevices = {}
    BY <2>2, <2>3, <2>4, FS_EmptySet
  <2>5. ASSUME NEW b \in DriveDevices
        PROVE  Cardinality(Drives \cap Attached) <= 1
    <3>1. Drives \cap Attached = {vbd[b].vdi}
      BY <2>2, <2>3
    <3>2. Cardinality({vbd[b].vdi}) = 1
      BY FS_Singleton
    <3>3. QED BY <3>1, <3>2
  <2>6. QED BY <2>3, <2>4, <2>5
<1>2. QED BY <1>1, AloneAlways, PTL

LEMMA HeldIsDrive ==
    ASSUME DiskInv, AloneInv, ~overlapped, op = "drive", NEW c \in Calls,
           call[c].disk # NULLREF
    PROVE  vdi[call[c].disk].kind = "drive" /\ call[c].disk \in Vdis
<1>1. /\ call[c].disk \in Vdis /\ call[c].pc \notin Before
      /\ call[c].pc \in PCs \ ImagePCs
      /\ Place(c) /\ Secret(c) /\ Holds(c)
  BY DEF DiskInv, DiskTypes, CallType, Place
<1>2. CASE call[c].pc \in Early
  BY <1>1, <1>2 DEF Secret
<1>3. CASE call[c].pc = "plug"
  <2>1. call[c].vbd \in DriveDevices
    BY <1>3 DEF AloneInv, Sees
  <2>2. QED BY <1>1, <1>3, <2>1 DEF DriveDevices, Holds
<1>4. QED BY <1>1, <1>2, <1>3 DEF PCs, ImagePCs, Before, Early, Removing

(* How a call that makes a config drive ends. *)
LEMMA DriveEnds ==
    ASSUME DiskInv, [Next]_vars, op = "drive", NEW c \in Calls,
           call[c].pc # "idle", call'[c].pc = "idle"
    PROVE  \/ Attach(c) \/ Plug(c)
           \/ \E S : GivesUp(c, S) /\ call[c].disk \in S \cup {NULLREF}
<1>1. call' # call /\ call \in [Calls -> CallType] /\ Place(c)
  BY DEF DiskInv, DiskTypes
<1>2. ~Power /\ ~ChangeCd /\ ~UNCHANGED vars
  BY <1>1 DEF Power, ChangeCd, vars, diskVars
<1>3. \A e \in Calls : /\ ~ImageBegin(e) /\ ~ImageStep(e) /\ ~User(e)
                       /\ ~GenerateFails(e) /\ ~ImageFails(e)
  BY DEF ImageBegin, ImageStep, Generate, Insert, InsertFails, Eject, FinalEject,
     DestroyImage, DestroyImageFails, User, Answer, ScriptRun, GenerateFails, ImageFails,
     DiskInv, Place, ImagePCs
<1>4. PICK e \in Calls : \/ DriveBegin(e) \/ DriveStep(e) \/ ImportStep(e)
                         \/ BuildIsoFails(e) \/ DriveFails(e)
  BY <1>2, <1>3 DEF Next, Failing
<1>5. PICK t : Goes(e, t)
  BY <1>1, <1>4, Zenon DEF DriveBegin, DriveStep, ImportStep, BuildIsoFails, DriveFails,
     CheckNetwork, CreateVif, LookUpKey, GetKey, BuildIso, LookAtDevice, Unplug,
     DestroyDevice, DestroyOld, RemoveFails, Attach, DeviceExists, Plug, PlugFails,
     CreateDisk, Upload, To, GivesUp, diskVars
<1>6. e = c /\ t = call'[c]
  BY <1>1, <1>5 DEF Goes
<1>7. CASE RemoveFails(c) \/ DeviceExists(c) \/ PlugFails(c) \/ DriveFails(c) \/ BuildIsoFails(c)
  <2>1. BuildIsoFails(c) => call[c].disk = NULLREF
    BY <1>1 DEF BuildIsoFails, Place, Before
  <2>2. DeviceExists(c) => GivesUp(c, {call[c].disk})
    <3>1. ASSUME Goes(c, [call[c] EXCEPT !.device = @ + 1]), call[c].pc = "look"
          PROVE  FALSE
      BY <1>1, <3>1 DEF Goes, CallType
    <3>2. QED BY <3>1 DEF DeviceExists, Attaching
  <2>3. QED BY <1>7, <2>1, <2>2 DEF RemoveFails, PlugFails, DriveFails, BuildIsoFails
<1>8. CASE CheckNetwork(c) \/ CreateVif(c) \/ LookUpKey(c) \/ GetKey(c) \/ Unplug(c) \/ Upload(c)
  <2>1. PICK pc \in {"vif", "key", "device", "look", "insert"} : To(c, pc)
    BY <1>1, <1>8 DEF CheckNetwork, CreateVif, LookUpKey, GetKey, Unplug, Upload, diskVars
  <2>2. QED BY <1>1, <2>1, CallRecord DEF To, Goes, PCs
<1>9. CASE \/ DriveBegin(c) \/ BuildIso(c) \/ LookAtDevice(c) \/ DestroyDevice(c)
           \/ DestroyOld(c) \/ CreateDisk(c)
  <2>1. ~DriveBegin(c)
    BY DEF DriveBegin
  <2>2. \A pc \in PCs : At(c, pc) \in CallType /\ At(c, pc).pc = pc
    BY CallRecord
  <2>3. ~BuildIso(c) /\ ~DestroyDevice(c) /\ ~DestroyOld(c)
    <3>1. BuildIso(c) => call'[c].pc = "create"
      BY <1>1, <2>2 DEF BuildIso, Goes, CallType, PCs
    <3>2. DestroyDevice(c) => call'[c].pc = "old"
      BY <1>1, <2>2 DEF DestroyDevice, Goes, CallType, PCs
    <3>3. DestroyOld(c) => call'[c].pc = "look"
      BY <1>1, <2>2 DEF DestroyOld, Goes, CallType, PCs
    <3>4. QED BY <3>1, <3>2, <3>3
  <2>4. ~CreateDisk(c)
    <3> SUFFICES ASSUME CreateDisk(c)
                 PROVE  FALSE
      OBVIOUS
    <3>1. PICK d : Goes(c, [At(c, "upload") EXCEPT !.disk = d, !.pair = Absent])
      BY DEF CreateDisk
    <3>2. call'[c].pc = "upload"
      BY <1>1, <2>2, <3>1 DEF Goes, CallType, PCs
    <3>3. QED BY <3>2
  <2>5. ~LookAtDevice(c)
    <3> SUFFICES ASSUME LookAtDevice(c)
                 PROVE  FALSE
      OBVIOUS
    <3>1. PICK b :
            Goes(c, [At(c, IF vbd[b].plugged THEN "unplug" ELSE "device")
                       EXCEPT !.vbds = @ \ {b}, !.vbd = b, !.old = vbd[b].vdi])
      BY DEF LookAtDevice
    <3>2. PICK pc \in {"unplug", "device"} :
            Goes(c, [At(c, pc) EXCEPT !.vbds = @ \ {b}, !.vbd = b, !.old = vbd[b].vdi])
      BY <3>1, Zenon
    <3>3. call'[c].pc = pc
      BY <1>1, <2>2, <3>2 DEF Goes, CallType, PCs
    <3>4. QED BY <3>3
  <2>6. QED BY <1>9, <2>1, <2>3, <2>4, <2>5
<1>10. QED BY <1>4, <1>6, <1>7, <1>8, <1>9 DEF DriveStep, ImportStep

LEMMA OneAttached ==
    ASSUME DiskInv', NEW b \in Vbds, DriveDevices' = {b}
    PROVE  (Drives \cap Attached)' = {vbd'[b].vdi}
<1>1. \A e \in Used' : vbd'[e].vdi \in Vdis
  BY DEF Used, DiskInv, DiskTypes, VbdType
<1>2. (Drives \cap Attached)' = {vbd'[e].vdi : e \in DriveDevices'}
  BY <1>1 DEF Drives, Attached, DriveDevices
<1>3. QED BY <1>2

LEMMA ReturnStep ==
    ASSUME DiskInv, Marked, AloneInv, [Next]_vars, op = "drive", NEW c \in Calls,
           call[c].pc # "idle", call'[c].pc = "idle", ~overlapped,
           call[c].disk \notin abandoned' \cup {NULLREF}
    PROVE  (Drives \cap Attached)' = {call[c].disk} /\ vdi'[call[c].disk].full
<1>1. DiskInv' /\ vdi[call[c].disk].kind = "drive" /\ call[c].disk \in Vdis
  BY DiskNext, HeldIsDrive
<1>2. CASE \E S : GivesUp(c, S) /\ call[c].disk \in S \cup {NULLREF}
  BY <1>1, <1>2, FreeRecords DEF GivesUp
<1>3. CASE Attach(c)
  <2>1. PICK b \in Vbds : /\ DriveDevices' = {b} /\ vbd'[b].vdi = call[c].disk
                          /\ vdi'[call[c].disk] = vdi[call[c].disk]
                          /\ vdi[call[c].disk].full
    BY <1>3, AttachedAlone
  <2>2. QED BY <1>1, <2>1, OneAttached
<1>4. CASE Plug(c)
  <2>1. /\ call[c].pc = "plug" /\ vdi' = vdi /\ call[c].vbd \in Used
        /\ vbd' = [vbd EXCEPT ![call[c].vbd].plugged = TRUE]
    BY <1>4 DEF Plug
  <2>2. /\ DriveDevices = {call[c].vbd} /\ vbd[call[c].vbd].vdi = call[c].disk
        /\ vdi[call[c].disk].full
    BY <1>1, <2>1, FreeRecords DEF AloneInv, Sees, DiskInv, Holds
  <2>3. \A b \in Vbds : vbd'[b].vdi = vbd[b].vdi
    BY <2>1 DEF DiskInv, DiskTypes, VbdType
  <2>4. DriveDevices' = DriveDevices
    BY <2>1, <2>3 DEF DriveDevices, Used
  <2>5. call[c].vbd \in Vbds
    BY <2>1 DEF Used
  <2>6. QED BY <1>1, <2>1, <2>2, <2>3, <2>4, <2>5, OneAttached
<1>5. QED BY <1>2, <1>3, <1>4, DriveEnds

(* And a call that returns without a failure has attached its own disk,    *)
(* complete, and no drive but that.                                        *)
THEOREM ReturnsWithDrive == Spec => ReturnsAttached
<1>1. DiskInv /\ Marked /\ AloneInv /\ [Next]_vars =>
        [\A c \in Calls :
          /\ op = "drive" /\ call[c].pc # "idle" /\ call'[c].pc = "idle"
          /\ ~overlapped /\ call[c].disk \notin abandoned' \cup {NULLREF}
          => (Drives \cap Attached)' = {call[c].disk} /\ vdi'[call[c].disk].full]_vars
  BY ReturnStep
<1>2. QED BY <1>1, AloneAlways, PTL DEF Spec, ReturnsAttached

(***************************************************************************)
(* The last complete config drive                                          *)
(***************************************************************************)
LEMMA DisksLeft ==
    ASSUME DiskInv, [Next]_vars, op = "drive", \A c \in Calls : ~DestroyDevice(c)
    PROVE  Attached \subseteq Attached'
<1>1. vbd \in [Vbds -> VbdType] /\ \A c \in Calls : Place(c)
  BY DEF DiskInv, DiskTypes
<1>2. CASE vbd' = vbd
  BY <1>2 DEF Attached, Used
<1>3. CASE \A b \in Used : vbd'[b].vdi = vbd[b].vdi
  BY <1>3 DEF Attached, Used
<1>4. ASSUME NEW c \in Calls, Unplug(c) \/ Attach(c) \/ Plug(c)
      PROVE  \A b \in Used : vbd'[b].vdi = vbd[b].vdi
  <2>1. CASE Attach(c)
    <3>1. PICK b \in FreeVbds : \E r : vbd' = [vbd EXCEPT ![b] = r]
      BY <2>1, Zenon DEF Attach
    <3>2. b \notin Used
      BY DEF FreeVbds
    <3>3. QED BY <1>1, <3>1, <3>2 DEF Used
  <2>2. CASE Unplug(c)
    BY <1>1, <2>2 DEF Unplug, VbdType, Used
  <2>3. CASE Plug(c)
    BY <1>1, <2>3 DEF Plug, VbdType, Used
  <2>4. QED BY <1>4, <2>1, <2>2, <2>3
<1>5. ASSUME Power
      PROVE  \A b \in Used : vbd'[b].vdi = vbd[b].vdi
  <2>1. PICK on \in BOOLEAN : on = ~running
    BY DEF DiskInv, DiskTypes
  <2>2. vbd' = [b \in Vbds |-> IF b \in Used THEN [vbd[b] EXCEPT !.plugged = on] ELSE vbd[b]]
    BY <1>5, <2>1, Zenon DEF Power
  <2>3. \A b \in Vbds : [vbd[b] EXCEPT !.plugged = on].vdi = vbd[b].vdi
    BY <1>1 DEF VbdType
  <2>4. QED BY <2>2, <2>3 DEF Used
<1>6. ASSUME NEW c \in Calls,
             \/ DriveStep(c) \/ ImageStep(c) \/ ImportStep(c) \/ User(c) \/ Failing(c)
             \/ DriveBegin(c) \/ ImageBegin(c)
      PROVE  vbd' = vbd \/ Unplug(c) \/ Attach(c) \/ Plug(c)
  BY <1>6 DEF DriveStep, CheckNetwork, CreateVif, LookUpKey, GetKey, BuildIso,
     LookAtDevice, DestroyOld, RemoveFails, DeviceExists, PlugFails, ImageStep, Generate,
     Insert, InsertFails, Eject, FinalEject, DestroyImage, DestroyImageFails, ImportStep,
     CreateDisk, Upload, User, Answer, ScriptRun, Failing, BuildIsoFails, GenerateFails,
     DriveFails, ImageFails, DriveBegin, ImageBegin, diskVars, devices
<1>7. QED
  BY <1>2, <1>3, <1>4, <1>5, <1>6 DEF Next, ChangeCd, vars, diskVars

LEMMA DiskStays ==
    ASSUME DiskInv, [Next]_vars, op = "drive", NEW c \in Calls, call[c].disk \in Vdis
    PROVE  call'[c].disk = call[c].disk \/ call'[c].pc = "idle"
<1>1. /\ call \in [Calls -> CallType] /\ Place(c) /\ Idle.pc = "idle"
      /\ \A pc \in PCs : /\ At(c, pc) \in CallType
                         /\ At(c, pc).disk = call[c].disk
  BY CallRecord, FreeRecords DEF DiskInv, DiskTypes
<1>2. call[c].pc \notin Before
  BY <1>1, DisksAssumption DEF Place
<1>3. SUFFICES ASSUME call'[c] # call[c]
               PROVE  call'[c].disk = call[c].disk \/ call'[c].pc = "idle"
  OBVIOUS
<1>4. ~Power /\ ~ChangeCd /\ ~UNCHANGED vars
  BY <1>3 DEF Power, ChangeCd, vars, diskVars
<1>5. \A e \in Calls : /\ ~ImageBegin(e) /\ ~ImageStep(e) /\ ~User(e)
                       /\ ~GenerateFails(e) /\ ~ImageFails(e)
  BY DEF ImageBegin, ImageStep, Generate, Insert, InsertFails, Eject, FinalEject,
     DestroyImage, DestroyImageFails, User, Answer, ScriptRun, GenerateFails, ImageFails,
     DiskInv, Place, ImagePCs
<1>6. PICK e \in Calls : \/ DriveBegin(e) \/ DriveStep(e) \/ ImportStep(e)
                         \/ BuildIsoFails(e) \/ DriveFails(e)
  BY <1>4, <1>5 DEF Next, Failing
<1>7. PICK t : Goes(e, t)
  BY <1>3, <1>6, Zenon DEF DriveBegin, DriveStep, ImportStep, BuildIsoFails, DriveFails,
     CheckNetwork, CreateVif, LookUpKey, GetKey, BuildIso, LookAtDevice, Unplug,
     DestroyDevice, DestroyOld, RemoveFails, Attach, DeviceExists, Plug, PlugFails,
     CreateDisk, Upload, To, GivesUp, diskVars
<1>8. e = c
  BY <1>1, <1>3, <1>7 DEF Goes
<1>9. CASE \E S : GivesUp(c, S)
  BY <1>1, <1>9 DEF GivesUp, Goes
<1>10. CASE \E pc \in PCs : To(c, pc)
  BY <1>1, <1>10 DEF To, Goes
<1>11. CASE LookAtDevice(c)
  <2>1. PICK b :
          Goes(c, [At(c, IF vbd[b].plugged THEN "unplug" ELSE "device")
                     EXCEPT !.vbds = @ \ {b}, !.vbd = b, !.old = vbd[b].vdi])
    BY <1>11 DEF LookAtDevice
  <2>2. PICK pc \in {"unplug", "device"} :
          Goes(c, [At(c, pc) EXCEPT !.vbds = @ \ {b}, !.vbd = b, !.old = vbd[b].vdi])
    BY <2>1, Zenon
  <2>3. QED BY <1>1, <2>2 DEF Goes, CallType, PCs
<1>12. CASE DestroyDevice(c) \/ DestroyOld(c)
  BY <1>1, <1>12 DEF DestroyDevice, DestroyOld, Goes, CallType, PCs
<1>13. CASE Attach(c)
  <2>1. PICK b : Goes(c, IF call[c].wasRunning
                          THEN [At(c, "plug") EXCEPT !.vbd = b, !.device = 0, !.vbds = {}]
                          ELSE Idle)
    BY <1>13 DEF Attach
  <2>2. CASE call[c].wasRunning
    BY <1>1, <2>1, <2>2 DEF Goes, CallType, PCs
  <2>3. CASE ~call[c].wasRunning
    BY <1>1, <2>1, <2>3 DEF Goes
  <2>4. QED BY <2>2, <2>3
<1>14. CASE DeviceExists(c)
  BY <1>1, <1>9, <1>14 DEF DeviceExists, Goes, CallType
<1>15. CASE Plug(c)
  BY <1>1, <1>15 DEF Plug, Goes
<1>16. ASSUME ~ \E S : GivesUp(c, S)
       PROVE  \/ \E pc \in PCs : To(c, pc)
              \/ LookAtDevice(c) \/ DestroyDevice(c) \/ DestroyOld(c)
              \/ Attach(c) \/ DeviceExists(c) \/ Plug(c)
  <2>1. \/ DriveStep(c) \/ Upload(c)
    BY <1>2, <1>6, <1>8, <1>16 DEF DriveBegin, ImportStep, CreateDisk, BuildIsoFails,
       DriveFails, Before
  <2>2. ~CheckNetwork(c) /\ ~CreateVif(c) /\ ~LookUpKey(c) /\ ~GetKey(c) /\ ~BuildIso(c)
    BY <1>2 DEF CheckNetwork, CreateVif, LookUpKey, GetKey, BuildIso, Before
  <2>3. QED
    BY <1>16, <2>1, <2>2 DEF DriveStep, Upload, Unplug, RemoveFails, PlugFails, PCs
<1>17. QED
  BY <1>9, <1>10, <1>11, <1>12, <1>13, <1>14, <1>15, <1>16

(* Whoever removes an old drive has a new one, complete. *)
LEMMA RemoverHasNew ==
    ASSUME DiskInv, NEW c \in Calls, DestroyDevice(c) \/ DestroyOld(c)
    PROVE  call[c].disk \in Usable'
<1>1. /\ call[c].pc \in {"device", "old"} /\ op = "drive"
      /\ call[c].disk \in Vdis /\ call[c].old # call[c].disk
      /\ vdi[call[c].disk].kind = "drive" /\ vdi[call[c].disk].full
  BY DEF DestroyDevice, DestroyOld, DiskInv, Place, DrivePCs, Before, Secret, Early, Removing
<1>2. vdi'[call[c].disk] = vdi[call[c].disk]
  BY <1>1 DEF DestroyDevice, DestroyOld, DiskInv, DiskTypes
<1>3. call'[c].disk = call[c].disk
  <2>1. /\ call \in [Calls -> CallType]
        /\ \A pc \in PCs : At(c, pc) \in CallType /\ At(c, pc).disk = call[c].disk
    BY CallRecord DEF DiskInv, DiskTypes
  <2>2. QED BY <2>1 DEF DestroyDevice, DestroyOld, Goes, CallType, PCs
<1>4. QED BY <1>1, <1>2, <1>3 DEF Usable, Drives

LEMMA DriveLostStep ==
    ASSUME DiskInv, [Next]_vars, Usable # {}, Usable' = {}
    PROVE  \E c \in Calls : /\ call[c].disk \in Usable \ Attached
                            /\ call'[c].pc = "idle"
                            /\ call[c].disk \in abandoned'
<1>1. PICK d \in Usable : TRUE
  OBVIOUS
<1>2. d \in Vdis /\ vdi[d].kind = "drive" /\ vdi[d].full /\ op = "drive"
  BY DEF Usable, Drives, DiskInv, Disks
<1>3. \A c \in Calls : ~DestroyDevice(c) /\ ~DestroyOld(c)
  BY RemoverHasNew
<1>4. Attached \subseteq Attached'
  BY <1>2, <1>3, DisksLeft
<1>5. vdi'[d].kind = "drive" /\ vdi'[d].full
  <2>1. CASE vdi' = vdi
    BY <1>2, <2>1
  <2>2. CASE vdi' # vdi
    <3>1. \A c \in Calls : ~DestroyImage(c)
      BY <1>2 DEF DestroyImage, DiskInv, Place, ImagePCs
    <3>2. PICK c \in Calls : CreateDisk(c) \/ Upload(c)
      BY <1>3, <2>2, <3>1, DiskChanges
    <3>3. CASE CreateDisk(c)
      <4>1. d \notin FreeVdis
        BY <1>2, FreeRecords DEF FreeVdis
      <4>2. QED BY <1>2, <3>3, <4>1 DEF CreateDisk, FreeVdis, DiskInv, DiskTypes
    <3>4. CASE Upload(c)
      BY <1>2, <3>4 DEF Upload, DiskInv, DiskTypes, VdiType
    <3>5. QED BY <3>2, <3>3, <3>4
  <2>3. QED BY <2>1, <2>2
<1>6. d \notin Attached' /\ \A c \in Calls : call'[c].disk # d
  BY <1>2, <1>5 DEF Usable, Drives
<1>7. d \notin Attached
  BY <1>4, <1>6
<1>8. PICK c \in Calls : call[c].disk = d
  BY <1>7 DEF Usable
<1>9. call[c].pc # "idle" /\ call'[c].pc = "idle"
  <2>1. call'[c].pc = "idle"
    BY <1>2, <1>6, <1>8, DiskStays
  <2>2. QED BY <1>2, <1>8, <2>1, DisksAssumption DEF DiskInv, Place, Before
<1>10. ~Attach(c)
  <2> SUFFICES ASSUME Attach(c)
               PROVE  d \in Attached'
    BY <1>6
  <2>1. PICK b \in FreeVbds : vbd' = [vbd EXCEPT ![b] = [vdi |-> call[c].disk, marked |-> TRUE,
                                       device |-> call[c].device, plugged |-> FALSE]]
    BY DEF Attach
  <2>2. b \in Vbds /\ vbd'[b].vdi = d
    BY <1>8, <2>1 DEF FreeVbds, DiskInv, DiskTypes
  <2>3. b \in Used'
    BY <1>2, <2>2, DisksAssumption DEF Used
  <2>4. QED BY <2>2, <2>3 DEF Attached
<1>11. ~Plug(c)
  BY <1>7, <1>8 DEF Plug, DiskInv, Holds, Attached
<1>12. PICK S : GivesUp(c, S) /\ call[c].disk \in S \cup {NULLREF}
  BY <1>2, <1>9, <1>10, <1>11, DriveEnds
<1>13. d \in abandoned'
  BY <1>2, <1>8, <1>12, FreeRecords, DisksAssumption DEF GivesUp
<1>14. QED BY <1>7, <1>8, <1>9, <1>13

(* However many calls replace the config drive at once, and wherever they  *)
(* fail: the VM is left without a complete one, attached or about to be,   *)
(* only by the failure of a call that had a complete one to attach.        *)
THEOREM DriveSafeUntilFailure == Spec => DriveLostByFailureOnly
<1>1. DiskInv /\ [Next]_vars =>
        [Usable # {} /\ Usable' = {} =>
          \E c \in Calls : /\ call[c].disk \in Usable \ Attached
                           /\ call'[c].pc = "idle"
                           /\ call[c].disk \in abandoned']_vars
  BY DriveLostStep
<1>2. QED BY <1>1, DisksCorrect, PTL DEF Spec, DriveLostByFailureOnly

=============================================================================
