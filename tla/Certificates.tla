---------------------------- MODULE Certificates ----------------------------
(***************************************************************************)
(* The files of tls_cert.generate_certs_and_return_iso: a certificate      *)
(* authority, the client's and the server's certificates, and the ISO that *)
(* takes them to the VM.  The program is a sequence of steps of which any  *)
(* may fail; a step that fails may leave the file it was writing.  What    *)
(* remains then is what the `finally' clauses on the way out leave.        *)
(***************************************************************************)
EXTENDS Naturals, Sequences, FiniteSets, SequencesExt

(* In the order in which openssl and the script write them. *)
GenerateCa == <<"ca-key.pem", "ca.pem">>

GenerateClient ==
    <<"client", "client/key.pem", "client/client.csr", "client/extfile.cnf",
      "ca.srl", "client/cert.pem", "client/ca.pem">>

GenerateServer ==
    <<"server", "server/server-key.pem", "server/server.csr",
      "server/extfile.cnf", "server/server-cert.pem", "server/ca.pem">>

(* set_for_vm follows, which leaves no file here, and the ISO is made. *)
Prepare == <<"set_for_vm", "configure_tls.cmd", "daemon.json", "targetiso">>

Steps == <<"tempdir">> \o GenerateCa \o GenerateClient \o GenerateServer \o Prepare
StepNumber == 1 .. Len(Steps)

NoFile == {"set_for_vm"}
Number(file) == CHOOSE n \in StepNumber : Steps[n] = file

PrivateKeys == {"ca-key.pem", "client/key.pem", "server/server-key.pem"}
CERTIFICATE_FILES ==
    {"server/ca.pem", "server/server-cert.pem", "server/server-key.pem",
     "client/ca.pem", "client/cert.pem", "client/key.pem"}

(* Reached(first, n): step n, the last one tried, is in the `try' block    *)
(* that begins with first, or after it.                                    *)
Reached(first, n) == n >= Number(first)

(* The `finally' of _generate_client, of _generate_server, and _wipe_ca.   *)
ClientTidied(n) ==
    IF Reached("client/client.csr", n)
      THEN {"client/client.csr", "client/extfile.cnf"} ELSE {}
ServerTidied(n) ==
    IF Reached("server/extfile.cnf", n)
      THEN {"server/server.csr", "server/extfile.cnf", "ca.srl"} ELSE {}
_wipe_ca == {"ca.pem", "ca-key.pem"}

(* Mutant: the names of the server's files lack their directory. *)
_wipe_certificates_names(files) ==
    files \ {"configure_tls.cmd", "daemon.json", "client/ca.pem",
             "client/cert.pem", "client/key.pem"}

Inside(folder, files) ==
    {f \in files :
        \/ folder = "client" /\ f \in Range(GenerateClient) \ {"client", "ca.srl"}
        \/ folder = "server" /\ f \in Range(GenerateServer) \ {"server"}}

(* Files first, then the folders; an rmdir of a folder that is not empty   *)
(* raises, and what comes after it is left undone.                         *)
_wipe_certificates(files) ==
    LET wiped  == files \ (CERTIFICATE_FILES \cup {"configure_tls.cmd", "daemon.json"})
        client == IF Inside("client", wiped) = {} THEN wiped \ {"client"} ELSE wiped
    IN  IF "client" \notin client /\ Inside("server", client) = {}
          THEN client \ {"server"} ELSE client

(* os.rmdir(tempdir), which raises if there is something in it. *)
RemoveTempdir(files) == IF files \ {"targetiso"} = {"tempdir"} THEN files \ {"tempdir"}
                                                             ELSE files

(* What is left when step n fails - having written its file or not - or,   *)
(* with n past the last one, when all went well.  A failing make_iso       *)
(* removes the ISO.                                                        *)
Remains(n, partly) ==
    LET tried   == {Steps[k] : k \in {m \in StepNumber : m < n \/ (m = n /\ partly)}}
        written == tried \ UNION {NoFile, ClientTidied(n), ServerTidied(n), _wipe_ca}
        kept    == IF n \in StepNumber THEN written \ {"targetiso"} ELSE written
    IN  RemoveTempdir(_wipe_certificates(kept))

AllWell == Len(Steps) + 1
=============================================================================
