---------------------------- MODULE MachineFiles ----------------------------
(***************************************************************************)
(* One file name of one application environment: uploads that deliver it to *)
(* the machines of the environment, or to one machine at the same path; the *)
(* rows that record what each machine accepted; the monitor and the console *)
(* that compare the newest rows with what the machines hold.                *)
(*                                                                          *)
(* A machine is reached over SSH, or by a node or the local file system,    *)
(* which share filestore. The request sends the bytes; a writer on the      *)
(* machine collects them in a temporary file and renames it, and neither    *)
(* ends with the other. The content of an upload is the upload's name, and  *)
(* a checksum is the content; "" is the checksum of what has none.          *)
(***************************************************************************)
EXTENDS Integers, Sequences, FiniteSets

CONSTANTS
    Machine, Ssh,   \* machines, those reached over SSH
    Upload,         \* upload requests
    Raw, Replacing, \* those to one machine, those with overwrite=true
    MaxSpread       \* bound on the environment's machines together with the changes
                    \* by hand, and with the verifications asked for from the console

ASSUME FilesAssumption ==
    /\ Upload \cap {"missing", "dir", "other", "part", ""} = {}
    /\ Ssh \subseteq Machine /\ Raw \subseteq Upload /\ Replacing \subseteq Upload
    /\ MaxSpread \in Nat

VARIABLES
    hosts,     \* machines the environment may have instances on
    disk,      \* what is at the path on each machine
    held,      \* history: the checksums of what ever was at the path of each machine
    temp,      \* the temporary file of an upload on a machine, and how far its writer is
    rows,      \* machine_file_upload, by id
    upload,    \* the requests
    verify,    \* the verification passes in progress
    edits, asked

fileVars == <<hosts, disk, held, temp, rows, upload, verify, edits, asked>>

\* Besides a whole upload: nothing, a directory, a file put there by hand, the
\* first part of an upload.
Content == Upload \cup {"missing", "dir", "other", "part"}
Sum(content) == IF content \in {"missing", "dir"} THEN "" ELSE content

NotBegun == [pc |-> "new"]
Ended    == [pc |-> "done"]
NoTemp   == [pc |-> "none"]
NoPass   == [pc |-> "idle"]

FilesInit ==
    /\ hosts \in SUBSET Machine \ {{}} /\ Cardinality(hosts) <= MaxSpread
    /\ disk = [m \in Machine |-> "missing"] /\ held = [m \in Machine |-> {""}]
    /\ temp = [u \in Upload |-> [m \in Machine |-> NoTemp]]
    /\ rows = <<>>
    /\ upload = [u \in Upload |-> NotBegun]
    /\ verify = [k \in {"monitor", "console"} |-> NoPass]
    /\ edits = 0 /\ asked = 0

Put(m, content) ==
    /\ disk' = [disk EXCEPT ![m] = content]
    /\ held' = [held EXCEPT ![m] = @ \cup {Sum(content)}]

\* A rebuilt machine, a wiped workspace, a replaced file, a directory made there.
EditedByHand(m, content) ==
    /\ Cardinality(hosts) + edits < MaxSpread /\ edits' = edits + 1
    /\ disk[m] # content /\ Put(m, content)
    /\ UNCHANGED <<hosts, temp, rows, upload, verify, asked>>
-----------------------------------------------------------------------------
(***************************************************************************)
(* Uploads.                                                                 *)
(***************************************************************************)
Begin(u, machines) ==
    /\ upload[u] = NotBegun
    /\ upload' = [upload EXCEPT ![u] = [pc |-> "next", left |-> machines]]
    /\ UNCHANGED <<hosts, disk, held, temp, rows, verify, edits, asked>>

\* UploadToAppEnv: envMachines, the machines with an enabled instance, are read
\* once. Instances come and go, so that the set differs between uploads.
UploadToAppEnv(u, machines) == u \notin Raw /\ machines # {} /\ Begin(u, machines)

\* UploadToMachine: a path inside the workspace root, here that of the file.
UploadToMachine(u, m) == u \in Raw /\ Begin(u, {m})

\* The next machine's turn, when this one is through.
Turn(u) ==
    LET left == upload[u].left \ {upload[u].machine}
    IN  IF left = {} THEN Ended
        ELSE [pc |-> "next", left |-> left]

\* WriteAt's look at the path; the SSH script looks only when it may not
\* overwrite, and takes whatever is there for an existing file.
MayWrite(m, u) ==
    \/ disk[m] = "missing"
    \/ u \in Replacing /\ (m \in Ssh \/ disk[m] # "dir")

\* The look at the path and an empty temporary file beside it. The order of the
\* machines is that of ListByApplication, which is not that of their ids.
PutFile(u, m) ==
    /\ upload[u].pc = "next" /\ m \in upload[u].left
    /\ MayWrite(m, u)
    /\ upload' = [upload EXCEPT ![u] = [pc |-> "copy", left |-> @.left, machine |-> m]]
    /\ temp' = [temp EXCEPT ![u][m] = [pc |-> "copy", content |-> "part"]]
    /\ UNCHANGED <<hosts, disk, held, rows, verify, edits, asked>>

\* The machine cannot be loaded or reached, has no root, or refuses the path:
\* no row, and on to the next machine.
Skip(u, m) ==
    /\ upload[u].pc = "next" /\ m \in upload[u].left
    /\ upload' = [upload EXCEPT ![u] =
                    IF @.left = {m} THEN Ended ELSE [pc |-> "next", left |-> @.left \ {m}]]
    /\ UNCHANGED <<hosts, disk, held, temp, rows, verify, edits, asked>>

\* The request has not given this machine up.
Waits(u, m) == upload[u].pc = "copy" /\ upload[u].machine = m

\* The writer answers with next, if the request still waits for it.
Answer(u, m, next) ==
    upload' = IF Waits(u, m) THEN [upload EXCEPT ![u] = next] ELSE upload

\* The end of the body: the temporary file is complete, and synced.
Copied(u, m) ==
    /\ temp[u][m].pc = "copy"
    /\ temp' = [temp EXCEPT ![u][m] = [pc |-> "rename", content |-> u]]
    /\ UNCHANGED <<hosts, disk, held, rows, upload, verify, edits, asked>>

\* Mutation: the error of a transfer that was cut is not looked at.
CutUnchecked(u, m) ==
    /\ temp[u][m].pc = "copy"
    /\ temp' = [temp EXCEPT ![u][m].pc = "rename"]
    /\ UNCHANGED <<hosts, disk, held, rows, upload, verify, edits, asked>>

\* The transfer is cut, which fails the request. io.Copy fails as well, and the
\* temporary file is removed; the remote cat takes it for the end of the file.
Cut(u, m) ==
    /\ temp[u][m].pc = "copy"
    /\ temp' = [temp EXCEPT ![u][m] = IF m \in Ssh THEN [@ EXCEPT !.pc = "rename"] ELSE NoTemp]
    /\ Answer(u, m, Turn(u))
    /\ UNCHANGED <<hosts, disk, held, rows, verify, edits, asked>>

\* The disk is full, the file too large, the rename fails, the node dies: the
\* temporary file is removed, or stays behind under its own name.
Abandon(u, m) ==
    /\ temp[u][m] # NoTemp
    /\ temp' = [temp EXCEPT ![u][m] = NoTemp]
    /\ Answer(u, m, Turn(u))
    /\ UNCHANGED <<hosts, disk, held, rows, verify, edits, asked>>

\* The file is on the machine, with its checksum, and not recorded yet.
Received(u, sum) ==
    [pc |-> "record", left |-> upload[u].left, machine |-> upload[u].machine, sum |-> sum]

\* Mutation: a failed rename is not looked at.
RenameUnchecked(u, m) ==
    /\ temp[u][m].pc = "rename" /\ m \notin Ssh
    /\ IF disk[m] = "dir" THEN UNCHANGED <<disk, held>> ELSE Put(m, temp[u][m].content)
    /\ temp' = [temp EXCEPT ![u][m] = NoTemp]
    /\ Answer(u, m, Received(u, temp[u][m].content))
    /\ UNCHANGED <<hosts, rows, verify, edits, asked>>

\* WriteAt's rename, whether or not its request still waits: the checksum is that
\* of the bytes it wrote. A directory that came to the path meanwhile fails it.
Rename(u, m) ==
    /\ temp[u][m].pc = "rename" /\ m \notin Ssh /\ disk[m] # "dir"
    /\ Put(m, temp[u][m].content)
    /\ temp' = [temp EXCEPT ![u][m] = NoTemp]
    /\ Answer(u, m, Received(u, temp[u][m].content))
    /\ UNCHANGED <<hosts, rows, verify, edits, asked>>

\* The SSH script's mv moves the file into a directory, and does not fail.
SshMove(u, m) ==
    /\ temp[u][m].pc = "rename" /\ m \in Ssh
    /\ IF disk[m] = "dir" THEN UNCHANGED <<disk, held>> ELSE Put(m, temp[u][m].content)
    /\ temp' = [temp EXCEPT ![u][m] = NoTemp]
    /\ Answer(u, m, [pc |-> "stat", left |-> upload[u].left, machine |-> m])
    /\ UNCHANGED <<hosts, rows, verify, edits, asked>>

\* The checksum over SSH is read by a second command.
SshStat(u) ==
    /\ upload[u].pc = "stat"
    /\ upload' = [upload EXCEPT ![u] = Received(u, Sum(disk[upload[u].machine]))]
    /\ UNCHANGED <<hosts, disk, held, temp, rows, verify, edits, asked>>

\* The connection is lost, and the writer goes on without it.
TransferFails(u) ==
    /\ upload[u].pc = "copy"
    /\ upload' = [upload EXCEPT ![u] = Turn(u)]
    /\ UNCHANGED <<hosts, disk, held, temp, rows, verify, edits, asked>>

\* The client is gone, or the control plane restarts: this transfer and the rest
\* of the upload end, and the writer goes on.
RequestEnds(u) ==
    /\ upload[u] \notin {NotBegun, Ended}
    /\ upload' = [upload EXCEPT ![u] = Ended]
    /\ UNCHANGED <<hosts, disk, held, temp, rows, verify, edits, asked>>

\* The upload counts as the first verification.
RecordUpload(u) ==
    /\ upload[u].pc = "record"
    /\ rows' = Append(rows, [machine |-> upload[u].machine, scope |-> IF u \in Raw THEN "machine" ELSE "app_env",
                             sum |-> upload[u].sum, status |-> "ok"])
    /\ upload' = [upload EXCEPT ![u] = Turn(u)]
    /\ UNCHANGED <<hosts, disk, held, temp, verify, edits, asked>>

\* The answer is lost, the second command or the insert fails: the file is there, no row says so.
RecordFails(u) ==
    /\ upload[u].pc \in {"stat", "record"}
    /\ upload' = [upload EXCEPT ![u] = Turn(u)]
    /\ UNCHANGED <<hosts, disk, held, temp, rows, verify, edits, asked>>
-----------------------------------------------------------------------------
(***************************************************************************)
(* Verification.                                                            *)
(***************************************************************************)
IsCurrent(id) == \A newer \in id + 1 .. Len(rows) : rows[newer].machine # rows[id].machine

Current == {id \in DOMAIN rows : IsCurrent(id)}

\* Mutation: the newest row of the path, whatever its machine.
ListCurrentAnywhere ==
    /\ verify["monitor"] = NoPass /\ rows # <<>>
    /\ verify' = [verify EXCEPT !["monitor"] = [pc |-> "stat", ids |-> {Len(rows)}]]
    /\ UNCHANGED <<hosts, disk, held, temp, rows, upload, edits, asked>>

ListCurrent ==
    /\ verify["monitor"] = NoPass /\ rows # <<>>
    /\ verify' = [verify EXCEPT !["monitor"] = [pc |-> "stat", ids |-> Current]]
    /\ UNCHANGED <<hosts, disk, held, temp, rows, upload, edits, asked>>

VerifyAsked(id) ==
    /\ verify["console"] = NoPass /\ id \in DOMAIN rows
    /\ Cardinality(hosts) + asked < MaxSpread /\ asked' = asked + 1
    /\ verify' = [verify EXCEPT !["console"] = [pc |-> "stat", ids |-> {id}]]
    /\ UNCHANGED <<hosts, disk, held, temp, rows, upload, edits>>

Outcome(sum, content) ==
    CASE content = "missing"            -> "missing"
      [] content = "dir"                -> "changed"
      [] sum # "" /\ content = sum      -> "ok"
      [] OTHER                          -> "changed"

Noted(k, status) ==
    /\ verify' = [verify EXCEPT ![k] = [pc |-> "save", ids |-> @.ids, status |-> status]]
    /\ UNCHANGED <<hosts, disk, held, temp, rows, upload, edits, asked>>

\* Rows are verified in the order of their machines.
Row(k) == CHOOSE id \in verify[k].ids : \A other \in verify[k].ids : rows[id].machine <= rows[other].machine

StatFile(k) ==
    /\ verify[k].pc = "stat"
    /\ Noted(k, Outcome(rows[Row(k)].sum, disk[rows[Row(k)].machine]))

StatUnreachable(k) ==
    /\ verify[k].pc = "stat"
    /\ Noted(k, "unreachable")

NextRow(k) ==
    LET ids == verify[k].ids \ {Row(k)}
    IN  verify' = [verify EXCEPT ![k] = IF ids = {} THEN NoPass ELSE [pc |-> "stat", ids |-> ids]]

UpdateVerification(k) ==
    /\ verify[k].pc = "save"
    /\ rows' = [rows EXCEPT ![Row(k)].status = verify[k].status]
    /\ NextRow(k)
    /\ UNCHANGED <<hosts, disk, held, temp, upload, edits, asked>>

UpdateFails(k) ==
    /\ verify[k].pc = "save"
    /\ NextRow(k)
    /\ UNCHANGED <<hosts, disk, held, temp, rows, upload, edits, asked>>

\* The deadline of a pass, or a restart of the control plane, drops the rest of it.
PassEnds(k) ==
    /\ verify[k] # NoPass
    /\ verify' = [verify EXCEPT ![k] = NoPass]
    /\ UNCHANGED <<hosts, disk, held, temp, rows, upload, edits, asked>>

\* CheckEnvFiles, in the log of a deploy to m: the newest upload to the
\* environment, on whatever machine, is what m is expected to hold.
EnvRows == {id \in DOMAIN rows : rows[id].scope = "app_env"}
Expected == rows[CHOOSE id \in EnvRows : \A other \in EnvRows : other <= id].sum
CheckEnvFiles(m) ==
    CASE disk[m] = "missing"            -> "missing"
      [] Sum(disk[m]) = Expected        -> "ok"
      [] OTHER                          -> "changed"

FilesNext ==
    \/ \E m \in hosts, c \in {"missing", "dir"} : EditedByHand(m, c)
    \/ \E u \in Upload :
          \/ \E machines \in SUBSET hosts : UploadToAppEnv(u, machines)
          \/ \E m \in hosts : UploadToMachine(u, m)
    \/ \E u \in Upload :
          \/ \E m \in hosts : PutFile(u, m) \/ Skip(u, m)
          \/ \E m \in hosts : Copied(u, m) \/ Cut(u, m) \/ Abandon(u, m) \/ Rename(u, m) \/ SshMove(u, m)
          \/ SshStat(u) \/ TransferFails(u) \/ RequestEnds(u) \/ RecordUpload(u) \/ RecordFails(u)
    \/ ListCurrent
    \/ \E id \in DOMAIN rows : VerifyAsked(id)
    \/ \E k \in DOMAIN verify :
          \/ StatFile(k) \/ UpdateVerification(k)
          \/ StatUnreachable(k) \/ UpdateFails(k) \/ PassEnds(k)
-----------------------------------------------------------------------------
\* A container that mounts the directory never reads the first part of an upload
\* (WriteAt: temporary file, then rename), whichever transfers are cut and however
\* late a writer whose request has ended is. Machines reached over SSH are
\* excepted: there a transfer that was cut is renamed as if it were whole (Cut).
WholeFilesOnly == \A m \in Machine \ Ssh : disk[m] # "part"

\* A row's checksum is that of a content its machine had at the path, so that
\* "changed" and "missing" name a later change: no failed transfer or rename, late
\* writer or crossing upload leaves a row for what never was there. Over SSH the
\* path may be empty again when the checksum is read, and the row has none.
RecordedWasThere ==
    \A id \in DOMAIN rows :
        LET row == rows[id]
        IN  row.sum \in held[row.machine] /\ (row.machine \in Ssh \/ row.sum # "")

\* The newest row of each machine says how the machine's file compares with it,
\* or that the machine could not be asked; the report of a deploy there agrees
\* when it expects the same content.
StatusIsTrue ==
    \A id \in Current :
        LET row == rows[id]
        IN  row.status # "unreachable" =>
                /\ row.status = Outcome(row.sum, disk[row.machine])
                /\ EnvRows # {} /\ Expected = row.sum /\ row.sum # "" =>
                      CheckEnvFiles(row.machine) = row.status
=============================================================================
