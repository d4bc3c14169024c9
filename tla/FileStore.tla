------------------------------ MODULE FileStore ------------------------------
(***************************************************************************)
(* What fs/flashfs promises its callers, without the flash.                *)
(*                                                                         *)
(* `files` is what a power cut right now would leave: the contents each    *)
(* name would have after the next mount.  `req` is the call in progress.   *)
(* A call changes only the file it names, in one indivisible step (a       *)
(* rename: in one step, or by adding the new name and then dropping the    *)
(* old one), and a power cut may come at any moment, before the change or  *)
(* after it.                                                               *)
(***************************************************************************)
CONSTANTS
  Names,      \* the file names
  Contents,   \* what a file can hold
  Absent      \* the "contents" of a file that does not exist

VARIABLES files, req

storeVars == <<files, req>>

NoRequest == [kind |-> "none", name |-> Absent, to |-> Absent, body |-> Absent]

Requests ==
       [kind : {"put"}, name : Names, to : {Absent}, body : Contents]
  \cup [kind : {"remove"}, name : Names, to : {Absent}, body : {Absent}]
  \cup [kind : {"rename"}, name : Names, to : Names, body : {Absent}]

StoreTypeOK ==
  /\ files \in [Names -> Contents \cup {Absent}]
  /\ req \in Requests \cup {NoRequest}

StoreInit == files = [n \in Names |-> Absent] /\ req = NoRequest

(* A call is made.  A rename needs a file to rename and a free name.       *)
Call ==
  /\ req = NoRequest
  /\ req' \in Requests
  /\ req'.kind = "rename" => files[req'.name] # Absent /\ files[req'.to] = Absent
  /\ UNCHANGED files

(* The call returns (with either result), or a power cut forgets it; the   *)
(* actions below may do so too, in the step that changes the files.        *)
Return == req # NoRequest /\ req' = NoRequest /\ UNCHANGED files

Put ==
  /\ req.kind = "put"
  /\ files' = [files EXCEPT ![req.name] = req.body]
  /\ req' \in {req, NoRequest}

Remove ==
  /\ req.kind = "remove"
  /\ files' = [files EXCEPT ![req.name] = Absent]
  /\ req' \in {req, NoRequest}

(* Both names hold the file.                                               *)
Link ==
  /\ req.kind = "rename"
  /\ files[req.to] = Absent
  /\ files' = [files EXCEPT ![req.to] = files[req.name]]
  /\ req' \in {req, NoRequest}

(* The old name goes, but only once the new one holds the same contents.   *)
Unlink ==
  /\ req.kind = "rename"
  /\ files[req.to] = files[req.name]
  /\ files' = [files EXCEPT ![req.name] = Absent]
  /\ req' \in {req, NoRequest}

Move ==
  /\ req.kind = "rename"
  /\ files[req.to] = Absent
  /\ files' = [files EXCEPT ![req.to] = files[req.name], ![req.name] = Absent]
  /\ req' \in {req, NoRequest}

StoreNext == Call \/ Return \/ Put \/ Remove \/ Link \/ Unlink \/ Move

StoreSpec == StoreInit /\ [][StoreNext]_storeVars
=============================================================================
