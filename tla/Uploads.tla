------------------------------- MODULE Uploads -------------------------------
(***************************************************************************)
(* The upload of a reference image of a creation session, or of a mask of  *)
(* a character: the file is stored first, then its row is inserted, and    *)
(* whatever goes wrong in between removes the file again.  The REST        *)
(* routes and the tools character.create and alias.add share the shape.    *)
(* One upload per character; validation of the bytes changes nothing and   *)
(* is left out.                                                            *)
(***************************************************************************)
EXTENDS Characters

CONSTANT Uploaders  \* characters a user uploads to (bounds the model)

VARIABLES upload,    \* [Calls -> where the upload to this character is]
          media,     \* [Calls -> "reference" or "mask"]
          blobs,     \* uploads whose file is stored
          uploaded,  \* uploads whose row is committed
          strays,    \* files a dead process or a failed delete left (history)
          unsure     \* uploads whose commit reply was lost (history)

uploadVars == <<upload, media, blobs, uploaded, strays, unsure>>

UploadSteps == {"idle", "put", "insert", "sweep", "kept", "refused"}

UploadsTypeOK ==
  /\ upload \in [Calls -> UploadSteps]
  /\ media \in [Calls -> {"reference", "mask"}]
  /\ blobs \subseteq Calls /\ uploaded \subseteq Calls
  /\ strays \subseteq blobs /\ unsure \subseteq uploaded

UploadsInit ==
  /\ upload = [c \in Calls |-> "idle"]
  /\ media = [c \in Calls |-> "reference"]
  /\ blobs = {} /\ uploaded = {} /\ strays = {} /\ unsure = {}

-----------------------------------------------------------------------------
SetUpload(c, u) == upload' = [upload EXCEPT ![c] = u]

\* assert_session_writable for a reference, the ownership gate for a mask.
Writable(c, m) == Live(c) /\ (m = "reference" => session[c] = "in_progress")

\* The gate in a session of its own, before the body is read.
BeginUpload(c, m) ==
  /\ upload[c] = "idle"
  /\ Writable(c, m)
  /\ SetUpload(c, "put")
  /\ media' = [media EXCEPT ![c] = m]
  /\ UNCHANGED <<blobs, uploaded, strays, unsure, faults>>

\* storage.put writes a temporary file and renames it: a failure leaves nothing.
PutFile(c) ==
  /\ upload[c] = "put"
  /\ \/ blobs' = blobs \cup {c} /\ SetUpload(c, "insert") /\ UNCHANGED faults
     \/ Fault("storage") /\ SetUpload(c, "refused") /\ UNCHANGED blobs
  /\ UNCHANGED <<media, uploaded, strays, unsure>>

\* upload_reference_image gates again; the insert of a mask does not.
InsertUpload(c) ==
  /\ upload[c] = "insert"
  /\ IF media[c] = "reference" /\ ~Writable(c, "reference")
     THEN SetUpload(c, "sweep") /\ UNCHANGED uploaded
     ELSE SetUpload(c, "kept") /\ uploaded' = uploaded \cup {c}
  /\ UNCHANGED <<media, blobs, strays, unsure, faults>>

\* Variant: `except Exception`, which an interrupted request passes.
InsertCut(c) ==
  /\ upload[c] = "insert"
  /\ UNCHANGED <<media, blobs, strays>>
  /\ \/ (Fault("db") /\ SetUpload(c, "sweep")) \/ (Fault("disconnect") /\ SetUpload(c, "refused"))
  /\ UNCHANGED <<uploaded, unsure>>

\* An exception, CancelledError included, at the commit or before it; the commit
\* may be durable all the same.
InsertFails(c) ==
  /\ upload[c] = "insert"
  /\ SetUpload(c, "sweep")
  /\ \/ (Fault("db") \/ Fault("disconnect")) /\ UNCHANGED <<uploaded, unsure>>
     \/ /\ Fault("lost_commit")
        /\ Writable(c, media[c]) \/ media[c] = "mask"
        /\ uploaded' = uploaded \cup {c}
        /\ unsure' = unsure \cup {c}
  /\ UNCHANGED <<media, blobs, strays>>

\* The `except BaseException` of the upload.
SweepUpload(c) ==
  /\ upload[c] = "sweep"
  /\ SetUpload(c, "refused")
  /\ \/ blobs' = blobs \ {c} /\ UNCHANGED <<strays, faults>>
     \/ Fault("storage") /\ strays' = strays \cup {c} /\ UNCHANGED blobs
  /\ UNCHANGED <<media, uploaded, unsure>>

\* What a dead process leaves.
UploadStops(c) ==
  IF upload[c] \in {"put", "insert", "sweep"}
  THEN /\ SetUpload(c, "refused")
       /\ strays' = strays \cup ({c} \cap (blobs \ uploaded))
       /\ UNCHANGED <<media, blobs, uploaded, unsure>>
  ELSE UNCHANGED uploadVars

UploadCrash(c) == upload[c] \in {"put", "insert", "sweep"} /\ Fault("crash") /\ UploadStops(c)

UploadStep(c) == PutFile(c) \/ InsertUpload(c) \/ InsertFails(c) \/ SweepUpload(c)

-----------------------------------------------------------------------------
\* A file without a row, or a row without a file, has a named cause: an upload still
\* on its way, a dead process, a failed delete, a lost commit reply; and a fork that
\* is visible has its image.
FilesMatchRows ==
  /\ \A c \in blobs \ uploaded : c \in strays \/ upload[c] \in {"insert", "sweep"}
  /\ \A c \in uploaded \ blobs : c \in unsure
  /\ \A c \in Calls : kind[c] = "fork" /\ life[c] \in {"live", "deleted", "gone"} => c \in images
=============================================================================
