-------------------------------- MODULE Clients --------------------------------
(***************************************************************************)
(* What stands between a user and the services: the event stream of a      *)
(* task (TaskStream), the session in the tabs of a browser (WebSession),   *)
(* the reference images of a page (ReferenceUpload) and the API's          *)
(* recognition of its callers (ApiAuth).                                   *)
(*                                                                         *)
(* They meet at the access token only.  Each part lets it be refused at    *)
(* any moment of which another says when: TaskStream ages its bearer,      *)
(* WebSession answers any first request with 401, ReferenceUpload lets any *)
(* upload fail, ApiAuth refuses claims.  So a behaviour is one of the four *)
(* scenes, with the others at rest: every step a part can take in company  *)
(* it can take in its own scene.                                           *)
(***************************************************************************)
EXTENDS TaskStream, WebSession, ReferenceUpload, ApiAuth

VARIABLE scene  \* the part that moves

vars == <<scene, streamVars, sessionVars, uploadVars, apiVars>>

TypeOK ==
  /\ scene \in {"stream", "session", "upload", "api"}
  /\ StreamTypeOK /\ SessionTypeOK /\ UploadTypeOK /\ ApiTypeOK

Init ==
  /\ scene \in {"stream", "session", "upload", "api"}
  /\ StreamInit /\ SessionInit /\ UploadInit /\ ApiInit

Streaming ==
  /\ scene = "stream" /\ StreamNext
  /\ UNCHANGED <<scene, sessionVars, uploadVars, apiVars>>

Browsing ==
  /\ scene = "session" /\ SessionNext
  /\ UNCHANGED <<scene, streamVars, uploadVars, apiVars>>

Uploading ==
  /\ scene = "upload" /\ UploadNext
  /\ UNCHANGED <<scene, streamVars, sessionVars, apiVars>>

Authenticating ==
  /\ scene = "api" /\ ApiNext
  /\ UNCHANGED <<scene, streamVars, sessionVars, uploadVars>>

Next == Streaming \/ Browsing \/ Uploading \/ Authenticating

Spec == Init /\ [][Next]_vars
===============================================================================
