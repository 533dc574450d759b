--------------------------- MODULE ModelDownload ----------------------------
(***************************************************************************)
(* One whisper model: its WhisperModel row, its file and temporary file,   *)
(* the calls of startDownload, a cancel, a delete, the transcription       *)
(* worker that checks the model before it uses it, and the model page that *)
(* offers these operations (services/whisperModels.ts, ModelManagerPage).  *)
(*                                                                         *)
(* A file is abstracted to its length in blocks and to whether they are    *)
(* the right ones.  Steps are the stretches between two awaits.            *)
(***************************************************************************)
EXTENDS Naturals

CONSTANTS
  N,          \* blocks of the model file
  Call,       \* calls of startDownload that may be in progress together
  NoCall,
  MaxFaults,  \* bound: network and database errors
  MaxCrashes  \* bound: how often the app dies

ASSUME ModelDownloadAssumption ==
  /\ N \in Nat \ {0}
  /\ NoCall \notin Call
  /\ MaxFaults \in Nat /\ MaxCrashes \in Nat

VARIABLES
  row,     \* state and localPath of the row
  tmp,     \* <model>.download: size, and whether the blocks on disk and
           \* in the stream are the beginning of the model
  stream,  \* blocks written to the stream that are not on disk yet
  file,    \* the file under its final name: none, whole, broken
  active,  \* activeDownloads: the call that registered a controller
  aborted, \* the signal of that controller
  call,    \* calls: step, whether the row was READY when it was read, next
           \* block, the state the call will leave
  del,     \* deleteModel: step, whether localPath was read
  use,     \* the worker between getReadyModel and its checksum
  page,    \* the state the model page shows, or closed
  orphaned,\* history: since the row was last marked, the app died or the
           \* update that ends a download failed
  faults, crashes

fileVars == <<tmp, stream, file>>
mapVars == <<active, aborted>>
boundVars == <<orphaned, faults, crashes>>
vars == <<row, fileVars, mapVars, call, del, use, page, boundVars>>

State == {"AVAILABLE", "DOWNLOADING", "READY", "ERROR"}
Idle == [pc |-> "idle", ready |-> FALSE, next |-> 0, leave |-> "ERROR"]
NoTmp == [size |-> 0, sound |-> TRUE]
WholeTmp == tmp.size = N /\ tmp.sound

(* ensureDefaults creates the row; it never changes the state of one.      *)
Init ==
  /\ row = [state |-> "AVAILABLE", path |-> FALSE]
  /\ tmp = NoTmp /\ stream = 0 /\ file = "none"
  /\ active = NoCall /\ aborted = FALSE
  /\ call = [c \in Call |-> Idle]
  /\ del = [pc |-> "idle", path |-> FALSE]
  /\ use = "idle"
  /\ page = "closed" /\ orphaned = FALSE
  /\ faults = 0 /\ crashes = 0

Fault == faults < MaxFaults /\ faults' = faults + 1

-----------------------------------------------------------------------------
(* The page.                                                               *)

(* The buttons: Cancel also once a progress message came.                  *)
Downloading ==
  \/ page = "DOWNLOADING"
  \/ page # "closed" /\ \E c \in Call : call[c].pc = "data" /\ call[c].next > 1
OffersDownload == page \in {"AVAILABLE", "ERROR"}

(* listModels: the page is opened, or loads again after a cancel, a delete *)
(* or the last progress message.                                           *)
LoadModels ==
  /\ page' = row.state
  /\ UNCHANGED <<row, fileVars, mapVars, call, del, use, boundVars>>

(* Download is pressed; the handler does not wait for startDownload, and   *)
(* the page keeps showing the button.                                      *)
Begin(c) ==
  /\ OffersDownload /\ call[c].pc = "idle"
  /\ call' = [call EXCEPT ![c].pc = "read"]
  /\ UNCHANGED <<row, fileVars, mapVars, del, use, page, boundVars>>

(* Cancel is pressed: the signal is set, data events will look at it.      *)
Cancel ==
  /\ Downloading
  /\ aborted' = (aborted \/ active # NoCall)
  /\ UNCHANGED <<row, fileVars, active, call, del, use, page, boundVars>>

-----------------------------------------------------------------------------
(* startDownload                                                           *)

ReadRow(c) ==
  /\ call[c].pc = "read"
  /\ call' = [call EXCEPT ![c].pc = "check", ![c].ready = row.state = "READY"]
  /\ UNCHANGED <<row, fileVars, mapVars, del, use, page, boundVars>>

(* Variant: nobody looks at activeDownloads before registering.            *)
RegisterAnyway(c) ==
  /\ call[c].pc = "check"
  /\ IF call[c].ready
     THEN /\ call' = [call EXCEPT ![c] = Idle]
          /\ UNCHANGED mapVars
     ELSE /\ active' = c /\ aborted' = FALSE
          /\ call' = [call EXCEPT ![c].pc = "mark"]
  /\ UNCHANGED <<row, fileVars, del, use, page, boundVars>>

(* After the await: the row was READY, or a download is active, or this    *)
(* call registers its controller.                                          *)
Register(c) ==
  /\ call[c].pc = "check"
  /\ IF call[c].ready \/ active # NoCall
     THEN /\ call' = [call EXCEPT ![c] = Idle]
          /\ UNCHANGED mapVars
     ELSE /\ active' = c /\ aborted' = FALSE
          /\ call' = [call EXCEPT ![c].pc = "mark"]
  /\ UNCHANGED <<row, fileVars, del, use, page, boundVars>>

(* The row is DOWNLOADING; the request asks for what the temporary file    *)
(* lacks.  What an earlier download wrote has reached the disk by then.    *)
Mark(c) ==
  /\ call[c].pc = "mark" /\ stream = 0
  /\ row' = [row EXCEPT !.state = "DOWNLOADING"] /\ orphaned' = FALSE
  /\ call' = [call EXCEPT ![c].pc = "request", ![c].next = tmp.size + 1]
  /\ UNCHANGED <<fileVars, mapVars, del, use, page, faults, crashes>>

(* That update is outside the try: an error leaves the controller behind.  *)
MarkFails(c) ==
  /\ call[c].pc = "mark" /\ Fault
  /\ call' = [call EXCEPT ![c] = Idle]
  /\ UNCHANGED <<row, fileVars, mapVars, del, use, page, orphaned, crashes>>

Leave(c, state) ==
  call' = [call EXCEPT ![c] = [Idle EXCEPT !.pc = "finish", !.leave = state]]

(* handleResponse.  A range past the end is answered with an error; the    *)
(* server may also ignore the range, and the stream appends all the same.  *)
Respond(c) ==
  /\ call[c].pc = "request"
  /\ IF call[c].next > N
     THEN Leave(c, "ERROR") /\ UNCHANGED tmp
     ELSE \/ /\ call' = [call EXCEPT ![c].pc = "data"]
             /\ UNCHANGED tmp
          \/ /\ call[c].next > 1
             /\ call' = [call EXCEPT ![c].pc = "data", ![c].next = 1]
             /\ tmp' = [tmp EXCEPT !.sound = FALSE]
  /\ UNCHANGED <<row, stream, file, mapVars, del, use, page, boundVars>>

(* Variant: an aborted response is destroyed and nobody is told.           *)
DataDropped(c) ==
  /\ call[c].pc = "data" /\ call[c].next <= N /\ ~aborted
  /\ stream' = stream + 1
  /\ call' = [call EXCEPT ![c].next = @ + 1]
  /\ UNCHANGED <<row, tmp, file, mapVars, del, use, page, boundVars>>

(* A data event: an aborted download stops, else the block is written.     *)
Data(c) ==
  /\ call[c].pc = "data" /\ call[c].next <= N
  /\ IF aborted
     THEN Leave(c, "AVAILABLE") /\ UNCHANGED stream
     ELSE /\ stream' = stream + 1
          /\ call' = [call EXCEPT ![c].next = @ + 1]
  /\ UNCHANGED <<row, tmp, file, mapVars, del, use, page, boundVars>>

(* The stream writes a block to the temporary file, in its own time.       *)
Flush ==
  /\ stream > 0
  /\ stream' = stream - 1
  /\ tmp' = [tmp EXCEPT !.size = @ + 1]
  /\ UNCHANGED <<row, file, mapVars, call, del, use, page, boundVars>>

(* The end event closes the stream and does not wait for it.               *)
End(c) ==
  /\ call[c].pc = "data" /\ call[c].next > N
  /\ call' = [call EXCEPT ![c].pc = "verify", ![c].next = 0]
  /\ UNCHANGED <<row, fileVars, mapVars, del, use, page, boundVars>>

(* The request or the response fails.                                      *)
NetworkError(c) ==
  /\ call[c].pc \in {"request", "data"} /\ Fault
  /\ Leave(c, "ERROR")
  /\ UNCHANGED <<row, fileVars, mapVars, del, use, page, orphaned, crashes>>

(* No event comes any more: a silent connection, for which there is no     *)
(* timeout, or an error of the redirected request, which has no listener.  *)
Hang(c) ==
  /\ call[c].pc \in {"request", "data"} /\ Fault
  /\ call' = [call EXCEPT ![c].pc = "hung"]
  /\ UNCHANGED <<row, fileVars, mapVars, del, use, page, orphaned, crashes>>

(* Variant: the size decides.                                              *)
VerifySize(c) ==
  /\ call[c].pc = "verify"
  /\ IF tmp.size >= N
     THEN /\ call' = [call EXCEPT ![c].pc = "rename"]
          /\ UNCHANGED <<tmp, stream>>
     ELSE /\ Leave(c, "ERROR") /\ tmp' = NoTmp /\ stream' = 0
  /\ UNCHANGED <<row, file, mapVars, del, use, page, boundVars>>

(* verifyIntegrity of what is on disk.  A file that fails is removed, with *)
(* what the stream still writes to it.                                     *)
Verify(c) ==
  /\ call[c].pc = "verify"
  /\ IF WholeTmp
     THEN /\ call' = [call EXCEPT ![c].pc = "rename"]
          /\ UNCHANGED <<tmp, stream>>
     ELSE /\ Leave(c, "ERROR") /\ tmp' = NoTmp /\ stream' = 0
  /\ UNCHANGED <<row, file, mapVars, del, use, page, boundVars>>

Rename(c) ==
  /\ call[c].pc = "rename"
  /\ file' = IF WholeTmp /\ stream = 0 THEN "whole" ELSE "broken"
  /\ tmp' = NoTmp /\ stream' = 0
  /\ Leave(c, "READY")
  /\ UNCHANGED <<row, mapVars, del, use, page, boundVars>>

(* Variant: a cancelled download leaves its row alone.                     *)
FinishSilently(c) ==
  /\ call[c].pc = "finish"
  /\ row' = IF call[c].leave = "AVAILABLE" THEN row
            ELSE [state |-> call[c].leave,
                  path |-> row.path \/ call[c].leave = "READY"]
  /\ call' = [call EXCEPT ![c] = Idle]
  /\ active' = NoCall /\ aborted' = FALSE
  /\ UNCHANGED <<fileVars, del, use, page, boundVars>>

(* The last update of the row, and finally.                                *)
Finish(c) ==
  /\ call[c].pc = "finish"
  /\ row' = [state |-> call[c].leave,
             path |-> row.path \/ call[c].leave = "READY"]
  /\ call' = [call EXCEPT ![c] = Idle]
  /\ active' = NoCall /\ aborted' = FALSE
  /\ UNCHANGED <<fileVars, del, use, page, boundVars>>

(* An update to READY that fails is caught, and the row is to say ERROR;   *)
(* of an update in the catch that fails only finally is left.              *)
FinishFails(c) ==
  /\ call[c].pc = "finish" /\ Fault
  /\ IF call[c].leave = "READY"
     THEN Leave(c, "ERROR") /\ UNCHANGED <<mapVars, orphaned>>
     ELSE /\ call' = [call EXCEPT ![c] = Idle]
          /\ active' = NoCall /\ aborted' = FALSE /\ orphaned' = TRUE
  /\ UNCHANGED <<row, fileVars, del, use, page, crashes>>

-----------------------------------------------------------------------------
(* deleteModel: read the row, remove the file, update the row.             *)

DeleteRead ==
  /\ page = "READY" /\ del.pc = "idle"
  /\ del' = [pc |-> "unlink", path |-> row.path]
  /\ UNCHANGED <<row, fileVars, mapVars, call, use, page, boundVars>>

DeleteFile ==
  /\ del.pc = "unlink"
  /\ file' = IF del.path THEN "none" ELSE file
  /\ del' = [del EXCEPT !.pc = "update"]
  /\ UNCHANGED <<row, tmp, stream, mapVars, call, use, page, boundVars>>

DeleteRow ==
  /\ del.pc = "update"
  /\ row' = [state |-> "AVAILABLE", path |-> FALSE]
  /\ del' = [pc |-> "idle", path |-> FALSE]
  /\ UNCHANGED <<fileVars, mapVars, call, use, page, boundVars>>

-----------------------------------------------------------------------------
(* processTranscribeJob: getReadyModel, then the checksum.                 *)

UseRead ==
  /\ use = "idle" /\ row.state = "READY" /\ row.path
  /\ use' = "check"
  /\ UNCHANGED <<row, fileVars, mapVars, call, del, page, boundVars>>

(* A model that fails it is set to ERROR, whatever its row says by now.    *)
UseCheck ==
  /\ use = "check"
  /\ use' = "idle"
  /\ row' = IF file = "whole" THEN row ELSE [row EXCEPT !.state = "ERROR"]
  /\ UNCHANGED <<fileVars, mapVars, call, del, page, boundVars>>

(* The app dies and starts again: what was only in memory is gone.         *)
Crash ==
  /\ crashes < MaxCrashes
  /\ crashes' = crashes + 1
  /\ stream' = 0
  /\ active' = NoCall /\ aborted' = FALSE
  /\ call' = [c \in Call |-> Idle]
  /\ del' = [pc |-> "idle", path |-> FALSE]
  /\ use' = "idle"
  /\ page' = "closed" /\ orphaned' = TRUE
  /\ UNCHANGED <<row, tmp, file, faults>>

-----------------------------------------------------------------------------
Runs(c) ==
  \/ ReadRow(c) \/ Register(c) \/ Mark(c) \/ Respond(c) \/ Data(c)
  \/ End(c) \/ Verify(c) \/ Rename(c) \/ Finish(c)

Next ==
  \/ LoadModels \/ Cancel
  \/ \E c \in Call : Begin(c) \/ Runs(c)
                     \/ MarkFails(c) \/ NetworkError(c) \/ Hang(c)
                     \/ FinishFails(c)
  \/ Flush
  \/ DeleteRead \/ DeleteFile \/ DeleteRow
  \/ UseRead \/ UseCheck
  \/ Crash

Spec == Init /\ [][Next]_vars

(* A call that is not waiting for a dead connection goes on; streams write *)
(* what they were given.  Nobody has to press a button, nothing has to     *)
(* fail or die.                                                            *)
FairSpec ==
  /\ Spec
  /\ WF_vars(Flush)
  /\ \A c \in Call : WF_vars(Runs(c))

-----------------------------------------------------------------------------
Transfer == {"request", "data", "hung", "verify", "rename", "finish"}

(* Rows, files, calls and page are in their domains, and no block is       *)
(* counted that was not sent.                                              *)
TypeOK ==
  /\ row \in [state : State, path : BOOLEAN]
  /\ tmp \in [size : Nat, sound : BOOLEAN]
  /\ stream \in Nat
  /\ file \in {"none", "whole", "broken"}
  /\ active \in Call \cup {NoCall}
  /\ aborted \in BOOLEAN
  /\ call \in [Call -> [pc : {"idle", "read", "check", "mark"} \cup Transfer,
                        ready : BOOLEAN, next : Nat, leave : State]]
  /\ del \in [pc : {"idle", "unlink", "update"}, path : BOOLEAN]
  /\ use \in {"idle", "check"}
  /\ page \in State \cup {"closed"} /\ orphaned \in BOOLEAN
  /\ faults \in 0 .. MaxFaults /\ crashes \in 0 .. MaxCrashes

(* Two calls never write the temporary file together, although each reads  *)
(* the row and waits before it looks at activeDownloads.                   *)
OneDownload ==
  \A c, d \in Call :
    {call[c].pc, call[d].pc} \subseteq {"mark"} \cup Transfer => c = d

(* "SHA-256 integrity verification": only a whole model gets the final     *)
(* name, whatever was resumed, cut off, ignored by the server or not yet   *)
(* on disk when it was hashed.                                             *)
OnlyWholeModels == file # "broken"

(* A row says DOWNLOADING only while a controller is registered that can   *)
(* be asked to stop, or if, since it was made to say so, the app died or   *)
(* the database refused the update in the catch, the two cases in which    *)
(* finally or the crash takes the controller and the row stays as it is.   *)
DownloadingIsOwned ==
  row.state = "DOWNLOADING" => active # NoCall \/ orphaned

(* Every call comes to its end, or waits for a connection that died.       *)
DownloadsEnd ==
  \A c \in Call : call[c].pc # "idle" ~> call[c].pc \in {"idle", "hung"}
=============================================================================
