------------------------ MODULE ModelDownloadProofs -------------------------
(***************************************************************************)
(* Proofs about ModelDownload, for every size of the model, every number   *)
(* of calls of startDownload, and any number of errors and crashes.        *)
(*                                                                         *)
(* Everything rests on activeDownloads: a call that went past its check is *)
(* the registered one (Owned), so two of them are one.  Then the temporary *)
(* file has one writer, and what it holds together with the stream can be  *)
(* told from the next block the call expects (Progress): a file that       *)
(* passes the checksum leaves nothing in the stream.                       *)
(***************************************************************************)
EXTENDS ModelDownload, TLAPS

Busy(c) == call[c].pc \in {"mark"} \cup Transfer

Owned == \A c \in Call : Busy(c) => active = c

(* No call leaves a row that says DOWNLOADING. *)
Leaves == \A c \in Call : call[c].leave # "DOWNLOADING"

(* What is on disk and in the stream, as long as it is the beginning of    *)
(* the model.                                                              *)
Progress(c) ==
  /\ call[c].pc = "request" => stream = 0 /\ call[c].next = tmp.size + 1
  /\ call[c].pc = "data" =>
       /\ call[c].next \in 1 .. N + 1
       /\ tmp.sound => tmp.size + stream = call[c].next - 1
  /\ call[c].pc = "verify" /\ tmp.sound => tmp.size + stream = N
  /\ call[c].pc = "rename" => WholeTmp /\ stream = 0

IInv ==
  /\ TypeOK
  /\ Owned
  /\ Leaves
  /\ \A c \in Call : Progress(c)
  /\ OnlyWholeModels
  /\ DownloadingIsOwned

CallRecord == [pc : {"idle", "read", "check", "mark"} \cup Transfer,
               ready : BOOLEAN, next : Nat, leave : State]
-----------------------------------------------------------------------------
LEMMA IdleType ==
  Idle \in CallRecord /\ Idle.pc = "idle" /\ Idle.leave = "ERROR"
  BY DEF Idle, CallRecord, State

LEMMA LeaveType ==
  ASSUME NEW s \in State
  PROVE  /\ [Idle EXCEPT !.pc = "finish", !.leave = s] \in CallRecord
         /\ [Idle EXCEPT !.pc = "finish", !.leave = s].pc = "finish"
         /\ [Idle EXCEPT !.pc = "finish", !.leave = s].leave = s
  BY DEF Idle, CallRecord, State, Transfer

(* A step of one call writes one record.                                   *)
LEMMA CallUpdate ==
  ASSUME call \in [Call -> CallRecord], NEW c \in Call, NEW x \in CallRecord,
         call' = [call EXCEPT ![c] = x]
  PROVE  /\ call' \in [Call -> CallRecord]
         /\ call'[c] = x
         /\ \A d \in Call : d # c => call'[d] = call[d]
  OBVIOUS

LEMMA RecordUpdates ==
  ASSUME NEW x \in CallRecord
  PROVE  /\ \A p \in {"idle", "read", "check", "mark"} \cup Transfer :
              [x EXCEPT !.pc = p] \in CallRecord
         /\ \A b \in BOOLEAN :
              [x EXCEPT !.pc = "check", !.ready = b] \in CallRecord
         /\ \A n \in Nat : [x EXCEPT !.next = n] \in CallRecord
  BY DEF CallRecord

LEMMA NextUpdate ==
  ASSUME NEW x \in CallRecord, NEW n \in Nat,
         NEW p \in {"idle", "read", "check", "mark"} \cup Transfer
  PROVE  [x EXCEPT !.pc = p, !.next = n] \in CallRecord
  BY DEF CallRecord
-----------------------------------------------------------------------------
(* Steps of a call.  Each writes the record of the call, and of the rest   *)
(* what its action says.                                                   *)

LEMMA IInvParts ==
  ASSUME IInv
  PROVE  /\ call \in [Call -> CallRecord]
         /\ \A c \in Call : call[c] \in CallRecord
         /\ row \in [state : State, path : BOOLEAN]
         /\ tmp \in [size : Nat, sound : BOOLEAN] /\ stream \in Nat
         /\ N \in Nat /\ N # 0 /\ NoCall \notin Call
  BY ModelDownloadAssumption DEF IInv, TypeOK, CallRecord

(* A call that moves between steps at which it does not write, while       *)
(* everything else stays.                                                  *)
LEMMA QuietMove ==
  ASSUME IInv, NEW c \in Call, NEW x \in CallRecord,
         call' = [call EXCEPT ![c] = x],
         x.pc \in {"idle", "read", "check"} \/ (x.pc \in {"hung", "finish"}
                                                  /\ Busy(c)),
         x.leave # "DOWNLOADING",
         UNCHANGED <<row, fileVars, mapVars, del, use, page, orphaned>>,
         UNCHANGED crashes,
         faults' \in 0 .. MaxFaults
  PROVE  IInv'
<1>1. /\ call' \in [Call -> CallRecord] /\ call'[c] = x
      /\ \A d \in Call : d # c => call'[d] = call[d]
  BY IInvParts, CallUpdate
<1>2. TypeOK'
  BY <1>1 DEF IInv, TypeOK, CallRecord, fileVars, mapVars
<1>3. Owned' /\ Leaves'
  BY <1>1 DEF IInv, Owned, Leaves, Busy, mapVars, Transfer
<1>4. \A d \in Call : Progress(d)'
  <2> SUFFICES ASSUME NEW d \in Call PROVE Progress(d)'
    OBVIOUS
  <2>1. CASE d = c
    BY <1>1, <2>1 DEF Progress
  <2>2. CASE d # c
    BY <1>1, <2>2 DEF IInv, Progress, WholeTmp, fileVars
  <2> QED
    BY <2>1, <2>2
<1>5. OnlyWholeModels' /\ DownloadingIsOwned'
  BY DEF IInv, OnlyWholeModels, DownloadingIsOwned, fileVars, mapVars
<1> QED
  BY <1>2, <1>3, <1>4, <1>5 DEF IInv

LEMMA FaultType == ASSUME TypeOK, Fault PROVE faults' \in 0 .. MaxFaults
  BY ModelDownloadAssumption DEF TypeOK, Fault

LEMMA QuietSteps ==
  ASSUME IInv, NEW c \in Call,
         Begin(c) \/ ReadRow(c) \/ MarkFails(c) \/ NetworkError(c) \/ Hang(c)
  PROVE  IInv'
<1> USE IInvParts
<1>0. call[c] \in CallRecord /\ call[c].leave # "DOWNLOADING" /\ TypeOK
  BY DEF IInv, Leaves
<1>1. CASE Begin(c)
  <2> DEFINE x == [call[c] EXCEPT !.pc = "read"]
  <2>1. /\ x \in CallRecord /\ x.pc = "read" /\ x.leave = call[c].leave
        /\ call' = [call EXCEPT ![c] = x]
    BY <1>0, <1>1, RecordUpdates DEF Begin, CallRecord
  <2> HIDE DEF x
  <2> QED
    BY <1>0, <1>1, <2>1, QuietMove DEF Begin, boundVars, TypeOK
<1>2. CASE ReadRow(c)
  <2> DEFINE b == row.state = "READY"
             x == [call[c] EXCEPT !.pc = "check", !.ready = b]
  <2>1. b \in BOOLEAN
    OBVIOUS
  <2>2. call' = [call EXCEPT ![c] = x]
    BY <1>0, <1>2 DEF ReadRow
  <2> HIDE DEF b
  <2>3. x \in CallRecord /\ x.pc = "check" /\ x.leave = call[c].leave
    BY <1>0, <2>1, RecordUpdates DEF CallRecord
  <2> HIDE DEF x
  <2> QED
    BY <1>0, <1>2, <2>2, <2>3, QuietMove DEF ReadRow, boundVars, TypeOK
<1>3. CASE MarkFails(c)
  BY <1>0, <1>3, IdleType, FaultType, QuietMove DEF MarkFails
<1>4. CASE NetworkError(c)
  <2> DEFINE x == [Idle EXCEPT !.pc = "finish", !.leave = "ERROR"]
  <2>1. x \in CallRecord /\ x.pc = "finish" /\ x.leave = "ERROR"
    BY LeaveType DEF State
  <2>2. Busy(c) /\ call' = [call EXCEPT ![c] = x]
    BY <1>4 DEF NetworkError, Leave, Busy, Transfer
  <2> HIDE DEF x
  <2> QED
    BY <1>0, <1>4, <2>1, <2>2, FaultType, QuietMove DEF NetworkError
<1>5. CASE Hang(c)
  <2> DEFINE x == [call[c] EXCEPT !.pc = "hung"]
  <2>1. x \in CallRecord /\ x.pc = "hung" /\ x.leave = call[c].leave
    BY <1>0, RecordUpdates DEF CallRecord, Transfer
  <2>2. Busy(c) /\ call' = [call EXCEPT ![c] = x]
    BY <1>5 DEF Hang, Busy, Transfer
  <2> HIDE DEF x
  <2> QED
    BY <1>0, <1>5, <2>1, <2>2, FaultType, QuietMove DEF Hang
<1> QED
  BY <1>1, <1>2, <1>3, <1>4, <1>5

(* A call at work is the registered one, so the others may be ignored.     *)
LEMMA OwnerMove ==
  ASSUME IInv, NEW c \in Call, NEW x \in CallRecord, Busy(c),
         call' = [call EXCEPT ![c] = x], x.pc \in Transfer,
         x.leave # "DOWNLOADING",
         row' \in [state : State, path : BOOLEAN],
         tmp' \in [size : Nat, sound : BOOLEAN], stream' \in Nat,
         file' \in {"none", "whole"},
         Progress(c)',
         orphaned' \in BOOLEAN,
         UNCHANGED <<mapVars, del, use, page, faults, crashes>>
  PROVE  IInv'
<1>1. /\ call' \in [Call -> CallRecord] /\ call'[c] = x
      /\ \A d \in Call : d # c => call'[d] = call[d]
  BY IInvParts, CallUpdate
<1>2. active = c /\ c # NoCall
  BY IInvParts DEF IInv, Owned
<1>3. TypeOK'
  BY <1>1 DEF IInv, TypeOK, CallRecord, mapVars
<1>4. Owned' /\ Leaves'
  BY <1>1, <1>2 DEF IInv, Owned, Leaves, Busy, mapVars, Transfer
<1>5. \A d \in Call : Progress(d)'
  <2> SUFFICES ASSUME NEW d \in Call, d # c PROVE Progress(d)'
    OBVIOUS
  <2>1. call'[d] = call[d] /\ ~Busy(d)
    BY <1>1, <1>2 DEF IInv, Owned
  <2> QED
    BY <2>1 DEF Progress, Busy, Transfer
<1>6. OnlyWholeModels' /\ DownloadingIsOwned'
  BY <1>2 DEF OnlyWholeModels, DownloadingIsOwned, mapVars
<1> QED
  BY <1>3, <1>4, <1>5, <1>6 DEF IInv

(* What the bookkeeping of c says, with the definitions out of the way.    *)
LEMMA OwnerFacts ==
  ASSUME IInv, NEW c \in Call
  PROVE  /\ call[c] \in CallRecord /\ call[c].leave # "DOWNLOADING"
         /\ call[c].next \in Nat
         /\ file \in {"none", "whole"}
         /\ Progress(c)
         /\ tmp.size \in Nat /\ tmp.sound \in BOOLEAN
         /\ NoTmp \in [size : Nat, sound : BOOLEAN]
<1>1. call[c] \in CallRecord /\ Progress(c) /\ call[c].leave # "DOWNLOADING"
  BY IInvParts DEF IInv, Leaves
<1>2. call[c].next \in Nat
  BY <1>1 DEF CallRecord
<1>3. file \in {"none", "whole"}
  BY DEF IInv, TypeOK, OnlyWholeModels
<1>4. tmp.size \in Nat /\ tmp.sound \in BOOLEAN
  BY IInvParts
<1> QED
  BY <1>1, <1>2, <1>3, <1>4 DEF NoTmp

LEMMA MarkStep ==
  ASSUME IInv, NEW c \in Call, Mark(c)  PROVE IInv'
<1> USE OwnerFacts, IInvParts
<1> DEFINE n == tmp.size + 1
           x == [call[c] EXCEPT !.pc = "request", !.next = n]
<1>1. n \in Nat /\ n = tmp.size + 1
  OBVIOUS
<1>2. call' = [call EXCEPT ![c] = x]
  BY DEF Mark
<1> HIDE DEF n
<1>3. /\ x \in CallRecord /\ x.pc = "request" /\ x.next = n
      /\ x.leave = call[c].leave
  BY <1>1, NextUpdate DEF CallRecord, Transfer
<1> HIDE DEF x
<1>4. row' \in [state : State, path : BOOLEAN]
  BY DEF Mark, State
<1>5. Busy(c)
  BY DEF Mark, Busy
<1>6. call'[c] = x
  BY <1>2, <1>3, CallUpdate
<1>7. /\ UNCHANGED <<tmp, stream, file, mapVars, del, use, page, faults,
                  crashes>>
      /\ stream = 0 /\ orphaned' \in BOOLEAN
  BY DEF Mark, fileVars
<1>8. Progress(c)'
  BY <1>1, <1>3, <1>6, <1>7 DEF Progress
<1>9. tmp' \in [size : Nat, sound : BOOLEAN] /\ stream' \in Nat
      /\ file' \in {"none", "whole"} /\ x.pc \in Transfer
  BY <1>3, <1>7 DEF Transfer
<1> QED
  BY <1>2, <1>3, <1>4, <1>5, <1>7, <1>8, <1>9, OwnerMove

(* The three steps of a call that leave the row and the file alone.        *)
LEMMA TransferMove ==
  ASSUME IInv, NEW c \in Call, NEW x \in CallRecord, Busy(c),
         call' = [call EXCEPT ![c] = x], x.pc \in Transfer,
         x.leave # "DOWNLOADING",
         tmp' \in [size : Nat, sound : BOOLEAN], stream' \in Nat,
         (call'[c] = x) => Progress(c)',
         UNCHANGED <<row, file, mapVars, del, use, page, boundVars>>
  PROVE  IInv'
<1>1. call'[c] = x
  BY IInvParts, CallUpdate
<1>2. row' \in [state : State, path : BOOLEAN] /\ file' \in {"none", "whole"}
  BY IInvParts, OwnerFacts
<1> QED
  BY <1>1, <1>2, OwnerMove DEF IInv, TypeOK, boundVars

LEMMA RespondStep ==
  ASSUME IInv, NEW c \in Call, Respond(c)  PROVE IInv'
<1> USE OwnerFacts, IInvParts
<1>1. Busy(c) /\ stream = 0 /\ call[c].next = tmp.size + 1
  BY DEF Respond, Busy, Transfer, Progress
<1>2. UNCHANGED <<row, stream, file, mapVars, del, use, page, boundVars>>
  BY DEF Respond
<1>3. CASE call[c].next > N
  <2> DEFINE x == [Idle EXCEPT !.pc = "finish", !.leave = "ERROR"]
  <2>1. x \in CallRecord /\ x.pc = "finish" /\ x.leave = "ERROR"
    BY LeaveType DEF State
  <2>2. call' = [call EXCEPT ![c] = x] /\ UNCHANGED tmp
    BY <1>3 DEF Respond, Leave
  <2> HIDE DEF x
  <2>3. (call'[c] = x) => Progress(c)'
    BY <2>1 DEF Progress
  <2> QED
    BY <1>1, <1>2, <2>1, <2>2, <2>3, TransferMove DEF Transfer
<1>4. CASE /\ call[c].next <= N
           /\ call' = [call EXCEPT ![c].pc = "data"] /\ UNCHANGED tmp
  <2> DEFINE x == [call[c] EXCEPT !.pc = "data"]
  <2>0. call[c] \in CallRecord
    OBVIOUS
  <2>1. x \in CallRecord
    BY <2>0, RecordUpdates DEF Transfer
  <2>2. x.pc = "data" /\ x.leave = call[c].leave /\ x.next = call[c].next
    BY <2>0 DEF CallRecord
  <2>3. call' = [call EXCEPT ![c] = x]
    BY <1>4
  <2> HIDE DEF x
  <2>4. (call'[c] = x) => Progress(c)'
    BY <1>1, <1>2, <1>4, <2>2 DEF Progress
  <2> QED
    BY <1>1, <1>2, <1>4, <2>1, <2>2, <2>3, <2>4, TransferMove DEF Transfer
<1>5. CASE /\ call' = [call EXCEPT ![c].pc = "data", ![c].next = 1]
           /\ tmp' = [tmp EXCEPT !.sound = FALSE]
  <2> DEFINE x == [call[c] EXCEPT !.pc = "data", !.next = 1]
  <2>1. x \in CallRecord /\ x.pc = "data" /\ x.leave = call[c].leave
    BY NextUpdate DEF CallRecord, Transfer
  <2>2. x.next = 1
    BY DEF CallRecord
  <2>3. call' = [call EXCEPT ![c] = x]
    BY <1>5
  <2> HIDE DEF x
  <2>4. tmp' \in [size : Nat, sound : BOOLEAN] /\ tmp'.sound = FALSE
    BY <1>5
  <2>5. (call'[c] = x) => Progress(c)'
    BY <2>1, <2>2, <2>4 DEF Progress
  <2> QED
    BY <1>1, <1>2, <2>1, <2>3, <2>4, <2>5, TransferMove DEF Transfer
<1> QED
  BY <1>3, <1>4, <1>5 DEF Respond

LEMMA DataStep ==
  ASSUME IInv, NEW c \in Call, Data(c)  PROVE IInv'
<1> USE OwnerFacts, IInvParts
<1>1. Busy(c) /\ call[c].pc = "data" /\ call[c].next <= N
  BY DEF Data, Busy, Transfer
<1>2. UNCHANGED <<row, tmp, file, mapVars, del, use, page, boundVars>>
  BY DEF Data
<1>3. CASE aborted
  <2> DEFINE x == [Idle EXCEPT !.pc = "finish", !.leave = "AVAILABLE"]
  <2>1. x \in CallRecord /\ x.pc = "finish" /\ x.leave = "AVAILABLE"
    BY LeaveType DEF State
  <2>2. call' = [call EXCEPT ![c] = x] /\ UNCHANGED stream
    BY <1>3 DEF Data, Leave
  <2> HIDE DEF x
  <2>3. (call'[c] = x) => Progress(c)'
    BY <2>1 DEF Progress
  <2> QED
    BY <1>1, <1>2, <2>1, <2>2, <2>3, TransferMove DEF Transfer
<1>4. CASE ~aborted
  <2> DEFINE n == call[c].next + 1
             x == [call[c] EXCEPT !.next = n]
  <2>1. n \in Nat /\ n = call[c].next + 1
    OBVIOUS
  <2>2. call' = [call EXCEPT ![c] = x] /\ stream' = stream + 1
    BY <1>4 DEF Data
  <2> HIDE DEF n
  <2>3. /\ x \in CallRecord /\ x.pc = "data" /\ x.leave = call[c].leave
        /\ x.next = n
    BY <1>1, <2>1, RecordUpdates DEF CallRecord
  <2> HIDE DEF x
  <2>4. (call'[c] = x) => Progress(c)'
    BY <1>1, <1>2, <2>1, <2>2, <2>3 DEF Progress
  <2>5. stream' \in Nat /\ tmp' \in [size : Nat, sound : BOOLEAN]
    BY <1>2, <2>2
  <2>6. x.pc \in Transfer /\ x.leave # "DOWNLOADING"
    BY <2>3 DEF Transfer
  <2> QED
    BY <1>1, <1>2, <2>2, <2>3, <2>4, <2>5, <2>6, TransferMove
<1> QED
  BY <1>3, <1>4

LEMMA EndStep ==
  ASSUME IInv, NEW c \in Call, End(c)  PROVE IInv'
<1> USE OwnerFacts, IInvParts
<1> DEFINE x == [call[c] EXCEPT !.pc = "verify", !.next = 0]
<1>1. Busy(c) /\ call[c].pc = "data" /\ call[c].next > N
  BY DEF End, Busy, Transfer
<1>2. /\ UNCHANGED <<row, fileVars, mapVars, del, use, page, boundVars>>
      /\ call' = [call EXCEPT ![c] = x]
  BY DEF End
<1>3. x \in CallRecord /\ x.pc = "verify" /\ x.leave = call[c].leave
  BY NextUpdate DEF CallRecord, Transfer
<1> HIDE DEF x
<1>4. UNCHANGED <<tmp, stream, file>>
  BY <1>2 DEF fileVars
<1>5. (call'[c] = x) => Progress(c)'
  BY <1>1, <1>3, <1>4 DEF Progress
<1> QED
  BY <1>1, <1>2, <1>3, <1>4, <1>5, TransferMove DEF Transfer

(* The heart of OnlyWholeModels: the checksum is of what is on disk, and   *)
(* N blocks on disk leave none in the stream.                              *)
LEMMA VerifyStep ==
  ASSUME IInv, NEW c \in Call, Verify(c)  PROVE IInv'
<1> USE OwnerFacts, IInvParts
<1>1. Busy(c) /\ call[c].pc = "verify"
  BY DEF Verify, Busy, Transfer
<1>2. UNCHANGED <<row, file, mapVars, del, use, page, boundVars>>
  BY DEF Verify
<1>3. CASE WholeTmp
  <2> DEFINE x == [call[c] EXCEPT !.pc = "rename"]
  <2>1. x \in CallRecord /\ x.pc = "rename" /\ x.leave = call[c].leave
    BY RecordUpdates DEF CallRecord, Transfer
  <2>2. call' = [call EXCEPT ![c] = x] /\ UNCHANGED <<tmp, stream>>
    BY <1>3 DEF Verify
  <2> HIDE DEF x
  <2>3. (call'[c] = x) => Progress(c)'
    BY <1>1, <1>3, <2>1, <2>2 DEF Progress, WholeTmp
  <2> QED
    BY <1>1, <1>2, <2>1, <2>2, <2>3, TransferMove DEF Transfer
<1>4. CASE ~WholeTmp
  <2> DEFINE x == [Idle EXCEPT !.pc = "finish", !.leave = "ERROR"]
  <2>1. x \in CallRecord /\ x.pc = "finish" /\ x.leave = "ERROR"
    BY LeaveType DEF State
  <2>2. call' = [call EXCEPT ![c] = x] /\ tmp' = NoTmp /\ stream' = 0
    BY <1>4 DEF Verify, Leave
  <2> HIDE DEF x
  <2>3. (call'[c] = x) => Progress(c)'
    BY <2>1 DEF Progress
  <2> QED
    BY <1>1, <1>2, <2>1, <2>2, <2>3, TransferMove DEF Transfer
<1> QED
  BY <1>3, <1>4

LEMMA RenameStep ==
  ASSUME IInv, NEW c \in Call, Rename(c)  PROVE IInv'
<1> USE OwnerFacts, IInvParts
<1> DEFINE x == [Idle EXCEPT !.pc = "finish", !.leave = "READY"]
<1>1. Busy(c) /\ WholeTmp /\ stream = 0
  BY DEF Rename, Busy, Transfer, Progress
<1>2. x \in CallRecord /\ x.pc = "finish" /\ x.leave = "READY"
  BY LeaveType DEF State
<1>3. /\ call' = [call EXCEPT ![c] = x] /\ tmp' = NoTmp /\ stream' = 0
      /\ file' = "whole"
      /\ UNCHANGED <<row, mapVars, del, use, page, boundVars>>
  BY <1>1 DEF Rename, Leave
<1> HIDE DEF x
<1>4. call'[c] = x
  BY <1>2, <1>3, CallUpdate
<1>5. Progress(c)'
  BY <1>2, <1>4 DEF Progress
<1>6. /\ row' \in [state : State, path : BOOLEAN] /\ orphaned' \in BOOLEAN
      /\ UNCHANGED <<faults, crashes>>
  BY <1>3 DEF IInv, TypeOK, boundVars
<1> QED
  BY <1>1, <1>2, <1>3, <1>5, <1>6, OwnerMove DEF Transfer

(* The last update of the row, and finally: c was the registered call, so  *)
(* nobody is at work when activeDownloads forgets it.                      *)
LEMMA FinishStep ==
  ASSUME IInv, NEW c \in Call, Finish(c)  PROVE IInv'
<1> USE OwnerFacts, IInvParts
<1>1. Busy(c) /\ active = c
  BY DEF Finish, Busy, Transfer, IInv, Owned
<1>2. /\ call' = [call EXCEPT ![c] = Idle] /\ active' = NoCall
      /\ aborted' = FALSE /\ row'.state = call[c].leave
      /\ UNCHANGED <<fileVars, del, use, page, boundVars>>
  BY DEF Finish
<1>3. row' \in [state : State, path : BOOLEAN]
  <2> DEFINE b == row.path \/ call[c].leave = "READY"
  <2>1. row' = [state |-> call[c].leave, path |-> b]
    BY DEF Finish
  <2>2. b \in BOOLEAN
    OBVIOUS
  <2> HIDE DEF b
  <2>3. call[c].leave \in State
    BY DEF CallRecord
  <2> QED
    BY <2>1, <2>2, <2>3
<1>4. /\ call' \in [Call -> CallRecord] /\ call'[c] = Idle
      /\ \A d \in Call : d # c => call'[d] = call[d]
  BY <1>2, IdleType, CallUpdate
<1>5. TypeOK'
  BY <1>2, <1>3, <1>4 DEF IInv, TypeOK, CallRecord, fileVars, boundVars
<1>6. \A d \in Call : ~Busy(d)'
  BY <1>1, <1>4, IdleType DEF IInv, Owned, Busy, Transfer
<1>7. Owned' /\ Leaves' /\ \A d \in Call : Progress(d)'
  BY <1>4, <1>6, IdleType DEF IInv, Owned, Leaves, Progress, Busy, Transfer
<1>8. OnlyWholeModels' /\ DownloadingIsOwned'
  BY <1>2 DEF IInv, OnlyWholeModels, DownloadingIsOwned, fileVars
<1> QED
  BY <1>5, <1>7, <1>8 DEF IInv

LEMMA FinishFailsStep ==
  ASSUME IInv, NEW c \in Call, FinishFails(c)  PROVE IInv'
<1> USE OwnerFacts, IInvParts
<1>1. Busy(c) /\ active = c /\ TypeOK
  BY DEF FinishFails, Busy, Transfer, IInv, Owned
<1>2. /\ faults' \in 0 .. MaxFaults
      /\ UNCHANGED <<row, fileVars, del, use, page, crashes>>
  BY <1>1, FaultType DEF FinishFails
<1>3. CASE call[c].leave = "READY"
  <2> DEFINE x == [Idle EXCEPT !.pc = "finish", !.leave = "ERROR"]
  <2>1. x \in CallRecord /\ x.pc = "finish" /\ x.leave = "ERROR"
    BY LeaveType DEF State
  <2>2. /\ call' = [call EXCEPT ![c] = x] /\ UNCHANGED <<mapVars, orphaned>>
    BY <1>3 DEF FinishFails, Leave
  <2> HIDE DEF x
  <2> QED
    BY <1>1, <1>2, <2>1, <2>2, QuietMove
<1>4. CASE call[c].leave # "READY"
  <2>1. /\ call' = [call EXCEPT ![c] = Idle] /\ active' = NoCall
        /\ aborted' = FALSE /\ orphaned' = TRUE
    BY <1>4 DEF FinishFails
  <2>2. /\ call' \in [Call -> CallRecord] /\ call'[c] = Idle
        /\ \A d \in Call : d # c => call'[d] = call[d]
    BY <2>1, IdleType, CallUpdate
  <2>3. TypeOK'
    BY <1>2, <2>1, <2>2 DEF IInv, TypeOK, CallRecord, fileVars
  <2>4. \A d \in Call : ~Busy(d)'
    BY <1>1, <2>2, IdleType DEF IInv, Owned, Busy, Transfer
  <2>5. Owned' /\ Leaves' /\ \A d \in Call : Progress(d)'
    BY <2>2, <2>4, IdleType DEF IInv, Owned, Leaves, Progress, Busy, Transfer
  <2>6. OnlyWholeModels' /\ DownloadingIsOwned'
    BY <1>2, <2>1 DEF IInv, OnlyWholeModels, DownloadingIsOwned, fileVars
  <2> QED
    BY <2>3, <2>5, <2>6 DEF IInv
<1> QED
  BY <1>3, <1>4

(* Nobody is at work when no controller is registered.                     *)
LEMMA RegisterStep ==
  ASSUME IInv, NEW c \in Call, Register(c)  PROVE IInv'
<1> USE OwnerFacts, IInvParts
<1>1. UNCHANGED <<row, fileVars, del, use, page, boundVars>>
  BY DEF Register
<1>2. CASE call[c].ready \/ active # NoCall
  BY <1>2, IdleType, QuietMove DEF Register, boundVars, IInv, TypeOK
<1>3. CASE ~(call[c].ready \/ active # NoCall)
  <2> DEFINE x == [call[c] EXCEPT !.pc = "mark"]
  <2>1. call' = [call EXCEPT ![c] = x] /\ active' = c /\ aborted' = FALSE
    BY <1>3 DEF Register
  <2>2. x \in CallRecord
    BY RecordUpdates
  <2>3. x.pc = "mark" /\ x.leave = call[c].leave
    BY DEF CallRecord
  <2> HIDE DEF x
  <2>4. /\ call' \in [Call -> CallRecord] /\ call'[c] = x
        /\ \A d \in Call : d # c => call'[d] = call[d]
    BY <2>1, <2>2, CallUpdate
  <2>5. TypeOK'
    BY <1>1, <2>1, <2>4
       DEF IInv, TypeOK, CallRecord, fileVars, boundVars
  <2>6. \A d \in Call : ~Busy(d)
    BY <1>3 DEF IInv, Owned
  <2>7. Owned'
    BY <2>1, <2>4, <2>6 DEF Owned, Busy
  <2>8. Leaves'
    BY <2>3, <2>4 DEF IInv, Leaves
  <2>9. \A d \in Call : Progress(d)'
    BY <2>3, <2>4, <2>6 DEF Progress, Busy, Transfer
  <2>10. OnlyWholeModels' /\ DownloadingIsOwned'
    BY <1>1, <2>1 DEF IInv, OnlyWholeModels, DownloadingIsOwned, fileVars
  <2> QED
    BY <2>5, <2>7, <2>8, <2>9, <2>10 DEF IInv
<1> QED
  BY <1>2, <1>3
-----------------------------------------------------------------------------
(* Everything else leaves the calls alone.                                 *)

LEMMA FlushStep == ASSUME IInv, Flush  PROVE IInv'
<1> USE IInvParts
<1>1. /\ UNCHANGED <<row, file, mapVars, call, del, use, page, boundVars>>
      /\ stream > 0 /\ stream' = stream - 1
      /\ tmp' = [tmp EXCEPT !.size = @ + 1]
  BY DEF Flush
<1>2. /\ stream' \in Nat /\ tmp' \in [size : Nat, sound : BOOLEAN]
      /\ tmp.size \in Nat
      /\ tmp'.sound = tmp.sound /\ tmp'.size + stream' = tmp.size + stream
  BY <1>1
<1>3. TypeOK' /\ Owned' /\ Leaves' /\ OnlyWholeModels' /\ DownloadingIsOwned'
  <2>1. TypeOK'
    BY <1>1, <1>2 DEF IInv, TypeOK, mapVars, boundVars
  <2>2. Owned' /\ Leaves'
    BY <1>1 DEF IInv, Owned, Leaves, mapVars, Busy
  <2>3. OnlyWholeModels' /\ DownloadingIsOwned'
    BY <1>1
       DEF IInv, OnlyWholeModels, DownloadingIsOwned, mapVars, boundVars
  <2> QED
    BY <2>1, <2>2, <2>3
<1>4. \A d \in Call : Progress(d)'
  <2> SUFFICES ASSUME NEW d \in Call PROVE Progress(d)'
    OBVIOUS
  <2>1. Progress(d) /\ call'[d] = call[d]
    BY <1>1 DEF IInv
  <2> QED
    BY <1>1, <1>2, <2>1 DEF Progress
<1> QED
  BY <1>3, <1>4 DEF IInv

(* The page, the worker, a delete: the row and the file may change, but    *)
(* never to DOWNLOADING or to a broken file.                               *)
LEMMA OutsideMove ==
  ASSUME IInv,
         row' \in [state : State, path : BOOLEAN],
         row'.state = "DOWNLOADING" => row.state = "DOWNLOADING",
         file' \in {"none", "whole"},
         del' \in [pc : {"idle", "unlink", "update"}, path : BOOLEAN],
         use' \in {"idle", "check"}, page' \in State \cup {"closed"},
         aborted' \in BOOLEAN,
         UNCHANGED <<tmp, stream, active, call, boundVars>>
  PROVE  IInv'
<1>1. TypeOK'
  BY DEF IInv, TypeOK, boundVars
<1>2. Owned' /\ Leaves' /\ \A d \in Call : Progress(d)'
  BY DEF IInv, Owned, Leaves, Progress, Busy, WholeTmp
<1>3. OnlyWholeModels' /\ DownloadingIsOwned'
  BY DEF IInv, OnlyWholeModels, DownloadingIsOwned, boundVars
<1> QED
  BY <1>1, <1>2, <1>3 DEF IInv

LEMMA OutsideSteps ==
  ASSUME IInv,
         \/ LoadModels \/ Cancel \/ DeleteRead \/ DeleteFile \/ DeleteRow
         \/ UseRead \/ UseCheck
  PROVE  IInv'
<1> USE IInvParts
<1>0. /\ del \in [pc : {"idle", "unlink", "update"}, path : BOOLEAN]
      /\ use \in {"idle", "check"} /\ page \in State \cup {"closed"}
      /\ aborted \in BOOLEAN /\ file \in {"none", "whole"}
  BY DEF IInv, TypeOK, OnlyWholeModels
<1>1. CASE LoadModels
  BY <1>0, <1>1, OutsideMove DEF LoadModels, fileVars, mapVars
<1>2. CASE Cancel
  <2>1. aborted' \in BOOLEAN
    BY <1>2 DEF Cancel
  <2> QED
    BY <1>0, <1>2, <2>1, OutsideMove DEF Cancel, fileVars
<1>3. CASE DeleteRead
  BY <1>0, <1>3, OutsideMove DEF DeleteRead, fileVars, mapVars
<1>4. CASE DeleteFile
  BY <1>0, <1>4, OutsideMove DEF DeleteFile, mapVars
<1>5. CASE DeleteRow
  <2>1. row'.state = "AVAILABLE" /\ row' \in [state : State, path : BOOLEAN]
    BY <1>5 DEF DeleteRow, State
  <2> QED
    BY <1>0, <1>5, <2>1, OutsideMove DEF DeleteRow, fileVars, mapVars
<1>6. CASE UseRead
  BY <1>0, <1>6, OutsideMove DEF UseRead, fileVars, mapVars
<1>7. CASE UseCheck
  <2>1. row' = row \/ row' = [row EXCEPT !.state = "ERROR"]
    BY <1>7 DEF UseCheck
  <2>2. /\ row' \in [state : State, path : BOOLEAN]
        /\ row'.state = "DOWNLOADING" => row.state = "DOWNLOADING"
    BY <2>1 DEF State
  <2> QED
    BY <1>0, <1>7, <2>2, OutsideMove DEF UseCheck, fileVars, mapVars
<1> QED
  BY <1>1, <1>2, <1>3, <1>4, <1>5, <1>6, <1>7

LEMMA CrashStep == ASSUME IInv, Crash  PROVE IInv'
<1>1. /\ call' = [c \in Call |-> Idle]
      /\ \A c \in Call : call'[c] = Idle
      /\ call' \in [Call -> CallRecord]
  BY IdleType DEF Crash
<1>2. crashes \in Nat /\ crashes' = crashes + 1 /\ crashes' \in 0 .. MaxCrashes
  BY ModelDownloadAssumption DEF IInv, TypeOK, Crash
<1>3. TypeOK'
  BY <1>1, <1>2 DEF IInv, TypeOK, Crash, CallRecord
<1>4. Owned' /\ Leaves' /\ \A d \in Call : Progress(d)'
  BY <1>1, IdleType DEF Owned, Leaves, Progress, Busy, Transfer
<1>5. OnlyWholeModels' /\ DownloadingIsOwned'
  BY <1>2 DEF IInv, OnlyWholeModels, DownloadingIsOwned, Crash
<1> QED
  BY <1>3, <1>4, <1>5 DEF IInv

LEMMA InitEstablishes == ASSUME Init PROVE IInv
<1>1. call \in [Call -> CallRecord] /\ \A c \in Call : call[c] = Idle
  BY IdleType DEF Init
<1>2. TypeOK
  <2>1. /\ row \in [state : State, path : BOOLEAN]
        /\ tmp \in [size : Nat, sound : BOOLEAN]
        /\ del \in [pc : {"idle", "unlink", "update"}, path : BOOLEAN]
    BY DEF Init, NoTmp, State
  <2>2. faults \in 0 .. MaxFaults /\ crashes \in 0 .. MaxCrashes
    BY ModelDownloadAssumption DEF Init
  <2> QED
    BY <1>1, <2>1, <2>2 DEF Init, TypeOK, CallRecord
<1>3. Owned /\ Leaves /\ \A c \in Call : Progress(c)
  BY <1>1, IdleType DEF Owned, Leaves, Progress, Busy, Transfer
<1>4. OnlyWholeModels /\ DownloadingIsOwned
  BY DEF Init, OnlyWholeModels, DownloadingIsOwned
<1> QED
  BY <1>2, <1>3, <1>4 DEF IInv

LEMMA NextPreserves == ASSUME IInv, [Next]_vars PROVE IInv'
<1>1. CASE UNCHANGED vars
  BY <1>1 DEF vars, fileVars, mapVars, boundVars, IInv, TypeOK, Owned, Leaves,
     Progress, OnlyWholeModels, DownloadingIsOwned, Busy, WholeTmp
<1>2. ASSUME NEW c \in Call,
             \/ Begin(c) \/ Runs(c) \/ MarkFails(c)
             \/ NetworkError(c) \/ Hang(c) \/ FinishFails(c)
      PROVE  IInv'
  BY <1>2, QuietSteps, RegisterStep, MarkStep, RespondStep, DataStep, EndStep,
     VerifyStep, RenameStep, FinishStep, FinishFailsStep DEF Runs
<1>3. CASE Flush \/ Crash
  BY <1>3, FlushStep, CrashStep
<1>4. CASE \/ LoadModels \/ Cancel \/ DeleteRead \/ DeleteFile \/ DeleteRow
           \/ UseRead \/ UseCheck
  BY <1>4, OutsideSteps
<1> QED
  BY <1>1, <1>2, <1>3, <1>4 DEF Next
-----------------------------------------------------------------------------
(* The invariant, along every behaviour.                                   *)
THEOREM Invariance == Spec => []IInv
<1>1. Init => IInv
  BY InitEstablishes
<1>2. IInv /\ [Next]_vars => IInv'
  BY NextPreserves
<1> QED
  BY <1>1, <1>2, PTL DEF Spec

(* Rows, files, calls and page stay in their domains.                      *)
THEOREM TypeCorrect == Spec => []TypeOK
<1>1. IInv => TypeOK
  BY DEF IInv
<1> QED
  BY <1>1, Invariance, PTL

(* However many times Download is pressed, one call at most is past the    *)
(* check of activeDownloads (whisperModels.ts, startDownload).             *)
THEOREM WritersExclude == Spec => []OneDownload
<1>1. IInv => OneDownload
  <2> SUFFICES ASSUME IInv, NEW c \in Call, NEW d \in Call,
                      {call[c].pc, call[d].pc} \subseteq {"mark"} \cup Transfer
               PROVE  c = d
    BY DEF OneDownload
  <2>1. Busy(c) /\ Busy(d)
    BY DEF Busy
  <2> QED
    BY <2>1 DEF IInv, Owned
<1> QED
  BY <1>1, Invariance, PTL

(* A broken file never gets the final name of the model.                   *)
THEOREM FilesAreWhole == Spec => []OnlyWholeModels
<1>1. IInv => OnlyWholeModels
  BY DEF IInv
<1> QED
  BY <1>1, Invariance, PTL

(* A row that says DOWNLOADING has a controller that can be told to stop,  *)
(* unless since it was made to say so the app died or the update in the    *)
(* catch was refused.                                                      *)
THEOREM RowsAreOwned == Spec => []DownloadingIsOwned
<1>1. IInv => DownloadingIsOwned
  BY DEF IInv
<1> QED
  BY <1>1, Invariance, PTL
=============================================================================
