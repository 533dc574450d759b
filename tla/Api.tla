--------------------------------- MODULE Api ----------------------------------
(***************************************************************************)
(* The HTTP service (services/api) and the client that pages call it with  *)
(* (packages/api-client): who is let in, what an error becomes on its way, *)
(* and the tables of accounts, uploads, lectures and courses.              *)
(*                                                                         *)
(* No state: a table is a value, a call makes the next one of it.  Ids are *)
(* positions.  The database is external; its schema declares no table yet, *)
(* and an index that keeps addresses apart is what findUnique asks for.    *)
(***************************************************************************)
EXTENDS Integers, Sequences

LOCAL INSTANCE FiniteSets
LOCAL INSTANCE TLC
LOCAL INSTANCE SequencesExt

-----------------------------------------------------------------------------
(* Errors: AllExceptionsFilter makes the answer, ApiClient.request reads   *)
(* it.  res is what the exception carries: a text, or an object with a     *)
(* message that is a text, a list of them or missing.                      *)
CodeOf == (400 :> "VALIDATION_ERROR") @@ (401 :> "UNAUTHORIZED")
            @@ (403 :> "FORBIDDEN") @@ (404 :> "NOT_FOUND")
            @@ (409 :> "CONFLICT")
Exception == [http : BOOLEAN, status : {400, 401, 403, 404, 409, 413, 503},
              res : {"text", "object"}, message : {"text", "list", "none"}]

ErrorBody(e) ==
  LET coded == e.http /\ e.res = "object" /\ e.status \in DOMAIN CodeOf
  IN  [statusCode |-> IF e.http THEN e.status ELSE 500,
       code |-> IF coded THEN CodeOf[e.status] ELSE "INTERNAL_ERROR",
       details |-> coded /\ e.status = 400 /\ e.message = "list",
       told |-> CASE ~e.http -> "unexpected"
                  [] coded /\ e.status = 404 -> "not found"
                  [] OTHER -> "its own"]

(* An answer: its status, if it says it is JSON, what its body then is,    *)
(* and the error if it is one of the filter's.                             *)
Unexpected(status) == [statusCode |-> status, code |-> "INTERNAL_ERROR",
                       details |-> FALSE, told |-> "unexpected"]
ReadAnswer(a) ==
  CASE a.json /\ a.body = "broken" -> [throws |-> "SyntaxError"]
    [] ~(a.json /\ a.body = "broken") /\ a.ok -> [throws |-> "nothing"]
    [] a.json /\ a.body = "object" /\ ~a.ok ->
         [throws |-> "ApiClientError", error |-> a.error]
    [] ~(a.json /\ a.body \in {"broken", "object"}) /\ ~a.ok ->
         [throws |-> "ApiClientError", error |-> Unexpected(a.status)]

(* The headers of a request: a kind of content unless there is no body, it *)
(* is a form or one is given, always an id, and the token if there is one. *)
Headers(given, body, token) ==
  given \cup {"x-request-id"}
        \cup (IF body \in {"none", "form"} THEN {} ELSE {"content-type"})
        \cup (IF token = "none" THEN {} ELSE {"authorization"})
Params(options) == {p \in DOMAIN options : options[p] # "undefined"}

-----------------------------------------------------------------------------
(* Who is let in: JwtAuthGuard, then RolesGuard, then the handler.         *)
Roles == {"STUDENT", "PROFESSIONAL", "UNIVERSITY_ADMIN", "SUPPORT",
          "CONTENT_MODERATOR", "PLATFORM_ADMIN"}
Required ==
  [health |-> {}, courses |-> {}, lectures |-> {}, uploads |-> {},
   users |-> {"PLATFORM_ADMIN"}, jobs |-> {"PLATFORM_ADMIN", "SUPPORT"},
   usage |-> {"PLATFORM_ADMIN", "SUPPORT"}]
IsPublic(route) == route = "health"

(* A bearer: no token, one that cannot be verified, or one of some roles.  *)
Status(route, bearer) ==
  CASE IsPublic(route) -> 200
    [] ~IsPublic(route) /\ bearer.kind # "access" -> 401
    [] ~IsPublic(route) /\ bearer.kind = "access" ->
         IF Required[route] = {} \/ Required[route] \cap bearer.roles # {}
         THEN 200 ELSE 403

(* CoursesService.hasPermission, by a list of roles of its own.            *)
CourseRoles == {"STUDENT", "TEACHER", "TUTOR", "PARENT", "ADMIN", "SUPPORT",
                "CONTENT_REVIEWER"}
HasPermission(roles) == roles \cap CourseRoles # {}

-----------------------------------------------------------------------------
(* Accounts.  An address is kept, and looked for, in lower case.           *)
LowerAddress == [a |-> "a", A |-> "a", b |-> "b"]
FindByEmail(users, email) ==
  {i \in DOMAIN users : users[i].email = LowerAddress[email]}
NewUser(dto) ==
  [email |-> LowerAddress[dto.email], password |-> dto.password,
   roles |-> {IF dto.role = "none" THEN "STUDENT" ELSE dto.role},
   status |-> "PENDING_VERIFICATION"]

(* register: seen is the table as it was when the address was looked up.   *)
Register(users, seen, dto) ==
  CASE ~dto.complete -> [status |-> 400, users |-> users]
    [] dto.complete /\ FindByEmail(seen, dto.email) # {} ->
         [status |-> 409, users |-> users]
    [] dto.complete /\ FindByEmail(seen, dto.email) = {} ->
         IF FindByEmail(users, dto.email) # {}
         THEN [status |-> 500, users |-> users]
         ELSE [status |-> 201, users |-> Append(users, NewUser(dto))]

Login(users, dto) ==
  CASE ~dto.complete -> 400
    [] dto.complete /\ \E i \in FindByEmail(users, dto.email) :
         /\ users[i].password = dto.password
         /\ users[i].status # "DISABLED" -> 201
    [] OTHER -> 401

Disable(users, id) ==
  IF id \in DOMAIN users THEN [users EXCEPT ![id].status = "DISABLED"]
  ELSE users

(* What a page keeps of its account: store/auth.ts and the token strategy. *)
Session(kept, answer) ==
  CASE answer = "login ok" -> [token |-> "new", user |-> "new"]
    [] answer = "login failed" -> kept
    [] answer \in {"logout ok", "logout failed"} ->
         [token |-> "none", user |-> "none"]

-----------------------------------------------------------------------------
(* Uploads.  Sizes in MB.                                                  *)
Extensions == [LECTURE_AUDIO |-> {"webm", "mp4", "mp3", "wav", "m4a"},
               COURSE_DOCUMENT |-> {"pdf"}]
MaxBytes == [LECTURE_AUDIO |-> 500, COURSE_DOCUMENT |-> 25]
MaxUpload == 500
MimeTypes == {"audio/webm", "audio/mp4", "audio/mpeg", "audio/wav",
              "application/pdf"}

(* extensionOf: what follows the last dot, in lower case.  A name is the   *)
(* sequence of what its dots separate.                                     *)
ExtensionOf(name) == IF Len(name) = 1 THEN "" ELSE name[Len(name)]
ValidUpload(dto) ==
  /\ dto.fileSize \in 1 .. MaxUpload
  /\ dto.mimeType \in MimeTypes
  /\ ExtensionOf(dto.fileName) \in Extensions[dto.purpose]
  /\ dto.fileSize <= MaxBytes[dto.purpose]

(* requestUpload, completeUpload and deleteUpload; only its owner's calls  *)
(* change an upload, whatever became of it before.                         *)
NewUpload(by) == [owner |-> by, status |-> "PENDING"]
UploadStatus == [complete |-> "COMPLETED", delete |-> "DELETED"]
UploadStep(store, call) ==
  CASE call.op = "request" -> Append(store, NewUpload(call.by))
    [] call.op # "request" /\ call.id \in DOMAIN store
         /\ store[call.id].owner = call.by ->
         [store EXCEPT ![call.id].status = UploadStatus[call.op]]
    [] OTHER -> store

-----------------------------------------------------------------------------
(* Lectures: a removed one keeps its row, which its owner may still get.   *)
NewLecture(by) == [owner |-> by, state |-> "DRAFT",
                   consentAcknowledged |-> TRUE]
SaveLecture(table, id, state) == [table EXCEPT ![id].state = state]
GetForOwner(table, id, by) ==
  CASE id \notin DOMAIN table -> 404
    [] id \in DOMAIN table /\ table[id].owner # by -> 403
    [] id \in DOMAIN table /\ table[id].owner = by -> 200
AddLecture(table, call) ==
  IF call.consent THEN Append(table, NewLecture(call.by)) ELSE table
RemoveLecture(table, call) ==
  IF GetForOwner(table, call.id, call.by) = 200
  THEN SaveLecture(table, call.id, "DELETED") ELSE table
LectureStep(table, call) ==
  IF call.op = "create" THEN AddLecture(table, call)
  ELSE RemoveLecture(table, call)

ListByOwner(table, by) == {i \in DOMAIN table : table[i].owner = by}
ListForOwner(table, by) ==
  {i \in ListByOwner(table, by) : table[i].state # "DELETED"}

(* Courses: a removed one is gone, and whoever lacks the role is refused.  *)
NoCourse == [owner |-> 0]
DeleteCourse(table, id, by) ==
  [i \in DOMAIN table |-> IF i = id /\ table[i].owner = by THEN NoCourse
                          ELSE table[i]]
CreateCourse(table, call) ==
  IF HasPermission(call.roles) THEN Append(table, [owner |-> call.by])
  ELSE table
RemoveCourse(table, call) ==
  IF /\ GetForOwner(table, call.id, call.by) = 200
     /\ HasPermission(call.roles)
  THEN DeleteCourse(table, call.id, call.by) ELSE table
CourseStep(table, call) ==
  IF call.op = "create" THEN CreateCourse(table, call)
  ELSE RemoveCourse(table, call)

(* UsageService.totals.                                                    *)
Total(events, kind) ==
  FoldLeft(LAMBDA sum, e : IF e.kind = kind THEN sum + e.amount ELSE sum,
           0, events)

-----------------------------------------------------------------------------
(* Every error the service answers with arrives with its status and code,  *)
(* and no other answer that is not ok is taken for one that is.            *)
ASSUME ErrorsArrive ==
  /\ \A e \in Exception :
       LET body == ErrorBody(e)
           read == ReadAnswer([ok |-> FALSE, status |-> body.statusCode,
                               json |-> TRUE, body |-> "object",
                               error |-> body])
       IN  /\ read.throws = "ApiClientError"
           /\ read.error.statusCode = IF e.http THEN e.status ELSE 500
           /\ \A s \in DOMAIN CodeOf : CodeOf[s] = read.error.code
                                       => s = read.error.statusCode
  /\ \A json \in BOOLEAN : \A body \in {"broken", "plain", "object"} :
       \A ok \in BOOLEAN :
         LET read == ReadAnswer([ok |-> ok, status |-> 502, json |-> json,
                                 body |-> body, error |-> Unexpected(502)])
         IN  (read.throws = "nothing") = (ok /\ ~(json /\ body = "broken"))

(* Users are listed for a platform admin only: no token is 401, a student  *)
(* 403.  No role is shut out of health, and none is let in without a token *)
(* anywhere else.                                                          *)
ASSUME GuardsAsTested ==
  LET bearers == [kind : {"none", "other", "access"}, roles : SUBSET Roles]
  IN  \A b \in bearers :
        /\ Status("users", b) = IF b.kind # "access" THEN 401
                                ELSE IF "PLATFORM_ADMIN" \in b.roles THEN 200
                                ELSE 403
        /\ \A r \in DOMAIN Required : Status(r, b) = 200 /\ r # "health"
                                       => b.kind = "access"
        /\ Status("health", b) = 200

(* Of the roles an account may have, two may create a course or remove     *)
(* their own; every role may list them.                                    *)
ASSUME CoursesOfTwoRoles ==
  /\ {r \in Roles : HasPermission({r})} = {"STUDENT", "SUPPORT"}
  /\ \A r \in Roles : Status("courses", [kind |-> "access",
                                         roles |-> {r}]) = 200

(* Two registrations at once never make two accounts of one address,       *)
(* however it is written; the later one is a conflict, or an internal      *)
(* error if it had looked before the other was made.                       *)
ASSUME OneAccountPerAddress ==
  LET dto(email) == [complete |-> TRUE, email |-> email, password |-> "p",
                     role |-> "none"]
  IN  \A x, y \in DOMAIN LowerAddress : \A early \in BOOLEAN :
        LET one == Register(<<>>, <<>>, dto(x)).users
            two == Register(one, IF early THEN <<>> ELSE one, dto(y))
            same == LowerAddress[x] = LowerAddress[y]
        IN  /\ Cardinality({two.users[i].email : i \in DOMAIN two.users})
                 = Len(two.users)
            /\ two.status = IF ~same THEN 201 ELSE IF early THEN 500 ELSE 409

(* An account is entered with its own password only, and never again once  *)
(* it is disabled; that of another address is not affected.                *)
ASSUME DisabledStaysOut ==
  LET dto(email, word) == [complete |-> TRUE, email |-> email,
                           password |-> word, role |-> "none"]
      users == Register(Register(<<>>, <<>>, dto("a", "p")).users,
                        <<>>, dto("b", "q")).users
  IN  \A id \in {0, 1, 2} : \A word \in {"p", "q"} :
        LET now == Disable(users, id)
        IN  /\ (Login(now, dto("A", word)) = 201) = (word = "p" /\ id # 1)
            /\ (Login(now, dto("b", word)) = 201) = (word = "q" /\ id # 2)

(* A page that began without a token has one exactly while it has an       *)
(* account, whatever the order of the answers.                             *)
ASSUME TokenHasAccount ==
  \A answers \in UNION {[1 .. n -> {"login ok", "login failed", "logout ok",
                                    "logout failed"}] : n \in 0 .. 3} :
    LET kept == FoldLeft(Session, [token |-> "none", user |-> "none"], answers)
    IN  kept.token = kept.user

(* A file is of one purpose only, by its name, and no document is as large *)
(* as an audio file may be; the kind it is said to have is not compared.   *)
ASSUME OnePurpose ==
  \A name \in {<<"a">>, <<"a", "pdf">>, <<"a", "pdf", "mp3">>, <<"", "wav">>} :
    \A size \in {0, 1, 25, 26, 500, 501} : \A mime \in MimeTypes :
      LET dto(p) == [fileName |-> name, fileSize |-> size, mimeType |-> mime,
                     purpose |-> p]
      IN  /\ ~(\A p \in DOMAIN MaxBytes : ValidUpload(dto(p)))
          /\ size = 26 => ~ValidUpload(dto("COURSE_DOCUMENT"))
          /\ ExtensionOf(name) = "" =>
               ~\E p \in DOMAIN MaxBytes : ValidUpload(dto(p))

(* The status of an upload is what its owner last asked for, and nobody    *)
(* else's call changes it; a deleted one can still be completed.           *)
ASSUME UploadsAreTheirs ==
  LET calls == [op : {"request"}, id : {0}, by : {1, 2}]
                 \cup [op : {"complete", "delete"}, id : {1, 2}, by : {1, 2}]
  IN  \A c \in [1 .. 4 -> calls] :
        LET store == FoldLeft(UploadStep, <<>>, c)
            made(u) == CHOOSE k \in 1 .. 4 :
                         /\ c[k].op = "request"
                         /\ u = Cardinality({j \in 1 .. k :
                                              c[j].op = "request"})
            asked(u) == {k \in made(u) + 1 .. 4 :
                           /\ c[k].op # "request" /\ c[k].id = u
                           /\ c[k].by = c[made(u)].by}
        IN  \A u \in DOMAIN store :
              \/ asked(u) = {} /\ store[u].status = "PENDING"
              \/ \E k \in asked(u) :
                   /\ \A j \in asked(u) : j <= k
                   /\ store[u].status = UploadStatus[c[k].op]

(* A removed lecture is never listed again and stays where it was; every   *)
(* lecture has the consent of its owner, who alone gets or removes it.     *)
ASSUME RemovedIsUnlisted ==
  LET calls == [op : {"create"}, id : {0}, by : {1, 2}, consent : BOOLEAN]
        \cup [op : {"remove"}, id : {1, 2}, by : {1, 2}, consent : {TRUE}]
  IN  \A c \in [1 .. 4 -> calls] : \A n \in 0 .. 3 :
        LET before == FoldLeft(LectureStep, <<>>, SubSeq(c, 1, n))
            after == LectureStep(before, c[n + 1])
        IN  \A i \in DOMAIN after : \A by \in {1, 2} :
              /\ after[i].consentAcknowledged
              /\ (GetForOwner(after, i, by) = 200) = (after[i].owner = by)
              /\ i \in ListForOwner(before, by) \ ListForOwner(after, by) =>
                   c[n + 1].op = "remove" /\ c[n + 1].by = by
              /\ i \in DOMAIN before /\ i \in ListForOwner(after, by) =>
                   i \in ListForOwner(before, by)

(* Nobody's course is removed by another account or without the role.      *)
ASSUME CoursesAreTheirs ==
  LET calls == [op : {"create", "remove"}, id : {1, 2}, by : {1, 2},
                roles : {{"STUDENT"}, {"PROFESSIONAL"}}]
  IN  \A c \in [1 .. 3 -> calls] :
        LET before == FoldLeft(CourseStep, <<>>, SubSeq(c, 1, 2))
            after == CourseStep(before, c[3])
        IN  \A i \in DOMAIN before : before[i] # after[i] =>
              /\ before[i].owner = c[3].by /\ "STUDENT" \in c[3].roles
              /\ c[3].op = "remove"

(* Every amount that was recorded is in exactly one of the totals.         *)
ASSUME TotalsAddUp ==
  \A events \in [1 .. 3 -> [kind : {"minutes", "tokens", "bytes"},
                            amount : 0 .. 2]] :
    Total(events, "minutes") + Total(events, "tokens") + Total(events, "bytes")
      = FoldLeft(LAMBDA sum, e : sum + e.amount, 0, events)
=============================================================================
