------------------------- MODULE FileTransferProofs -------------------------
(***************************************************************************)
(* Proofs about sessions and file transfer, for any users, tokens,         *)
(* requests, files and bounds.  FilesMatchRows is not inductive: it needs  *)
(* to know what an upload in progress owns (Owned), and that no two        *)
(* uploads write to one file (Apart).  That a session ends only by its own *)
(* logout or its expiry needs the shape of the tables alone.  What a       *)
(* message says of its file rests on three more parts: who is behind a     *)
(* request (Accounted), what an upload has (Uploading), and what the       *)
(* client and the table know of it (Sharing).                              *)
(***************************************************************************)
EXTENDS FileTransfer, TLAPS

Steps == {"idle", "register", "login", "issue", "logout", "revoke", "upload", "parts", "copying"}
RequestRow == [pc : Steps, user : Users \cup {None}, token : Tokens \cup {None}]
UploadRow == [conv : Convs \cup {None}, file : Files \cup {None}, parts : Int,
              written : BOOLEAN, client : Clients \cup {None}]
SessionRow == [user : Users \cup {None}, expires : Int]

\* What is stored has the shape of its table.
Shape ==
  /\ request \in [Requests -> RequestRow]
  /\ upload \in [Requests -> UploadRow]
  /\ disk \in [Files -> {"absent", "partial", "whole"}]
  /\ files \in [Files -> [uploader : Users \cup {None}, conv : Convs \cup {None}]]
  /\ token \in [Users -> Tokens \cup {None}]
  /\ me \in [Clients -> Users \cup {None}]
  /\ open \in [Clients -> Convs \cup {None}]
  /\ \A c \in Clients : open[c] # None => me[c] # None
  /\ sessions \in [Tokens -> SessionRow]
  /\ now \in Int

\* The file of an upload is on disk and has no row yet, and it is whole when
\* the last part has been read.
Owned ==
  \A r \in Requests :
    LET f == upload[r].file
    IN  /\ request[r].pc \notin {"parts", "copying"} => f = None /\ ~upload[r].written
        /\ f # None => disk[f] # "absent" /\ files[f] = NoRow
        /\ request[r].pc = "copying" => f # None
        /\ request[r].pc = "parts" /\ upload[r].written => f # None /\ disk[f] = "whole"

\* No two uploads write to one file.
Apart == \A q, r \in Requests : q # r /\ upload[q].file # None => upload[q].file # upload[r].file

FilesInv == Shape /\ Owned /\ Apart /\ FilesMatchRows

-----------------------------------------------------------------------------
\* What the requests of module Sessions, the client and the messages do
\* leaves uploads alone.
LEMMA OthersKeep ==
  ASSUME FilesInv, Shape', UNCHANGED <<upload, disk, files, abandoned>>,
         \A r \in Requests : \/ request'[r] = request[r]
                             \/ /\ request[r].pc \notin {"parts", "copying"}
                                /\ request'[r].pc \notin {"parts", "copying"}
  PROVE  FilesInv'
  BY DEF FilesInv, Owned, Apart, FilesMatchRows

\* A handler goes on: only its own request changes.
LEMMA ProceedShape ==
  ASSUME Shape, NEW r \in Requests, NEW pc \in Steps, Proceed(r, pc)
  PROVE  /\ request' \in [Requests -> RequestRow]
         /\ request'[r].pc = pc /\ request'[r].user = request[r].user
         /\ \A q \in Requests \ {r} : request'[q] = request[q]
  BY DEF Shape, Proceed, RequestRow

\* A handler answers: its request is over.
LEMMA AnswerShape ==
  ASSUME Shape, NEW r \in Requests, Answer(r)
  PROVE  /\ request' \in [Requests -> RequestRow]
         /\ request'[r].pc = "idle"
         /\ \A q \in Requests \ {r} : request'[q] = request[q]
  <1>1. Idle \in RequestRow /\ Idle.pc = "idle"
    BY DEF Idle, RequestRow, Steps
  <1>. QED
    BY <1>1 DEF Shape, Answer

\* A request begins where none was.
LEMMA BeginShape ==
  ASSUME Shape, NEW r \in Requests, NEW pc \in Steps, NEW u \in Users,
         NEW t \in Tokens \cup {None}, Begin(r, pc, u, t)
  PROVE  /\ request' \in [Requests -> RequestRow]
         /\ request[r].pc = "idle" /\ request'[r].pc = pc
         /\ \A q \in Requests \ {r} : request'[q] = request[q]
  BY DEF Shape, Begin, RequestRow, Idle

\* register, login and logout, and the client behind them (server/http.go).
LEMMA AuthKeeps ==
  ASSUME FilesInv, NEW r \in Requests, AuthStep(r) \/ AuthFails(r), UNCHANGED fileVars
  PROVE  FilesInv'
  <1>. USE DEF fileVars
  <1>1. UNCHANGED <<upload, disk, files, abandoned, me, open>> /\ Shape
    BY DEF FilesInv
  <1>2. CASE CreateUser(r)
    <2>1. Shape'
      BY <1>1, <1>2, ProceedShape, AnswerShape DEF CreateUser, Shape, Steps
    <2>. QED
      BY <1>1, <1>2, <2>1, OthersKeep, ProceedShape, AnswerShape DEF CreateUser, Steps
  <1>3. CASE CheckLogin(r)
    <2>1. Shape'
      BY <1>1, <1>3, ProceedShape, AnswerShape DEF CheckLogin, Shape, Steps
    <2>. QED
      BY <1>1, <1>3, <2>1, OthersKeep, ProceedShape, AnswerShape DEF CheckLogin, Steps
  <1>4. CASE IssueSession(r)
    <2>1. PICK t \in Tokens :
            /\ sessions' = [sessions EXCEPT ![t] = [user |-> request[r].user, expires |-> now + TTL]]
            /\ token' = IF waiting[request[r].user] = r
                        THEN [token EXCEPT ![request[r].user] = t] ELSE token
      BY <1>4 DEF IssueSession, Steps
    <2>2. sessions' \in [Tokens -> SessionRow]
      <3>1. [user |-> request[r].user, expires |-> now + TTL] \in SessionRow
        BY <1>1, SessionsAssumption DEF Shape, RequestRow, SessionRow
      <3>. QED
        BY <1>1, <2>1, <3>1 DEF Shape
    <2>3. token' \in [Users -> Tokens \cup {None}]
      BY <1>1, <2>1 DEF Shape
    <2>4. Answer(r) /\ UNCHANGED now
      BY <1>4 DEF IssueSession, Steps
    <2>5. Shape'
      BY <1>1, <2>2, <2>3, <2>4, AnswerShape DEF Shape
    <2>. QED
      BY <1>1, <1>4, <2>4, <2>5, OthersKeep, AnswerShape DEF IssueSession, Steps
  <1>5. CASE AuthLogout(r)
    <2>1. Shape'
      BY <1>1, <1>5, ProceedShape, AnswerShape DEF AuthLogout, Shape, Steps
    <2>. QED
      BY <1>1, <1>5, <2>1, OthersKeep, ProceedShape, AnswerShape DEF AuthLogout, Steps
  <1>6. CASE Revoke(r)
    <2>1. Answer(r) /\ UNCHANGED <<now, token>> /\ sessions' = DeleteSession(request[r].token)
      BY <1>6 DEF Revoke, Steps
    <2>2. sessions' \in [Tokens -> SessionRow]
      <3>1. NoSession \in SessionRow
        BY DEF NoSession, SessionRow
      <3>. QED
        BY <1>1, <2>1, <3>1 DEF Shape, DeleteSession
    <2>3. Shape'
      BY <1>1, <2>1, <2>2, AnswerShape DEF Shape
    <2>. QED
      BY <1>1, <1>6, <2>1, <2>3, OthersKeep, AnswerShape DEF Revoke, Steps
  <1>7. CASE AuthFails(r)
    <2>1. Shape'
      BY <1>1, <1>7, AnswerShape DEF AuthFails, Shape
    <2>. QED
      BY <1>1, <1>7, <2>1, OthersKeep, AnswerShape DEF AuthFails, Steps
  <1>. QED
    BY <1>2, <1>3, <1>4, <1>5, <1>6, <1>7 DEF AuthStep

\* The client's requests, timeouts and logout, and the clock (client/auth.go).
LEMMA ClientKeeps ==
  ASSUME FilesInv, UNCHANGED <<upload, disk, files, abandoned>>,
         NEW r \in Requests, NEW u \in Users, NEW c \in Clients,
         \/ Submit(r, u) /\ me' = [me EXCEPT ![c] = u] /\ UNCHANGED open
         \/ /\ Logout(r, u) /\ me' = [me EXCEPT ![c] = None]
            /\ open' = [open EXCEPT ![c] = None]
  PROVE  FilesInv'
  <1>1. Shape
    BY DEF FilesInv
  <1>2. CASE Submit(r, u) /\ me' = [me EXCEPT ![c] = u] /\ UNCHANGED open
    <2>1. PICK pc \in {"register", "login"} : Begin(r, pc, u, None)
      BY <1>2 DEF Submit
    <2>2. UNCHANGED <<token, sessions, now>>
      BY <1>2 DEF Submit
    <2>3. /\ me' \in [Clients -> Users \cup {None}]
          /\ \A d \in Clients : open'[d] # None => me'[d] # None
      BY <1>1, <1>2, SessionsAssumption DEF Shape
    <2>4. Shape'
      BY <1>1, <1>2, <2>1, <2>2, <2>3, BeginShape DEF Shape, Steps
    <2>. QED
      BY <1>1, <2>1, <2>4, OthersKeep, BeginShape DEF Steps
  <1>3. CASE /\ Logout(r, u) /\ me' = [me EXCEPT ![c] = None]
             /\ open' = [open EXCEPT ![c] = None]
    <2>1. Begin(r, "logout", u, token[u]) \/ UNCHANGED request
      BY <1>3 DEF Logout
    <2>2. UNCHANGED <<sessions, now>> /\ token' = [token EXCEPT ![u] = None]
      BY <1>3 DEF Logout
    <2>3. token[u] \in Tokens \cup {None}
      BY <1>1 DEF Shape
    <2>4. /\ me' \in [Clients -> Users \cup {None}]
          /\ open' \in [Clients -> Convs \cup {None}]
          /\ \A d \in Clients : open'[d] # None => me'[d] # None
      BY <1>1, <1>3 DEF Shape
    <2>5. Shape'
      BY <1>1, <1>3, <2>1, <2>2, <2>3, <2>4, BeginShape DEF Shape, Steps
    <2>. QED
      BY <1>1, <2>1, <2>3, <2>5, OthersKeep, BeginShape DEF Steps
  <1>. QED
    BY <1>2, <1>3

-----------------------------------------------------------------------------
\* A new upload owns no file yet (client/files.go, or any HTTP client).
LEMMA BeginKeeps ==
  ASSUME FilesInv, NEW r \in Requests, NEW u \in Users,
         PostForm(r, u) \/ \E c \in Clients : SendFile(r, c) /\ me[c] = u
  PROVE  FilesInv'
  <1>1. Shape /\ token[u] \in Tokens \cup {None} /\ "upload" \in Steps
    BY DEF FilesInv, Shape, Steps
  <1>2. /\ Begin(r, "upload", u, token[u])
        /\ UNCHANGED <<sessions, now, token, disk, files, me, open, abandoned>>
    BY DEF SendFile, PostForm
  <1>3. PICK row \in UploadRow : /\ upload' = [upload EXCEPT ![r] = row]
                                 /\ row.file = None /\ ~row.written
    <2>1. ASSUME NEW c \in Clients, SendFile(r, c)
          PROVE  \E row \in UploadRow : /\ upload' = [upload EXCEPT ![r] = row]
                                        /\ row.file = None /\ ~row.written
      <3>. DEFINE row == [conv |-> open[c], file |-> None, parts |-> 1, written |-> FALSE, client |-> c]
      <3>1. upload' = [upload EXCEPT ![r] = row]
        BY <2>1 DEF SendFile, NewUpload
      <3>2. row \in UploadRow
        BY <1>1 DEF Shape, UploadRow
      <3>. QED
        BY <3>1, <3>2
    <2>2. CASE PostForm(r, u)
      <3>. DEFINE row == [conv |-> None, file |-> None, parts |-> MaxParts, written |-> FALSE, client |-> None]
      <3>1. upload' = [upload EXCEPT ![r] = row]
        BY <2>2 DEF PostForm, NewUpload
      <3>2. row \in UploadRow
        BY FileTransferAssumption DEF UploadRow
      <3>. QED
        BY <3>1, <3>2
    <2>. QED
      BY <2>1, <2>2
  <1>4. Shape'
    BY <1>1, <1>2, <1>3, BeginShape DEF Shape
  <1>5. upload[r].file = None /\ ~upload[r].written
    BY <1>1, <1>2, BeginShape DEF FilesInv, Owned
  <1>6. \A q \in Requests : upload'[q].file = upload[q].file /\ upload'[q].written = upload[q].written
    BY <1>1, <1>3, <1>5 DEF Shape, UploadRow
  <1>7. Owned'
    BY <1>1, <1>2, <1>6, BeginShape DEF FilesInv, Owned, Steps
  <1>8. Apart' /\ FilesMatchRows'
    BY <1>2, <1>6 DEF FilesInv, Apart, FilesMatchRows
  <1>. QED
    BY <1>4, <1>7, <1>8 DEF FilesInv

\* A handler that returns early leaves neither a file nor a claim on one
\* (the deferred os.Remove, server/files.go).
LEMMA ReturnEarlyKeeps ==
  ASSUME FilesInv, NEW r \in Requests, ReturnEarly(r),
         UNCHANGED <<sessions, now, token, me, open, files, abandoned>>
  PROVE  FilesInv'
  <1>1. Shape /\ Answer(r)
    BY DEF FilesInv, ReturnEarly
  <1>2. NoUpload \in UploadRow /\ NoUpload.file = None /\ NoUpload.written = FALSE
    BY DEF NoUpload, NewUpload, UploadRow
  <1>3. /\ upload' = [upload EXCEPT ![r] = NoUpload]
        /\ disk' = [f \in Files |-> IF f = upload[r].file THEN "absent" ELSE disk[f]]
    BY DEF ReturnEarly, Cleanup
  <1>4. Shape'
    BY <1>1, <1>2, <1>3, AnswerShape DEF Shape
  <1>5. \A q \in Requests \ {r} : /\ upload'[q] = upload[q] /\ request'[q] = request[q]
                                  /\ upload[q].file # None => disk'[upload[q].file] = disk[upload[q].file]
    BY <1>1, <1>3, AnswerShape DEF FilesInv, Apart, Shape, UploadRow
  <1>6. upload'[r].file = None /\ upload'[r].written = FALSE /\ request'[r].pc = "idle"
    BY <1>1, <1>2, <1>3, AnswerShape DEF Shape
  <1>7. Owned'
    BY <1>5, <1>6 DEF FilesInv, Owned
  <1>8. Apart'
    BY <1>5, <1>6 DEF FilesInv, Apart
  <1>9. FilesMatchRows'
    <2>. SUFFICES ASSUME NEW f \in Files
                  PROVE  /\ files[f] # NoRow => disk'[f] = "whole"
                         /\ disk'[f] # "absent" => \/ files[f] # NoRow \/ f \in abandoned
                                                  \/ \E q \in Requests : upload'[q].file = f
      BY DEF FilesMatchRows
    <2>1. CASE f = upload[r].file
      <3>1. files[f] = NoRow
        BY <2>1, FileTransferAssumption DEF FilesInv, Owned
      <3>2. disk'[f] = "absent"
        BY <1>3, <2>1
      <3>. QED
        BY <3>1, <3>2
    <2>2. CASE f # upload[r].file
      <3>1. disk'[f] = disk[f]
        BY <1>3, <2>2
      <3>2. \A q \in Requests : upload[q].file = f => q # r /\ upload'[q].file = f
        BY <1>5, <2>2
      <3>. QED
        BY <3>1, <3>2 DEF FilesInv, FilesMatchRows
    <2>. QED
      BY <2>1, <2>2
  <1>. QED
    BY <1>4, <1>7, <1>8, <1>9 DEF FilesInv

\* uploadHandler, one step at a time (server/files.go).
LEMMA UploadKeeps ==
  ASSUME FilesInv, NEW r \in Requests, UploadStep(r)
  PROVE  FilesInv'
  <1>1. Shape
    BY DEF FilesInv
  <1>2. CASE AuthUpload(r)
    <2>1. CASE ReturnEarly(r)
      BY <1>2, <2>1, ReturnEarlyKeeps DEF AuthUpload
    <2>2. CASE Proceed(r, "parts") /\ UNCHANGED <<waiting, upload, disk>>
      <3>1. /\ Shape' /\ UNCHANGED <<upload, disk, files, abandoned>>
            /\ request[r].pc = "upload" /\ request'[r].pc = "parts"
            /\ \A q \in Requests \ {r} : request'[q] = request[q]
        BY <1>1, <1>2, <2>2, ProceedShape DEF AuthUpload, Shape, Steps
      <3>2. upload[r].file = None /\ ~upload[r].written
        BY <3>1 DEF FilesInv, Owned
      <3>3. Owned'
        BY <3>1, <3>2 DEF FilesInv, Owned
      <3>. QED
        BY <3>1, <3>3 DEF FilesInv, Apart, FilesMatchRows
    <2>. QED
      BY <1>2, <2>1, <2>2 DEF AuthUpload
  <1>3. CASE StartPart(r)
    <2>1. PICK f \in Files :
            /\ disk[f] = "absent" /\ files[f] = NoRow
            /\ disk' = [disk EXCEPT ![f] = "partial"]
            /\ upload' = [upload EXCEPT ![r].file = f, ![r].parts = @ - 1]
            /\ abandoned' = abandoned \cup ({upload[r].file} \ {None})
      BY <1>3 DEF StartPart
    <2>2. /\ Proceed(r, "copying") /\ request[r].pc = "parts"
          /\ UNCHANGED <<sessions, now, token, me, open, files>>
      BY <1>3 DEF StartPart
    <2>3. /\ upload' \in [Requests -> UploadRow] /\ upload'[r].file = f
          /\ \A q \in Requests \ {r} : upload'[q] = upload[q]
      BY <1>1, <2>1 DEF Shape, UploadRow
    <2>4. Shape'
      BY <1>1, <2>1, <2>2, <2>3, ProceedShape DEF Shape, Steps
    <2>5. \A q \in Requests : upload[q].file # f
      BY <2>1, FileTransferAssumption DEF FilesInv, Owned
    <2>6. /\ request'[r].pc = "copying"
          /\ \A q \in Requests \ {r} : request'[q] = request[q]
      BY <1>1, <2>2, ProceedShape DEF Steps
    <2>7. \A q \in Requests \ {r} : upload[q].file # None => disk'[upload[q].file] = disk[upload[q].file]
      BY <1>1, <2>1, <2>5 DEF Shape, UploadRow
    <2>8. Owned'
      BY <1>1, <2>1, <2>2, <2>3, <2>6, <2>7, FileTransferAssumption DEF FilesInv, Owned, Shape
    <2>9. Apart'
      BY <2>3, <2>5 DEF FilesInv, Apart
    <2>10. FilesMatchRows'
      BY <1>1, <2>1, <2>2, <2>3, FileTransferAssumption DEF FilesInv, FilesMatchRows, Shape
    <2>. QED
      BY <2>4, <2>8, <2>9, <2>10 DEF FilesInv
  <1>4. CASE CopyPart(r)
    <2>1. PICK f \in Files : f = upload[r].file
      BY <1>1, <1>4 DEF CopyPart, FilesInv, Owned, Shape, UploadRow
    <2>2. /\ disk' = [disk EXCEPT ![f] = "whole"] /\ upload' = [upload EXCEPT ![r].written = TRUE]
          /\ Proceed(r, "parts") /\ UNCHANGED <<sessions, now, token, me, open, files, abandoned>>
      BY <1>4, <2>1 DEF CopyPart
    <2>3. /\ upload' \in [Requests -> UploadRow] /\ upload'[r].file = f
          /\ \A q \in Requests \ {r} : upload'[q] = upload[q]
      BY <1>1, <2>1, <2>2 DEF Shape, UploadRow
    <2>4. /\ request'[r].pc = "parts"
          /\ \A q \in Requests \ {r} : request'[q] = request[q]
      BY <1>1, <2>2, ProceedShape DEF Steps
    <2>5. Shape'
      BY <1>1, <2>2, <2>3, ProceedShape DEF Shape, Steps
    <2>6. disk[f] # "absent" /\ files[f] = NoRow
      BY <2>1, FileTransferAssumption DEF FilesInv, Owned
    <2>7. \A q \in Requests \ {r} : upload[q].file # None =>
             /\ disk'[upload[q].file] = disk[upload[q].file]
      BY <1>1, <2>1, <2>2 DEF FilesInv, Apart, Shape, UploadRow
    <2>8. Owned'
      BY <1>1, <2>2, <2>3, <2>4, <2>6, <2>7, FileTransferAssumption DEF FilesInv, Owned, Shape
    <2>9. Apart'
      BY <2>1, <2>3 DEF FilesInv, Apart
    <2>10. FilesMatchRows'
      BY <1>1, <2>1, <2>2, <2>3, <2>6 DEF FilesInv, FilesMatchRows, Shape
    <2>. QED
      BY <2>5, <2>8, <2>9, <2>10 DEF FilesInv
  <1>5. CASE UploadFails(r) \/ Refuse(r)
    BY <1>5, ReturnEarlyKeeps DEF UploadFails, Refuse
  <1>6. CASE Commit(r)
    <2>1. PICK c \in Named(r) :
            /\ upload[r].written /\ c # None
            /\ files' = [files EXCEPT ![upload[r].file] = [uploader |-> request[r].user, conv |-> c]]
      BY <1>6 DEF Commit, Complete, Post
    <2>2. /\ request[r].pc = "parts" /\ Answer(r) /\ upload' = [upload EXCEPT ![r] = NoUpload]
          /\ UNCHANGED <<sessions, now, token, disk, me, open, abandoned>>
      BY <1>6 DEF Commit, Over
    <2>3. PICK f \in Files : f = upload[r].file /\ disk[f] = "whole"
      BY <1>1, <2>1, <2>2 DEF FilesInv, Owned, Shape, UploadRow
    <2>4. NoUpload \in UploadRow /\ NoUpload.file = None /\ NoUpload.written = FALSE
      BY DEF NoUpload, NewUpload, UploadRow
    <2>5. [uploader |-> request[r].user, conv |-> c] \in [uploader : Users \cup {None}, conv : Convs \cup {None}]
      <3>1. request[r].user \in Users \cup {None} /\ upload[r].conv \in Convs \cup {None}
        BY <1>1 DEF Shape, RequestRow, UploadRow
      <3>2. c \in Convs \cup {None}
        BY <3>1 DEF Named
      <3>. QED
        BY <3>1, <3>2
    <2>6. Shape'
      BY <1>1, <2>1, <2>2, <2>4, <2>5, AnswerShape DEF Shape
    <2>7. \A q \in Requests \ {r} : upload'[q] = upload[q] /\ request'[q] = request[q] /\ upload[q].file # f
      BY <1>1, <2>2, <2>3, AnswerShape, FileTransferAssumption DEF FilesInv, Apart, Shape
    <2>8. upload'[r].file = None /\ upload'[r].written = FALSE /\ request'[r].pc = "idle"
      BY <1>1, <2>2, <2>4, AnswerShape DEF Shape
    <2>9. \A g \in Files : g # f => files'[g] = files[g]
      BY <1>1, <2>1, <2>3 DEF Shape
    <2>10. Owned'
      BY <1>1, <2>2, <2>7, <2>8, <2>9 DEF FilesInv, Owned, Shape, UploadRow
    <2>11. Apart'
      BY <2>7, <2>8 DEF FilesInv, Apart
    <2>12. files'[f] # NoRow
      BY <1>1, <2>1, <2>3 DEF Shape, NoRow
    <2>13. FilesMatchRows'
      BY <2>2, <2>3, <2>7, <2>9, <2>12 DEF FilesInv, FilesMatchRows
    <2>. QED
      BY <2>6, <2>10, <2>11, <2>13 DEF FilesInv
  <1>7. CASE CreateFails(r)
    <2>1. /\ Answer(r) /\ upload' = [upload EXCEPT ![r] = NoUpload]
          /\ abandoned' = abandoned \cup ({upload[r].file} \ {None})
          /\ UNCHANGED <<sessions, now, token, disk, files, me, open>>
      BY <1>7 DEF CreateFails
    <2>2. NoUpload \in UploadRow /\ NoUpload.file = None /\ NoUpload.written = FALSE
      BY DEF NoUpload, NewUpload, UploadRow
    <2>3. Shape'
      BY <1>1, <2>1, <2>2, AnswerShape DEF Shape
    <2>4. \A q \in Requests \ {r} : upload'[q] = upload[q] /\ request'[q] = request[q]
      BY <1>1, <2>1, AnswerShape DEF Shape
    <2>5. upload'[r].file = None /\ upload'[r].written = FALSE /\ request'[r].pc = "idle"
      BY <1>1, <2>1, <2>2, AnswerShape DEF Shape
    <2>6. Owned' /\ Apart'
      BY <2>1, <2>4, <2>5 DEF FilesInv, Owned, Apart
    <2>7. \A f \in Files : (\E q \in Requests : upload[q].file = f)
                           => f \in abandoned' \/ \E q \in Requests : upload'[q].file = f
      BY <2>1, <2>4, FileTransferAssumption
    <2>8. FilesMatchRows'
      BY <2>1, <2>7 DEF FilesInv, FilesMatchRows
    <2>. QED
      BY <2>3, <2>6, <2>8 DEF FilesInv
  <1>. QED
    BY <1>2, <1>3, <1>4, <1>5, <1>6, <1>7 DEF UploadStep

-----------------------------------------------------------------------------
\* The process dies: nothing is being uploaded any more, and the files that
\* were are abandoned (server/main.go).
LEMMA RestartKeeps ==
  ASSUME FilesInv, Restart
  PROVE  FilesInv'
  <1>1. Shape /\ RestartSessions
    BY DEF FilesInv, Restart
  <1>2. /\ request' = [r \in Requests |-> Idle] /\ sessions' \in {Pruned, sessions}
        /\ upload' = [r \in Requests |-> NoUpload]
        /\ abandoned' = abandoned \cup {upload[r].file : r \in {q \in Requests : upload[q].file # None}}
        /\ UNCHANGED <<now, token, disk, files, me, open>>
    BY DEF Restart, RestartSessions
  <1>3. Idle \in RequestRow /\ Idle.pc = "idle" /\ NoSession \in SessionRow
    BY DEF Idle, RequestRow, Steps, NoSession, SessionRow
  <1>4. NoUpload \in UploadRow /\ NoUpload.file = None /\ NoUpload.written = FALSE
    BY DEF NoUpload, NewUpload, UploadRow
  <1>5. sessions' \in [Tokens -> SessionRow]
    BY <1>1, <1>2, <1>3 DEF Shape, Pruned
  <1>6. Shape'
    BY <1>1, <1>2, <1>3, <1>4, <1>5 DEF Shape
  <1>7. Owned' /\ Apart'
    BY <1>2, <1>3, <1>4 DEF Owned, Apart
  <1>8. FilesMatchRows'
    <2>1. \A f \in Files : (\E r \in Requests : upload[r].file = f) => f \in abandoned'
      BY <1>2, FileTransferAssumption
    <2>. QED
      BY <1>2, <2>1 DEF FilesInv, FilesMatchRows
  <1>. QED
    BY <1>6, <1>7, <1>8 DEF FilesInv

\* Every step of the server and of the clients.
LEMMA NextKeeps ==
  ASSUME FilesInv, [Next]_vars
  PROVE  FilesInv'
  <1>1. Actors \subseteq Users /\ Shape
    BY SessionsAssumption DEF FilesInv
  <1>2. ASSUME NEW r \in Requests, AuthStep(r) \/ AuthFails(r), UNCHANGED fileVars
        PROVE  FilesInv'
    BY <1>2, AuthKeeps
  <1>3. ASSUME NEW r \in Requests, NEW c \in Clients,
               \/ \E u \in Actors : SubmitAt(c, r, u)
               \/ LogoutClient(r, c)
        PROVE  FilesInv'
    <2>1. ASSUME NEW u \in Actors, SubmitAt(c, r, u) PROVE FilesInv'
      BY <1>1, <2>1, ClientKeeps DEF SubmitAt
    <2>2. CASE LogoutClient(r, c)
      <3>1. me[c] \in Users
        BY <1>1, <2>2 DEF Shape, LogoutClient, LoggedIn
      <3>. QED
        BY <2>2, <3>1, ClientKeeps DEF LogoutClient
    <2>. QED
      BY <1>3, <2>1, <2>2
  <1>4. ASSUME NEW u \in Actors, GiveUp(u) \/ Forget(u), UNCHANGED fileVars
        PROVE  FilesInv'
    <2>1. UNCHANGED <<request, upload, disk, files, abandoned, sessions, me, open>>
      BY <1>4 DEF GiveUp, Forget, fileVars
    <2>2. now' \in Int /\ token' \in [Users -> Tokens \cup {None}]
      BY <1>1, <1>4 DEF GiveUp, Forget, Shape
    <2>3. Shape'
      BY <1>1, <2>1, <2>2 DEF Shape
    <2>. QED
      BY <2>1, <2>3, OthersKeep
  <1>5. CASE Tick /\ UNCHANGED fileVars
    <2>1. /\ UNCHANGED <<request, upload, disk, files, abandoned, sessions, me, open, token>>
          /\ now' = now + 1
      BY <1>5 DEF Tick, fileVars
    <2>2. Shape'
      BY <1>1, <2>1 DEF Shape
    <2>. QED
      BY <2>1, <2>2, OthersKeep
  <1>6. ASSUME NEW r \in Requests, UploadStep(r) PROVE FilesInv'
    BY <1>6, UploadKeeps
  <1>7. ASSUME NEW r \in Requests,
               \/ \E u \in Actors : PostForm(r, u)
               \/ \E c \in Clients : SendFile(r, c)
        PROVE FilesInv'
    <2>1. ASSUME NEW c \in Clients, SendFile(r, c) PROVE me[c] \in Users
      BY <1>1, <2>1 DEF Shape, SendFile, LoggedIn
    <2>. QED
      BY <1>1, <1>7, <2>1, BeginKeeps
  <1>8. ASSUME NEW c \in Clients, NEW v \in Convs, OpenConversation(c, v) PROVE FilesInv'
    <2>1. /\ UNCHANGED <<request, upload, disk, files, abandoned, sessions, now, token>>
          /\ open' = [open EXCEPT ![c] = v] /\ me[c] # None /\ UNCHANGED me
      BY <1>8 DEF OpenConversation, LoggedIn, sessionVars
    <2>2. Shape'
      BY <1>1, <2>1 DEF Shape
    <2>. QED
      BY <2>1, <2>2, OthersKeep
  <1>9. CASE \/ \E m \in uploaded : HandleFileUploaded(m)
             \/ \E p \in posts : HandleFileMessage(p)
    <2>1. UNCHANGED <<request, upload, disk, files, abandoned, sessions, now, token, me, open>>
      BY <1>9 DEF HandleFileUploaded, HandleFileMessage
    <2>2. Shape'
      BY <1>1, <2>1 DEF Shape
    <2>. QED
      BY <2>1, <2>2, OthersKeep
  <1>10. CASE Restart
    BY <1>10, RestartKeeps
  <1>11. CASE UNCHANGED vars
    <2>1. UNCHANGED <<request, upload, disk, files, abandoned, sessions, now, token, me, open>>
      BY <1>11 DEF vars, sessionVars, fileVars
    <2>2. Shape'
      BY <1>1, <2>1 DEF Shape
    <2>. QED
      BY <2>1, <2>2, OthersKeep
  <1>. QED
    BY <1>2, <1>3, <1>4, <1>5, <1>6, <1>7, <1>8, <1>9, <1>10, <1>11 DEF Next

\* Nothing is stored at the beginning.
LEMMA InitHolds ==
  ASSUME Init
  PROVE  FilesInv
  <1>1. Idle \in RequestRow /\ Idle.pc = "idle" /\ NoSession \in SessionRow
    BY DEF Idle, RequestRow, Steps, NoSession, SessionRow
  <1>2. NoUpload \in UploadRow /\ NoUpload.file = None /\ NoUpload.written = FALSE
    BY DEF NoUpload, NewUpload, UploadRow
  <1>3. NoRow \in [uploader : Users \cup {None}, conv : Convs \cup {None}]
    BY DEF NoRow
  <1>4. Shape
    BY <1>1, <1>2, <1>3 DEF Init, SessionsInit, Shape
  <1>5. Owned /\ Apart /\ FilesMatchRows
    BY <1>1, <1>2 DEF Init, SessionsInit, Owned, Apart, FilesMatchRows
  <1>. QED
    BY <1>4, <1>5 DEF FilesInv

\* The strengthened invariant holds throughout.
LEMMA FilesInvHolds == FileTransferSpec => []FilesInv
  <1>1. Init => FilesInv
    BY InitHolds
  <1>2. FilesInv /\ [Next]_vars => FilesInv'
    BY NextKeeps
  <1>. QED
    BY <1>1, <1>2, PTL DEF FileTransferSpec

\* The files table and the uploads directory agree, whatever the uploads,
\* their failures, the logouts and the restarts (server/files.go).
THEOREM RowsMatchFiles == FileTransferSpec => []FilesMatchRows
  <1>1. FilesInv => FilesMatchRows
    BY DEF FilesInv
  <1>. QED
    BY <1>1, FilesInvHolds, PTL

-----------------------------------------------------------------------------
\* A step that ends a session is its logout, or comes at its expiry.
LEMMA EndsProperly ==
  ASSUME FilesInv, [Next]_vars, NEW t \in Tokens, Authorised(t), ~Authorised(t)'
  PROVE  \/ now' >= sessions[t].expires
         \/ \E r \in Requests : request[r].pc = "revoke" /\ request[r].token = t
  <1>1. Shape /\ sessions[t] # NoSession /\ sessions[t].expires > now
    BY DEF FilesInv, Authorised
  <1>2. now \in Int /\ sessions[t].expires \in Int
    BY <1>1 DEF Shape, SessionRow
  <1>3. CASE sessions'[t] = sessions[t]
    <2>1. ~(sessions[t].expires > now')
      BY <1>1, <1>3 DEF Authorised
    <2>2. now' \in Int
      BY NextKeeps DEF FilesInv, Shape
    <2>. QED
      BY <1>2, <2>1, <2>2
  <1>4. CASE sessions'[t] # sessions[t]
    <2>1. CASE \E r \in Requests : IssueSession(r)
      <3>1. PICK s \in Tokens, row \in [user : {request[r].user : r \in Requests}, expires : {now + TTL}] :
              sessions[s] = NoSession /\ sessions' = [sessions EXCEPT ![s] = row]
        BY <2>1 DEF IssueSession
      <3>. QED
        BY <1>1, <1>4, <3>1 DEF Shape
    <2>2. CASE \E r \in Requests : Revoke(r)
      <3>1. PICK r \in Requests : /\ request[r].pc = "revoke"
                                  /\ sessions' = [sessions EXCEPT ![request[r].token] = NoSession]
        BY <2>2 DEF Revoke, DeleteSession
      <3>2. request[r].token = t
        BY <1>1, <1>4, <3>1 DEF Shape
      <3>. QED
        BY <3>1, <3>2
    <2>3. CASE Restart
      <3>1. sessions' \in {Pruned, sessions}
        BY <2>3 DEF Restart, RestartSessions
      <3>2. sessions[t].expires <= now
        BY <1>4, <3>1 DEF Pruned
      <3>. QED
        BY <1>1, <1>2, <3>2
    <2>4. CASE UNCHANGED sessions
      BY <1>4, <2>4
    <2>. QED
      BY <2>1, <2>2, <2>3, <2>4
      DEF Next, vars, sessionVars, AuthStep, AuthFails, CreateUser, CheckLogin, AuthLogout, SubmitAt, Submit,
          GiveUp, Forget, Tick, UploadStep, AuthUpload, StartPart, CopyPart, CreateFails, UploadFails, Commit,
          Refuse, SendFile, PostForm, LogoutClient, Logout, OpenConversation, HandleFileUploaded,
          HandleFileMessage
  <1>. QED
    BY <1>3, <1>4

\* A session ends by its own logout or by its expiry, whatever other
\* requests, uploads, failures and restarts do (server/http.go,
\* server/main.go).
THEOREM SessionsEndProperly == FileTransferSpec => SessionsLast
  <1>1. FilesInv /\ [Next]_vars
          => [\A t \in Tokens :
                Authorised(t) /\ ~Authorised(t)'
                  => \/ now' >= sessions[t].expires
                     \/ \E r \in Requests : request[r].pc = "revoke" /\ request[r].token = t]_sessionVars
    BY EndsProperly
  <1>. QED
    BY <1>1, FilesInvHolds, PTL DEF FileTransferSpec, SessionsLast

-----------------------------------------------------------------------------
(* Who is behind a session, a request and a token.                         *)

\* A request past its checks is of a user with an account.
RequestKnown(r) ==
  \/ request[r] = Idle
  \/ request[r].pc \in {"register", "login"} /\ request[r].user \in Users
  \/ request[r].pc \in Steps \ {"idle", "register", "login"} /\ request[r].user \in accounts

\* A client waits for a request of its own, and not when it has a token.
ClientKnown(u) ==
  /\ waiting[u] # None => request[waiting[u]].user = u
  /\ token[u] # None => waiting[u] = None /\ u \in accounts

SessionKnown(t) ==
  \/ sessions[t] = NoSession
  \/ sessions[t].user \in accounts /\ sessions[t].expires \in TTL..now + TTL

Accounted ==
  /\ accounts \subseteq Users
  /\ now \in 0..MaxTime
  /\ waiting \in [Users -> Requests \cup {None}]
  /\ \A t \in Tokens : SessionKnown(t)
  /\ \A r \in Requests : RequestKnown(r)
  /\ \A u \in Users : ClientKnown(u)

\* Nobody's account goes away.
LEMMA AccountsGrow ==
  ASSUME [Next]_vars
  PROVE  accounts \subseteq accounts'
  BY DEF Next, AuthStep, CreateUser, CheckLogin, IssueSession, AuthLogout, Revoke, AuthFails,
         SubmitAt, Submit, GiveUp, Forget, Tick, UploadStep, AuthUpload, StartPart, CopyPart, CreateFails, UploadFails,
         Commit, Refuse, SendFile, PostForm, LogoutClient, Logout, OpenConversation,
         HandleFileUploaded, HandleFileMessage, Restart, RestartSessions, vars, sessionVars

\* A handler that goes on, for a user who has an account by now, and the
\* clients that wait for it.
LEMMA ProceedKnown ==
  ASSUME Shape, Accounted, NEW r \in Requests,
         NEW pc \in Steps \ {"idle", "register", "login"}, Proceed(r, pc),
         accounts \subseteq accounts', request[r].user \in accounts', UNCHANGED <<waiting, token>>
  PROVE  /\ waiting' \in [Users -> Requests \cup {None}]
         /\ \A q \in Requests : RequestKnown(q)'
         /\ \A u \in Users : ClientKnown(u)'
  <1>1. /\ request'[r].pc = pc
        /\ \A q \in Requests : request'[q].user = request[q].user
        /\ \A q \in Requests \ {r} : request'[q] = request[q]
    BY ProceedShape
  <1>2. \A q \in Requests : RequestKnown(q)'
    BY <1>1 DEF Accounted, RequestKnown
  <1>3. \A u \in Users : ClientKnown(u)'
    BY <1>1, SessionsAssumption DEF Accounted, ClientKnown
  <1>. QED
    BY <1>2, <1>3 DEF Accounted

\* A handler that answers: nobody waits for the request any more, and the
\* user it was for may have a token now.
LEMMA AnswerKnown ==
  ASSUME Shape, Accounted, NEW r \in Requests, Answer(r), accounts \subseteq accounts',
         \A u \in Users : \/ token'[u] = token[u]
                          \/ u = request[r].user /\ u \in accounts /\ waiting[u] = r
  PROVE  /\ waiting' \in [Users -> Requests \cup {None}]
         /\ \A q \in Requests : RequestKnown(q)'
         /\ \A u \in Users : ClientKnown(u)'
  <1>1. /\ request' = [request EXCEPT ![r] = Idle]
        /\ waiting' = [u \in Users |-> IF waiting[u] = r THEN None ELSE waiting[u]]
    BY DEF Answer
  <1>2. \A q \in Requests : RequestKnown(q)'
    BY <1>1 DEF Shape, Accounted, RequestKnown
  <1>3. ASSUME NEW u \in Users PROVE ClientKnown(u)'
    <2>1. waiting'[u] # None => waiting'[u] # r /\ waiting'[u] = waiting[u] /\ waiting[u] \in Requests
      BY <1>1 DEF Accounted
    <2>2. waiting'[u] # None => request'[waiting'[u]].user = u
      BY <1>1, <2>1 DEF Shape, Accounted, ClientKnown
    <2>3. token'[u] # None => waiting'[u] = None /\ u \in accounts'
      BY <1>1 DEF Accounted, ClientKnown
    <2>. QED
      BY <2>2, <2>3 DEF ClientKnown
  <1>4. waiting' \in [Users -> Requests \cup {None}]
    BY <1>1 DEF Accounted
  <1>. QED
    BY <1>2, <1>3, <1>4

\* A request begins for a user that may wait for it; nobody waited for an
\* idle one.
LEMMA BeginKnown ==
  ASSUME Shape, Accounted, NEW r \in Requests, NEW pc \in Steps, NEW u \in Users,
         NEW t, Begin(r, pc, u, t), UNCHANGED accounts,
         \/ pc \in {"register", "login"}
         \/ pc \notin {"idle", "register", "login"} /\ u \in accounts,
         \/ waiting' = waiting /\ token' = token
         \/ waiting' = waiting /\ token' = [token EXCEPT ![u] = None]
         \/ waiting' = [waiting EXCEPT ![u] = r] /\ token' = token /\ token[u] = None
  PROVE  /\ waiting' \in [Users -> Requests \cup {None}]
         /\ \A q \in Requests : RequestKnown(q)'
         /\ \A v \in Users : ClientKnown(v)'
  <1>1. /\ request' = [request EXCEPT ![r] = [pc |-> pc, user |-> u, token |-> t]]
        /\ request[r] = Idle
    BY DEF Begin
  <1>2. \A q \in Requests : RequestKnown(q)'
    BY <1>1 DEF Shape, Accounted, RequestKnown
  <1>3. \A v \in Users : waiting[v] # r
    BY <1>1, SessionsAssumption DEF Accounted, ClientKnown, Idle
  <1>4. \A q \in Requests \ {r} : request'[q] = request[q]
    BY <1>1 DEF Shape
  <1>5. request'[r].user = u
    BY <1>1 DEF Shape
  <1>6. ASSUME NEW v \in Users PROVE ClientKnown(v)'
    <2>1. \/ waiting'[v] = waiting[v] /\ token'[v] \in {token[v], None}
          \/ v = u /\ waiting'[v] = r /\ token'[v] = None
      BY DEF Shape, Accounted
    <2>2. CASE waiting'[v] = waiting[v] /\ token'[v] \in {token[v], None}
      <3>1. waiting[v] \in Requests \cup {None} /\ ClientKnown(v) /\ waiting[v] # r
        BY <1>3 DEF Accounted
      <3>. QED
        BY <1>4, <2>2, <3>1 DEF ClientKnown
    <2>3. CASE v = u /\ waiting'[v] = r /\ token'[v] = None
      BY <1>5, <2>3 DEF ClientKnown
    <2>. QED
      BY <2>1, <2>2, <2>3
  <1>7. waiting' \in [Users -> Requests \cup {None}]
    BY DEF Accounted
  <1>. QED
    BY <1>2, <1>6, <1>7

\* What leaves requests alone, and takes at most a token or a wait away.
LEMMA ClientsKnown ==
  ASSUME Shape, Accounted, UNCHANGED <<request, accounts>>,
         waiting' \in [Users -> Requests \cup {None}],
         \A u \in Users : waiting'[u] \in {waiting[u], None} /\ token'[u] \in {token[u], None}
  PROVE  /\ \A q \in Requests : RequestKnown(q)'
         /\ \A u \in Users : ClientKnown(u)'
  <1>1. \A q \in Requests : RequestKnown(q)'
    BY DEF Accounted, RequestKnown
  <1>2. \A u \in Users : ClientKnown(u)'
    BY DEF Accounted, ClientKnown
  <1>. QED
    BY <1>1, <1>2

\* Sessions stay known while the clock moves on and accounts are added.
LEMMA SessionStays ==
  ASSUME Accounted, NEW t \in Tokens, sessions'[t] \in {sessions[t], NoSession},
         accounts \subseteq accounts', now' \in Int, now <= now'
  PROVE  SessionKnown(t)'
  BY SessionsAssumption DEF Accounted, SessionKnown

\* Every step of the server and of the clients keeps the books.
LEMMA AccountedStep ==
  ASSUME FilesInv, Accounted, [Next]_vars
  PROVE  Accounted'
  <1>1. Shape /\ accounts \subseteq accounts' /\ Actors \subseteq Users /\ now \in Nat
    BY AccountsGrow, SessionsAssumption DEF FilesInv, Accounted
  <1>2. ASSUME UNCHANGED <<sessions, now>>, accounts' \subseteq Users,
               waiting' \in [Users -> Requests \cup {None}],
               \A q \in Requests : RequestKnown(q)',
               \A u \in Users : ClientKnown(u)'
        PROVE  Accounted'
    BY <1>1, <1>2, SessionStays DEF Accounted
  <1>3. ASSUME NEW r \in Requests, CreateUser(r) PROVE Accounted'
    <2>1. request[r].user \in Users
      BY <1>3 DEF CreateUser, Accounted, RequestKnown, Idle
    <2>2. UNCHANGED <<sessions, now, token>> /\ accounts' \subseteq Users
      BY <1>3, <2>1 DEF CreateUser, Accounted
    <2>3. CASE Answer(r)
      BY <1>1, <1>2, <2>2, <2>3, AnswerKnown
    <2>4. CASE Proceed(r, "issue") /\ waiting' = waiting /\ accounts' = accounts \cup {request[r].user}
      <3>1. "issue" \in Steps \ {"idle", "register", "login"}
        BY DEF Steps
      <3>. QED
        BY <1>1, <1>2, <2>2, <2>4, <3>1, ProceedKnown
    <2>. QED
      BY <1>3, <2>3, <2>4 DEF CreateUser
  <1>4. ASSUME NEW r \in Requests, CheckLogin(r) PROVE Accounted'
    <2>1. UNCHANGED <<accounts, sessions, now, token>> /\ accounts \subseteq Users
      BY <1>4 DEF CheckLogin, Accounted
    <2>2. CASE Answer(r)
      BY <1>1, <1>2, <2>1, <2>2, AnswerKnown
    <2>3. CASE request[r].user \in accounts /\ Proceed(r, "issue") /\ waiting' = waiting
      <3>1. "issue" \in Steps \ {"idle", "register", "login"}
        BY DEF Steps
      <3>. QED
        BY <1>1, <1>2, <2>1, <2>3, <3>1, ProceedKnown
    <2>. QED
      BY <1>4, <2>2, <2>3 DEF CheckLogin
  <1>5. ASSUME NEW r \in Requests, IssueSession(r) PROVE Accounted'
    <2>. DEFINE u == request[r].user
    <2>1. PICK t \in Tokens :
            /\ sessions' = [sessions EXCEPT ![t] = [user |-> u, expires |-> now + TTL]]
            /\ token' = IF waiting[u] = r THEN [token EXCEPT ![u] = t] ELSE token
      BY <1>5 DEF IssueSession
    <2>2. Answer(r) /\ UNCHANGED <<accounts, now>> /\ request[r].pc = "issue"
      BY <1>5 DEF IssueSession
    <2>3. u \in accounts /\ u \in Users
      BY <2>2 DEF Accounted, RequestKnown, Idle
    <2>4. ASSUME NEW s \in Tokens PROVE SessionKnown(s)'
      <3>1. CASE s = t
        <4>1. sessions'[s] = [user |-> u, expires |-> now + TTL]
          BY <1>1, <2>1, <3>1 DEF Shape
        <4>. QED
          BY <1>1, <2>2, <2>3, <4>1, SessionsAssumption DEF SessionKnown
      <3>2. CASE s # t
        BY <1>1, <2>1, <2>2, <3>2, SessionStays DEF Shape
      <3>. QED
        BY <3>1, <3>2
    <2>5. \A v \in Users : \/ token'[v] = token[v]
                           \/ v = u /\ v \in accounts /\ waiting[v] = r
      BY <1>1, <2>1, <2>3 DEF Shape
    <2>. QED
      BY <1>1, <2>2, <2>4, <2>5, AnswerKnown DEF Accounted
  <1>6. ASSUME NEW r \in Requests, AuthLogout(r) PROVE Accounted'
    <2>1. /\ UNCHANGED <<accounts, sessions, now, token>> /\ accounts \subseteq Users
          /\ request[r].pc = "logout"
      BY <1>6 DEF AuthLogout, Accounted
    <2>2. CASE Answer(r)
      BY <1>1, <1>2, <2>1, <2>2, AnswerKnown
    <2>3. CASE Proceed(r, "revoke") /\ waiting' = waiting
      <3>1. "revoke" \in Steps \ {"idle", "register", "login"} /\ request[r].user \in accounts
        BY <2>1 DEF Steps, Accounted, RequestKnown, Idle
      <3>. QED
        BY <1>1, <1>2, <2>1, <2>3, <3>1, ProceedKnown
    <2>. QED
      BY <1>6, <2>2, <2>3 DEF AuthLogout
  <1>7. ASSUME NEW r \in Requests, Revoke(r) PROVE Accounted'
    <2>1. Answer(r) /\ UNCHANGED <<accounts, now, token>>
      BY <1>7 DEF Revoke
    <2>2. \A t \in Tokens : sessions'[t] \in {sessions[t], NoSession}
      BY <1>1, <1>7 DEF Revoke, DeleteSession, Shape
    <2>3. \A t \in Tokens : SessionKnown(t)'
      BY <1>1, <2>1, <2>2, SessionStays
    <2>. QED
      BY <1>1, <2>1, <2>3, AnswerKnown DEF Accounted
  <1>8. ASSUME NEW r \in Requests,
               AuthFails(r) \/ CreateFails(r) \/ UploadFails(r) \/ Refuse(r) \/ Commit(r)
        PROVE  Accounted'
    <2>1. Answer(r) /\ UNCHANGED <<accounts, sessions, now, token>> /\ accounts \subseteq Users
      BY <1>8 DEF AuthFails, CreateFails, UploadFails, Refuse, Commit, ReturnEarly, Accounted
    <2>. QED
      BY <1>1, <1>2, <2>1, AnswerKnown
  <1>9. ASSUME NEW r \in Requests, AuthUpload(r) \/ StartPart(r) \/ CopyPart(r) PROVE Accounted'
    <2>1. /\ UNCHANGED <<accounts, sessions, now, token>> /\ accounts \subseteq Users
          /\ request[r].pc \in {"upload", "parts", "copying"}
      BY <1>9 DEF AuthUpload, StartPart, CopyPart, Accounted
    <2>2. CASE Answer(r)
      BY <1>1, <1>2, <2>1, <2>2, AnswerKnown
    <2>3. ASSUME NEW pc \in {"parts", "copying"}, Proceed(r, pc), waiting' = waiting
          PROVE  Accounted'
      <3>1. pc \in Steps \ {"idle", "register", "login"} /\ request[r].user \in accounts
        BY <2>1 DEF Steps, Accounted, RequestKnown, Idle
      <3>. QED
        BY <1>1, <1>2, <2>1, <2>3, <3>1, ProceedKnown
    <2>. QED
      BY <1>9, <2>2, <2>3 DEF AuthUpload, StartPart, CopyPart, ReturnEarly
  <1>10. ASSUME NEW r \in Requests, NEW u \in Users,
                \/ Submit(r, u) \/ PostForm(r, u) \/ Logout(r, u)
                \/ \E c \in Clients : SendFile(r, c) /\ me[c] = u
         PROVE  Accounted'
    <2>1. u \in Users /\ UNCHANGED <<accounts, sessions, now>> /\ accounts \subseteq Users
      BY <1>1, <1>10 DEF Submit, SendFile, PostForm, Logout, Accounted
    <2>2. CASE Submit(r, u)
      <3>1. PICK pc \in {"register", "login"} : Begin(r, pc, u, None)
        BY <2>2 DEF Submit
      <3>2. pc \in Steps
        BY DEF Steps
      <3>3. waiting' = [waiting EXCEPT ![u] = r] /\ token' = token /\ token[u] = None
        BY <2>2 DEF Submit
      <3>. QED
        BY <1>1, <1>2, <2>1, <3>1, <3>2, <3>3, BeginKnown
    <2>3. ASSUME NEW pc \in {"upload", "logout"}, Begin(r, pc, u, token[u]), token[u] # None,
                 waiting' = waiting,
                 token' = token \/ token' = [token EXCEPT ![u] = None]
          PROVE  Accounted'
      <3>1. u \in accounts /\ pc \in Steps
        BY <2>1, <2>3 DEF Accounted, ClientKnown, Steps
      <3>. QED
        BY <1>1, <1>2, <2>1, <2>3, <3>1, BeginKnown
    <2>4. CASE Logout(r, u) /\ UNCHANGED request
      <3>1. UNCHANGED waiting /\ token' = [token EXCEPT ![u] = None]
        BY <2>4 DEF Logout
      <3>2. \A v \in Users : waiting'[v] \in {waiting[v], None} /\ token'[v] \in {token[v], None}
        BY <1>1, <3>1 DEF Shape
      <3>3. waiting' \in [Users -> Requests \cup {None}]
        BY <3>1 DEF Accounted
      <3>. QED
        BY <1>1, <1>2, <2>1, <2>4, <3>2, <3>3, ClientsKnown
    <2>. QED
      BY <1>10, <2>2, <2>3, <2>4 DEF SendFile, PostForm, Logout, LoggedIn
  <1>11. ASSUME NEW u \in Actors, GiveUp(u) \/ Forget(u) PROVE Accounted'
    <2>1. UNCHANGED <<request, accounts, sessions, now>> /\ accounts \subseteq Users
      BY <1>11 DEF GiveUp, Forget, Accounted
    <2>2. /\ waiting' \in [Users -> Requests \cup {None}]
          /\ \A v \in Users : waiting'[v] \in {waiting[v], None} /\ token'[v] \in {token[v], None}
      BY <1>1, <1>11 DEF GiveUp, Forget, Accounted, Shape
    <2>. QED
      BY <1>1, <1>2, <2>1, <2>2, ClientsKnown
  <1>12. CASE Tick
    <2>1. UNCHANGED <<request, accounts, sessions, waiting, token>> /\ now' = now + 1 /\ now < MaxTime
      BY <1>12 DEF Tick
    <2>2. \A t \in Tokens : SessionKnown(t)'
      BY <1>1, <2>1, SessionStays
    <2>3. now' \in 0..MaxTime
      BY <1>1, <2>1, SessionsAssumption
    <2>. QED
      BY <2>1, <2>2, <2>3 DEF Accounted, RequestKnown, ClientKnown
  <1>13. CASE Restart
    <2>1. /\ request' = [r \in Requests |-> Idle] /\ waiting' = [u \in Users |-> None]
          /\ sessions' \in {Pruned, sessions} /\ UNCHANGED <<accounts, now, token>>
      BY <1>13 DEF Restart, RestartSessions
    <2>2. \A t \in Tokens : sessions'[t] \in {sessions[t], NoSession}
      BY <2>1 DEF Pruned
    <2>3. \A t \in Tokens : SessionKnown(t)'
      BY <1>1, <2>1, <2>2, SessionStays
    <2>4. \A q \in Requests : RequestKnown(q)'
      BY <2>1 DEF RequestKnown
    <2>5. \A u \in Users : ClientKnown(u)'
      BY <2>1 DEF Accounted, ClientKnown
    <2>. QED
      BY <2>1, <2>3, <2>4, <2>5 DEF Accounted
  <1>14. CASE UNCHANGED <<accounts, sessions, now, request, waiting, token>>
    BY <1>14 DEF Accounted, SessionKnown, RequestKnown, ClientKnown
  <1>15. ASSUME NEW r \in Requests, NEW c \in Clients,
                \/ SendFile(r, c) \/ LogoutClient(r, c)
                \/ \E u \in Actors : SubmitAt(c, r, u)
         PROVE  Accounted'
    <2>1. CASE SendFile(r, c) \/ LogoutClient(r, c)
      <3>1. me[c] \in Users
        BY <1>1, <2>1 DEF Shape, SendFile, LogoutClient, LoggedIn
      <3>. QED
        BY <1>10, <2>1, <3>1 DEF LogoutClient
    <2>2. CASE \E u \in Actors : SubmitAt(c, r, u)
      BY <1>1, <1>10, <2>2 DEF SubmitAt
    <2>. QED
      BY <1>15, <2>1, <2>2
  <1>. QED
    BY <1>1, <1>15, <1>3, <1>4, <1>5, <1>6, <1>7, <1>8, <1>9, <1>10, <1>11, <1>12, <1>13, <1>14
    DEF Next, AuthStep, UploadStep, OpenConversation, HandleFileUploaded,
        HandleFileMessage, vars, sessionVars

-----------------------------------------------------------------------------
(* Uploads, rows and messages.                                             *)

\* What an upload has of its request, and what a row says.
Uploading ==
  /\ \A r \in Requests :
       /\ request[r].pc \notin {"upload", "parts", "copying"} => upload[r] = NoUpload
       /\ request[r].pc = "copying" => disk[upload[r].file] = "partial"
       /\ upload[r].parts \in 0..MaxParts
  /\ \A f \in Files : files[f] = NoRow \/ files[f] \in [uploader : accounts, conv : Convs]

\* A row, once written, stays as it is.
LEMMA RowsStay ==
  ASSUME FilesInv, [Next]_vars
  PROVE  \A f \in Files : files[f] # NoRow => files'[f] = files[f]
  <1>1. ASSUME NEW r \in Requests, Commit(r)
        PROVE  \A f \in Files : files[f] # NoRow => files'[f] = files[f]
    <2>1. PICK row : files' = [files EXCEPT ![upload[r].file] = row]
      BY <1>1 DEF Commit, Post
    <2>2. upload[r].file # None => files[upload[r].file] = NoRow
      BY DEF FilesInv, Owned
    <2>. QED
      BY <2>1, <2>2, FileTransferAssumption DEF FilesInv, Shape
  <1>2. (\E r \in Requests : Commit(r)) \/ UNCHANGED files
    BY DEF Next, fileVars, UploadStep, AuthUpload, StartPart, CopyPart, CreateFails, UploadFails,
           Refuse, SubmitAt, SendFile, PostForm, LogoutClient, OpenConversation,
           HandleFileUploaded, HandleFileMessage, Restart, vars
  <1>. QED
    BY <1>1, <1>2

\* Requests that are no upload, before or after.
LEMMA NoUploadMoves ==
  ASSUME FilesInv, Uploading, UNCHANGED <<upload, disk, files>>, accounts \subseteq accounts',
         \A r \in Requests : \/ request'[r] = request[r]
                             \/ request[r].pc \notin {"upload", "parts", "copying"}
                                /\ request'[r].pc # "copying"
  PROVE  Uploading'
  BY DEF Uploading

\* An upload that moves: the others have files of their own.
LEMMA OneUploadMoves ==
  ASSUME FilesInv, Uploading, accounts \subseteq accounts', NEW r \in Requests,
         \A q \in Requests \ {r} : /\ request'[q] = request[q]
                                   /\ upload'[q] = upload[q]
                                   /\ request[q].pc = "copying"
                                      => disk'[upload[q].file] = disk[upload[q].file],
         request'[r].pc \notin {"upload", "parts", "copying"} => upload'[r] = NoUpload,
         request'[r].pc = "copying" => disk'[upload'[r].file] = "partial",
         upload'[r].parts \in 0..MaxParts,
         \A f \in Files : files'[f] = NoRow \/ files'[f] \in [uploader : accounts', conv : Convs]
  PROVE  Uploading'
  BY DEF Uploading

\* A handler that returns early removes its own file only.
LEMMA EarlyReturn ==
  ASSUME FilesInv, Uploading, accounts \subseteq accounts', NEW r \in Requests,
         ReturnEarly(r), UNCHANGED files
  PROVE  Uploading'
  <1>1. Shape /\ NoUpload.parts = 0 /\ 0 \in 0..MaxParts
    BY FileTransferAssumption DEF FilesInv, NoUpload, NewUpload
  <1>2. /\ upload'[r] = NoUpload /\ \A q \in Requests \ {r} : upload'[q] = upload[q]
        /\ request'[r].pc = "idle" /\ \A q \in Requests \ {r} : request'[q] = request[q]
    BY <1>1, AnswerShape DEF ReturnEarly, Shape
  <1>3. \A q \in Requests \ {r} : request[q].pc = "copying"
                                  => disk'[upload[q].file] = disk[upload[q].file]
    <2>. SUFFICES ASSUME NEW q \in Requests \ {r}, request[q].pc = "copying"
                  PROVE  disk'[upload[q].file] = disk[upload[q].file]
      OBVIOUS
    <2>1. upload[q].file \in Files /\ upload[q].file # upload[r].file
      BY DEF FilesInv, Owned, Apart, Shape, UploadRow
    <2>. QED
      BY <2>1 DEF ReturnEarly, Cleanup
  <1>4. \A f \in Files : files'[f] = NoRow \/ files'[f] \in [uploader : accounts', conv : Convs]
    BY DEF Uploading
  <1>. QED
    BY <1>1, <1>2, <1>3, <1>4, OneUploadMoves

\* A row is written for a user with an account, in a conversation
\* (files.go:151-179).
LEMMA CommitUploads ==
  ASSUME FilesInv, Accounted, Uploading, NEW r \in Requests, Commit(r)
  PROVE  Uploading'
  <1>1. PICK c \in Named(r) :
          /\ c # None /\ request[r].user \in c
          /\ files' = [files EXCEPT ![upload[r].file] = [uploader |-> request[r].user, conv |-> c]]
    BY DEF Commit, Complete, Post
  <1>2. /\ Shape /\ NoUpload.parts = 0 /\ 0 \in 0..MaxParts /\ UNCHANGED <<disk, accounts>>
        /\ upload'[r] = NoUpload /\ \A q \in Requests \ {r} : upload'[q] = upload[q]
        /\ request'[r].pc = "idle" /\ \A q \in Requests \ {r} : request'[q] = request[q]
    BY FileTransferAssumption, AnswerShape DEF FilesInv, NoUpload, NewUpload, Commit, Shape
  <1>3. c \in Convs
    BY <1>1, <1>2 DEF Named, Shape, UploadRow
  <1>4. request[r].user \in accounts
    BY DEF Commit, Over, Accounted, RequestKnown, Idle
  <1>5. \A f \in Files : files'[f] = NoRow \/ files'[f] \in [uploader : accounts', conv : Convs]
    BY <1>1, <1>2, <1>3, <1>4 DEF Uploading, Shape
  <1>. QED
    BY <1>2, <1>5, OneUploadMoves

\* Every step keeps the books of the uploads.
LEMMA UploadingStep ==
  ASSUME FilesInv, Accounted, Uploading, [Next]_vars
  PROVE  Uploading'
  <1>1. /\ Shape /\ accounts \subseteq accounts' /\ Actors \subseteq Users
        /\ \A f \in Files : files[f] = NoRow \/ files[f] \in [uploader : accounts', conv : Convs]
    BY AccountsGrow, SessionsAssumption DEF FilesInv, Uploading
  <1>2. ASSUME NEW r \in Requests, AuthStep(r) \/ AuthFails(r), UNCHANGED fileVars
        PROVE  Uploading'
    <2>1. \/ Answer(r)
          \/ Proceed(r, "issue") \/ Proceed(r, "revoke")
      BY <1>2 DEF AuthStep, AuthFails, CreateUser, CheckLogin, IssueSession, AuthLogout, Revoke
    <2>2. request[r].pc \notin {"upload", "parts", "copying"}
      BY <1>2 DEF AuthStep, AuthFails, CreateUser, CheckLogin, IssueSession, AuthLogout, Revoke
    <2>3. \A q \in Requests : request'[q] = request[q] \/ (q = r /\ request'[q].pc # "copying")
      BY <1>1, <2>1, AnswerShape, ProceedShape DEF Steps
    <2>. QED
      BY <1>1, <1>2, <2>2, <2>3, NoUploadMoves DEF fileVars
  <1>3. ASSUME NEW r \in Requests, NEW u \in Users, Submit(r, u) \/ Logout(r, u),
               UNCHANGED <<upload, disk, files>>
        PROVE  Uploading'
    <2>1. \/ UNCHANGED request
          \/ \E pc \in {"register", "login", "logout"} :
                request[r] = Idle
                /\ \E t : request' = [request EXCEPT ![r] = [pc |-> pc, user |-> u, token |-> t]]
      BY <1>3 DEF Submit, Logout, Begin
    <2>2. \A q \in Requests : \/ request'[q] = request[q]
                              \/ request[q].pc = "idle" /\ request'[q].pc # "copying"
      BY <1>1, <2>1 DEF Shape, Idle
    <2>. QED
      BY <1>1, <1>3, <2>2, NoUploadMoves
  <1>4. ASSUME NEW r \in Requests, NEW u \in Users,
               PostForm(r, u) \/ \E c \in Clients : SendFile(r, c) /\ me[c] = u
        PROVE  Uploading'
    <2>1. upload'[r].parts \in {1, MaxParts} /\ \A q \in Requests \ {r} : upload'[q] = upload[q]
      BY <1>1, <1>4 DEF SendFile, PostForm, NewUpload, Shape
    <2>2. /\ Begin(r, "upload", u, token[u]) /\ UNCHANGED <<disk, files>>
          /\ token[u] \in Tokens \cup {None} /\ u \in Users /\ "upload" \in Steps
      BY <1>1, <1>4 DEF SendFile, PostForm, Shape, Steps
    <2>3. request'[r].pc = "upload" /\ \A q \in Requests \ {r} : request'[q] = request[q]
      BY <1>1, <2>2, BeginShape
    <2>4. upload'[r].parts \in 0..MaxParts
      BY <2>1, FileTransferAssumption
    <2>. QED
      BY <1>1, <2>1, <2>2, <2>3, <2>4, OneUploadMoves
  <1>5. ASSUME NEW r \in Requests, AuthUpload(r) PROVE Uploading'
    <2>1. CASE ReturnEarly(r)
      BY <1>1, <1>5, <2>1, EarlyReturn DEF AuthUpload
    <2>2. CASE Proceed(r, "parts") /\ UNCHANGED <<upload, disk>>
      <3>1. /\ request'[r].pc = "parts" /\ \A q \in Requests \ {r} : request'[q] = request[q]
            /\ UNCHANGED files
        BY <1>1, <1>5, <2>2, ProceedShape DEF Steps, AuthUpload
      <3>. QED
        BY <1>1, <2>2, <3>1 DEF Uploading
    <2>. QED
      BY <1>5, <2>1, <2>2 DEF AuthUpload
  <1>6. ASSUME NEW r \in Requests, StartPart(r) PROVE Uploading'
    <2>1. PICK f \in Files :
            /\ disk[f] = "absent" /\ disk' = [disk EXCEPT ![f] = "partial"]
            /\ upload' = [upload EXCEPT ![r].file = f, ![r].parts = @ - 1]
      BY <1>6 DEF StartPart
    <2>2. /\ upload'[r].file = f /\ upload'[r].parts = upload[r].parts - 1
          /\ \A q \in Requests \ {r} : upload'[q] = upload[q]
      BY <1>1, <2>1 DEF Shape, UploadRow
    <2>3. /\ request'[r].pc = "copying" /\ \A q \in Requests \ {r} : request'[q] = request[q]
          /\ UNCHANGED files /\ upload[r].parts > 0
      BY <1>1, <1>6, ProceedShape DEF Steps, StartPart
    <2>4. upload'[r].parts \in 0..MaxParts
      BY <2>2, <2>3, FileTransferAssumption DEF Uploading
    <2>5. \A q \in Requests \ {r} : request[q].pc = "copying"
                                    => disk'[upload[q].file] = disk[upload[q].file]
      BY <1>1, <2>1 DEF Uploading, Shape
    <2>6. disk'[upload'[r].file] = "partial"
      BY <1>1, <2>1, <2>2 DEF Shape
    <2>. QED
      BY <1>1, <2>2, <2>3, <2>4, <2>5, <2>6, OneUploadMoves
  <1>7. ASSUME NEW r \in Requests, CopyPart(r) PROVE Uploading'
    <2>1. /\ disk' = [disk EXCEPT ![upload[r].file] = "whole"]
          /\ upload' = [upload EXCEPT ![r].written = TRUE]
          /\ UNCHANGED files /\ request[r].pc = "copying"
      BY <1>7 DEF CopyPart
    <2>2. upload'[r].parts = upload[r].parts /\ \A q \in Requests \ {r} : upload'[q] = upload[q]
      BY <1>1, <2>1 DEF Shape, UploadRow
    <2>3. request'[r].pc = "parts" /\ \A q \in Requests \ {r} : request'[q] = request[q]
      BY <1>1, <1>7, ProceedShape DEF Steps, CopyPart
    <2>4. \A q \in Requests \ {r} : request[q].pc = "copying"
                                    => disk'[upload[q].file] = disk[upload[q].file]
      BY <1>1, <2>1 DEF FilesInv, Owned, Apart, Shape
    <2>5. upload'[r].parts \in 0..MaxParts
      BY <2>2 DEF Uploading
    <2>. QED
      BY <1>1, <2>1, <2>2, <2>3, <2>4, <2>5, OneUploadMoves
  <1>8. ASSUME NEW r \in Requests, UploadFails(r) \/ Refuse(r) PROVE Uploading'
    BY <1>1, <1>8, EarlyReturn DEF UploadFails, Refuse
  <1>11. ASSUME NEW r \in Requests, CreateFails(r) PROVE Uploading'
    <2>1. /\ upload' = [upload EXCEPT ![r] = NoUpload] /\ UNCHANGED <<disk, files>> /\ Answer(r)
          /\ NoUpload.parts = 0 /\ 0 \in 0..MaxParts
      BY <1>11, FileTransferAssumption DEF CreateFails, NoUpload, NewUpload
    <2>2. /\ upload'[r] = NoUpload /\ \A q \in Requests \ {r} : upload'[q] = upload[q]
          /\ request'[r].pc = "idle" /\ \A q \in Requests \ {r} : request'[q] = request[q]
      BY <1>1, <2>1, AnswerShape DEF Shape
    <2>. QED
      BY <1>1, <2>1, <2>2, OneUploadMoves
  <1>12. ASSUME NEW r \in Requests, NEW c \in Clients,
                \/ SendFile(r, c) \/ LogoutClient(r, c)
                \/ \E u \in Actors : SubmitAt(c, r, u)
         PROVE  Uploading'
    <2>1. CASE SendFile(r, c) \/ LogoutClient(r, c)
      <3>1. me[c] \in Users
        BY <1>1, <2>1 DEF Shape, SendFile, LogoutClient, LoggedIn
      <3>. QED
        BY <1>3, <1>4, <2>1, <3>1 DEF LogoutClient
    <2>2. CASE \E u \in Actors : SubmitAt(c, r, u)
      BY <1>1, <1>3, <2>2 DEF SubmitAt
    <2>. QED
      BY <1>12, <2>1, <2>2
  <1>9. CASE Restart
    <2>1. /\ request' = [r \in Requests |-> Idle] /\ upload' = [r \in Requests |-> NoUpload]
          /\ UNCHANGED <<disk, files, accounts>>
      BY <1>9 DEF Restart, RestartSessions
    <2>2. NoUpload.parts = 0 /\ 0 \in 0..MaxParts /\ Idle.pc = "idle"
      BY FileTransferAssumption DEF NoUpload, NewUpload, Idle
    <2>. QED
      BY <1>1, <2>1, <2>2 DEF Uploading
  <1>10. CASE UNCHANGED <<request, upload, disk, files>>
    BY <1>1, <1>10 DEF Uploading
  <1>. QED
    BY <1>1, <1>11, <1>12, <1>2, <1>4, <1>5, <1>6, <1>7, <1>8, <1>9, <1>10, CommitUploads
    DEF Next, UploadStep, GiveUp, Forget, Tick, OpenConversation,
        HandleFileUploaded, HandleFileMessage, vars, sessionVars, fileVars

-----------------------------------------------------------------------------
(* From an upload to a message both participants can read.                 *)

\* A message of a user, in a conversation, with a file.
FileMessage(m) == m.from \in Users /\ m.conv \in Convs /\ m.file \in Files

\* A message names a file of its own sender and conversation.
Announced(m) ==
  /\ FileMessage(m)
  /\ files[m.file] = [uploader |-> m.from, conv |-> m.conv]
  /\ m.from \in m.conv

\* What the client is told of is an upload of its own; what it posts is that
\* user's too, unless it is somebody else's by now or shows another
\* conversation; and a message that is
\* shown as sent is on its way, in the table, or accounted for.
Sharing ==
  /\ \A m \in uploaded \cup messages : Announced(m)
  /\ \A m \in uploaded : m.at \in Clients
  /\ messages \cup posts \subseteq shown
  /\ \A p \in shown : /\ FileMessage(p)
                      /\ files[p.file] # NoRow
                      /\ p \in posts \cup messages \/ p.file \in unshared
  /\ \A p \in posts : Announced(p) \/ p.file \in unshared

\* A row that is there stays, so what names it stays right.
LEMMA AnnouncedStays ==
  ASSUME FilesInv, [Next]_vars, NEW m, Announced(m)
  PROVE  Announced(m)' /\ files[m.file] # NoRow
  <1>1. m.file \in Files /\ m.from \in Users /\ m.conv \in Convs
    BY DEF Announced, FileMessage
  <1>2. files[m.file] # NoRow
    <2>1. files[m.file].conv # None
      BY <1>1, FileTransferAssumption DEF Announced
    <2>. QED
      BY <2>1 DEF NoRow
  <1>. QED
    BY <1>1, <1>2, RowsStay DEF Announced

\* The client shows a message and posts it, for the conversation that is
\* open by now (update.go:818-826).
LEMMA UploadedShares ==
  ASSUME FilesInv, Sharing, [Next]_vars, NEW m \in uploaded, HandleFileUploaded(m)
  PROVE  Sharing'
  <1>. PICK c : c = m.at
    OBVIOUS
  <1>. PICK p : p = Post(me[c], open[c], m.file)
    OBVIOUS
  <1>1. /\ Announced(m) /\ Announced(m)' /\ files[m.file] # NoRow
        /\ c \in Clients /\ m.file \in Files
    BY AnnouncedStays DEF Sharing, Announced, FileMessage
  <1>2. UNCHANGED <<files, messages>> /\ uploaded' = uploaded \ {m}
    BY DEF HandleFileUploaded
  <1>3. CASE open[c] = None /\ UNCHANGED <<posts, shown, unshared>>
    BY <1>2, <1>3 DEF Sharing, Announced
  <1>4. CASE /\ open[c] # None
             /\ shown' = shown \cup {p}
             /\ \/ /\ posts' = posts \cup {p}
                   /\ unshared' = IF p.from = m.from /\ p.conv = m.conv
                                  THEN unshared ELSE unshared \cup {m.file}
                \/ /\ posts' = posts
                   /\ unshared' = unshared \cup {m.file}
    <2>1. open[c] \in Convs /\ me[c] \in Users
      BY <1>1, <1>4 DEF FilesInv, Shape
    <2>2. p.file = m.file /\ FileMessage(p)
      BY <1>1, <2>1 DEF Post, FileMessage
    <2>3. CASE p.from = m.from /\ p.conv = m.conv
      <3>1. Announced(p)'
        BY <1>1, <1>2, <2>2, <2>3 DEF Announced, FileMessage
      <3>. QED
        BY <1>1, <1>2, <1>4, <2>2, <3>1 DEF Sharing, Announced
    <2>4. CASE ~(p.from = m.from /\ p.conv = m.conv)
      <3>1. m.file \in unshared'
        BY <1>4, <2>4
      <3>. QED
        BY <1>1, <1>2, <1>4, <2>2, <3>1 DEF Sharing, Announced
    <2>. QED
      BY <2>3, <2>4
  <1>. QED
    BY <1>3, <1>4 DEF HandleFileUploaded

\* The relay takes a message whose file is the sender's, of this
\* conversation, and drops any other (messages.go:34-48).
LEMMA PostShares ==
  ASSUME FilesInv, Uploading, Sharing, [Next]_vars, NEW p \in posts, HandleFileMessage(p)
  PROVE  Sharing'
  <1>1. /\ p \in shown /\ FileMessage(p) /\ files[p.file] # NoRow
        /\ Announced(p) \/ p.file \in unshared
    BY DEF Sharing
  <1>2. UNCHANGED <<files, uploaded, shown>> /\ posts' = posts \ {p}
    BY DEF HandleFileMessage
  <1>3. CASE /\ p.from \in p.conv /\ FileBelongs(p)
             /\ messages' = messages \cup {p} /\ UNCHANGED unshared
    <2>1. files[p.file] \in [uploader : accounts, conv : Convs]
      BY <1>1 DEF Uploading, FileMessage
    <2>2. files[p.file] = [uploader |-> p.from, conv |-> p.conv]
      BY <1>3, <2>1 DEF FileBelongs
    <2>3. Announced(p)
      BY <1>1, <1>3, <2>2 DEF Announced
    <2>. QED
      BY <1>1, <1>2, <1>3, <2>3 DEF Sharing, Announced
  <1>4. CASE /\ ~(p.from \in p.conv /\ FileBelongs(p)) /\ UNCHANGED <<messages, unshared>>
    <2>1. ~Announced(p)
      BY <1>4 DEF Announced, FileBelongs
    <2>. QED
      BY <1>1, <1>2, <1>4, <2>1 DEF Sharing, Announced
  <1>5. CASE unshared' = unshared \cup {p.file} /\ UNCHANGED messages
    BY <1>1, <1>2, <1>5 DEF Sharing, Announced
  <1>. QED
    BY <1>3, <1>4, <1>5 DEF HandleFileMessage

\* A client is told of the row that was just written (files.go:179-190).
LEMMA CommitShares ==
  ASSUME FilesInv, Accounted, Sharing, [Next]_vars, NEW r \in Requests, Commit(r)
  PROVE  Sharing'
  <1>1. PICK c \in Named(r) :
          /\ c # None /\ request[r].user \in c
          /\ files' = [files EXCEPT ![upload[r].file] = [uploader |-> request[r].user, conv |-> c]]
          /\ \/ uploaded' = uploaded
             \/ /\ upload[r].client # None
                /\ uploaded' = uploaded \cup {Result(request[r].user, c, upload[r].file, upload[r].client)}
    BY DEF Commit, Complete
  <1>2. /\ Shape /\ upload[r].written /\ request[r].pc = "parts"
        /\ UNCHANGED <<posts, shown, messages, unshared>>
    BY DEF FilesInv, Commit, Complete, Over
  <1>3. upload[r].file \in Files
    BY <1>2 DEF FilesInv, Owned, Shape, UploadRow
  <1>4. c \in Convs
    BY <1>1, <1>2 DEF Named, Shape, UploadRow
  <1>5. request[r].user \in Users
    BY <1>2 DEF Accounted, RequestKnown, Idle
  <1>. PICK m : m = Result(request[r].user, c, upload[r].file, upload[r].client)
    OBVIOUS
  <1>6. Announced(m)'
    BY <1>1, <1>2, <1>3, <1>4, <1>5 DEF Announced, FileMessage, Result, Shape
  <1>7. \A q \in uploaded' \cup messages' : Announced(q)'
    BY <1>1, <1>2, <1>6, AnnouncedStays DEF Sharing
  <1>10. \A q \in uploaded' : q.at \in Clients
    BY <1>1, <1>2 DEF Sharing, Result, Shape, UploadRow
  <1>8. \A q \in shown : /\ FileMessage(q) /\ files'[q.file] # NoRow
                         /\ q \in posts \cup messages \/ q.file \in unshared
    BY RowsStay DEF Sharing, FileMessage
  <1>9. \A q \in posts : Announced(q)' \/ q.file \in unshared
    BY AnnouncedStays DEF Sharing
  <1>. QED
    BY <1>2, <1>7, <1>8, <1>9, <1>10 DEF Sharing

\* Every step keeps the link between uploads and messages.
LEMMA SharingStep ==
  ASSUME FilesInv, Accounted, Uploading, Sharing, [Next]_vars
  PROVE  Sharing'
  <1>1. CASE Restart
    <2>1. /\ UNCHANGED <<files, uploaded, shown, messages>> /\ posts' = {}
          /\ unshared' = unshared \cup {p.file : p \in posts}
      BY <1>1 DEF Restart
    <2>. QED
      BY <2>1 DEF Sharing, Announced
  <1>2. CASE UNCHANGED <<files, uploaded, posts, shown, messages, unshared>>
    BY <1>2 DEF Sharing, Announced
  <1>. QED
    BY <1>1, <1>2, UploadedShares, PostShares, CommitShares
    DEF Next, fileVars, UploadStep, AuthUpload, StartPart, CopyPart, CreateFails, UploadFails, Refuse,
        SubmitAt, SendFile, PostForm, LogoutClient, OpenConversation, vars

\* The books of sessions, uploads and messages on top of FilesInv.
SharingInv == FilesInv /\ Accounted /\ Uploading /\ Sharing

\* It holds throughout.
LEMMA SharingInvHolds == FileTransferSpec => []SharingInv
  <1>1. Init => SharingInv
    <2>. SUFFICES ASSUME Init PROVE SharingInv
      OBVIOUS
    <2>1. Accounted
      BY SessionsAssumption
      DEF Init, SessionsInit, Accounted, SessionKnown, RequestKnown, ClientKnown
    <2>2. Uploading
      BY FileTransferAssumption DEF Init, SessionsInit, Uploading, NoUpload, NewUpload, Idle
    <2>3. Sharing
      BY DEF Init, Sharing
    <2>. QED
      BY <2>1, <2>2, <2>3, InitHolds DEF SharingInv
  <1>2. SharingInv /\ [Next]_vars => SharingInv'
    BY NextKeeps, AccountedStep, UploadingStep, SharingStep DEF SharingInv
  <1>. QED
    BY <1>1, <1>2, PTL DEF FileTransferSpec

\* Every record of the server and of the clients keeps its shape: sessions
\* are of accounts and expire within SessionTTL, a client waits for its own
\* request only, and whatever names a file names one that has a row
\* (store.go, http.go, files.go, update.go).
THEOREM FileTransferTypeCorrect == FileTransferSpec => []FilesTypeOK
  <1>1. SharingInv => FilesTypeOK
    <2>. SUFFICES ASSUME SharingInv PROVE FilesTypeOK
      OBVIOUS
    <2>. USE DEF SharingInv
    <2>1. SessionsTypeOK
      <3>1. \A t \in Tokens : \/ sessions[t] = NoSession
                              \/ /\ sessions[t].user \in accounts
                                 /\ sessions[t].expires \in now - MaxTime..now + TTL
        BY SessionsAssumption DEF Accounted, SessionKnown
      <3>2. \A r \in Requests : /\ request[r].pc = "issue" => request[r].user \in accounts
                                /\ request[r].pc = "idle" => request[r] = Idle
        BY DEF Accounted, RequestKnown, Idle
      <3>3. \A u \in Users : /\ waiting[u] = None \/ request[waiting[u]].user = u
                             /\ token[u] \in Tokens \cup {None}
                             /\ token[u] # None => waiting[u] = None
        BY DEF Accounted, ClientKnown, FilesInv, Shape
      <3>. QED
        BY <3>1, <3>2, <3>3 DEF SessionsTypeOK, Accounted
    <2>2. \A r \in Requests : upload[r].written => upload[r].file # None
      BY DEF FilesInv, Owned
    <2>3. messages \cup posts \subseteq shown
      BY DEF Sharing
    <2>4. \A m \in shown : FileMessage(m) /\ files[m.file] # NoRow
      BY DEF Sharing
    <2>5. ASSUME NEW m \in uploaded PROVE FileMessage(m) /\ files[m.file] # NoRow
      <3>1. Announced(m)
        BY DEF Sharing
      <3>2. files[m.file].conv # None
        BY <3>1, FileTransferAssumption DEF Announced, FileMessage
      <3>. QED
        BY <3>1, <3>2 DEF Announced, NoRow
    <2>6. /\ disk \in [Files -> {"absent", "partial", "whole"}]
          /\ \A c \in Clients : open[c] # None => open[c] \in Convs /\ me[c] \in Users
      BY DEF FilesInv, Shape
    <2>. QED
      BY <2>1, <2>2, <2>3, <2>4, <2>5, <2>6 DEF FilesTypeOK, Uploading, FileMessage
  <1>. QED
    BY <1>1, SharingInvHolds, PTL

\* A file message shown as sent is on its way, in the table or among the
\* exceptions `unshared' records, and both participants of a message in the table can
\* download its file, whole, whatever uploads, early returns, conversation
\* switches, logouts and restarts came between (files.go, messages.go:34-48,
\* update.go:818-826).
THEOREM SentFilesShared == FileTransferSpec => []SentFilesAreShared
  <1>1. SharingInv => SentFilesAreShared
    <2>. SUFFICES ASSUME SharingInv PROVE SentFilesAreShared
      OBVIOUS
    <2>1. ASSUME NEW p \in messages, NEW u \in p.conv PROVE CanDownload(u, p.file)
      <3>1. Announced(p) /\ p \in shown /\ files[p.file] # NoRow
        BY DEF SharingInv, Sharing
      <3>2. p.file \in Files /\ files[p.file].conv = p.conv
        BY <3>1 DEF Announced, FileMessage
      <3>. QED
        BY <3>1, <3>2 DEF CanDownload, SharingInv, FilesInv, FilesMatchRows
    <2>. QED
      BY <2>1 DEF SentFilesAreShared, SharingInv, Sharing
  <1>. QED
    BY <1>1, SharingInvHolds, PTL
=============================================================================
