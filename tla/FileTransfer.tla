---------------------------- MODULE FileTransfer ----------------------------
(***************************************************************************)
(* File transfer: POST /upload and GET /download (server/files.go), the    *)
(* files table, the uploads directory, and the client's /send              *)
(* (client/update.go, client/files.go), which uploads a file and then      *)
(* posts a message that names it over the WebSocket (the file branch of    *)
(* handleMessage, server/messages.go).                                     *)
(*                                                                         *)
(* An upload is a request whose parts are read one by one; meanwhile the   *)
(* user may open another conversation, or log out and leave the client to  *)
(* somebody else.  A conversation is the set of its two participants.      *)
(***************************************************************************)
EXTENDS Sessions

CONSTANTS
  Clients,  \* the running client programs; a user is at one at a time
  Convs,    \* the conversations
  Files,    \* what newFileID returns
  MaxParts  \* bound: file parts of one upload

ASSUME FileTransferAssumption ==
  /\ Convs \subseteq SUBSET Users
  /\ MaxParts \in Nat \ {0}
  /\ None \notin Files \cup Convs \cup Clients

VARIABLES
  upload,    \* per request: the client's conversation, storagePath, parts to come,
             \* fileWritten, and the client whose /send it is, or None
  disk,      \* the uploads directory: "absent", "partial" or "whole"
  files,     \* the files table
  me,        \* client: model.me, who is or was last to be logged in
  open,      \* client: the conversation that is open
  uploaded,  \* fileUploadedMsg on their way to the model of the client `at'
  posts,     \* message frames with a file on their way to the server
  shown,     \* client: the file messages it shows as sent
  messages,  \* the messages table, those with a file
  abandoned, \* files on disk that no handler and no row knows
  unshared   \* files whose message was dropped, or misplaced by the client

fileVars == <<upload, disk, files, me, open, uploaded, posts, shown, messages, abandoned, unshared>>
vars == <<sessionVars, fileVars>>

NewUpload(c, n, client) == [conv |-> c, file |-> None, parts |-> n, written |-> FALSE, client |-> client]
NoUpload == NewUpload(None, 0, None)
NoRow == [uploader |-> None, conv |-> None]
Post(u, c, f) == [from |-> u, conv |-> c, file |-> f]
Result(u, c, f, d) == [from |-> u, conv |-> c, file |-> f, at |-> d]

FilesTypeOK ==
  /\ SessionsTypeOK
  /\ \A r \in Requests : /\ request[r].pc \notin {"upload", "parts", "copying"} => upload[r] = NoUpload
                         /\ request[r].pc = "copying" => disk[upload[r].file] = "partial"
                         /\ upload[r].written => upload[r].file # None
                         /\ upload[r].parts \in 0..MaxParts
  /\ disk \in [Files -> {"absent", "partial", "whole"}]
  /\ \A f \in Files : files[f] = NoRow \/ files[f] \in [uploader : accounts, conv : Convs]
  /\ \A c \in Clients : open[c] # None => open[c] \in Convs /\ me[c] \in Users
  /\ messages \cup posts \subseteq shown
  /\ \A m \in shown \cup uploaded : /\ m.from \in Users /\ m.conv \in Convs
                                   /\ m.file \in Files /\ files[m.file] # NoRow

Init ==
  /\ SessionsInit
  /\ upload = [r \in Requests |-> NoUpload]
  /\ disk = [f \in Files |-> "absent"]
  /\ files = [f \in Files |-> NoRow]
  /\ me = [c \in Clients |-> None]
  /\ open = [c \in Clients |-> None]
  /\ uploaded = {} /\ posts = {} /\ shown = {} /\ messages = {}
  /\ abandoned = {} /\ unshared = {}

-----------------------------------------------------------------------------
(* The client.                                                             *)

\* Whoever is at the client is logged in, so it has a connection or will.
LoggedIn(c) == me[c] # None /\ token[me[c]] # None

\* submitAuth, for anybody once the last one is logged out or rejected.
\* (model.me is set with the answer; until then it names nothing but
\* messages that are dropped.)
SubmitAt(c, r, u) ==
  /\ \A d \in Clients : me[d] = u => d = c
  /\ me[c] \notin {None, u} => token[me[c]] = None /\ waiting[me[c]] = None
  /\ Submit(r, u)
  /\ me' = [me EXCEPT ![c] = u]
  /\ UNCHANGED <<upload, disk, files, open, uploaded, posts, shown, messages, abandoned, unshared>>

\* setActive, or the first contact list.
OpenConversation(c, v) ==
  /\ LoggedIn(c) /\ me[c] \in v /\ open[c] # v
  /\ open' = [open EXCEPT ![c] = v]
  /\ UNCHANGED <<sessionVars, upload, disk, files, me, uploaded, posts, shown, messages,
                 abandoned, unshared>>

\* runSendFile: one upload for the conversation that is open.
SendFile(r, c) ==
  /\ LoggedIn(c) /\ open[c] # None
  /\ Begin(r, "upload", me[c], token[me[c]])
  /\ upload' = [upload EXCEPT ![r] = NewUpload(open[c], 1, c)]
  /\ UNCHANGED <<accounts, sessions, now, waiting, token, noise, disk, files, me, open, uploaded,
                 posts, shown, messages, abandoned, unshared>>

\* Any other HTTP client: any conversation or none, up to MaxParts parts.
PostForm(r, u) ==
  /\ token[u] # None
  /\ Begin(r, "upload", u, token[u])
  /\ upload' = [upload EXCEPT ![r] = NewUpload(None, MaxParts, None)]
  /\ UNCHANGED <<accounts, sessions, now, waiting, token, noise, disk, files, me, open, uploaded,
                 posts, shown, messages, abandoned, unshared>>

\* handleFileUploaded and sendChatMessage: shown, and sent if there is a
\* connection, by whoever is logged in and in the conversation that is open
\* by now (fileUploadedMsg names neither).
HandleFileUploaded(m) ==
  /\ m \in uploaded /\ uploaded' = uploaded \ {m}
  /\ LET c == m.at
         p == Post(me[c], open[c], m.file)
         own == p.from = m.from /\ p.conv = m.conv
     IN  \/ /\ open[c] = None
            /\ UNCHANGED <<posts, shown, unshared, noise>>
         \/ /\ open[c] # None /\ LoggedIn(c)
            /\ shown' = shown \cup {p}
            /\ posts' = posts \cup {p}
            /\ unshared' = IF own THEN unshared ELSE unshared \cup {m.file}
            /\ noise' = noise
         \/ /\ open[c] # None  \* no connection, trySend drops it
            /\ shown' = shown \cup {p}
            /\ IF LoggedIn(c) THEN Noise ELSE noise' = noise
            /\ unshared' = unshared \cup {m.file}
            /\ posts' = posts
  /\ UNCHANGED <<accounts, sessions, now, request, waiting, token, upload, disk, files, me, open,
                 messages, abandoned>>

\* doLogout starts from a new model; an upload goes on.
LogoutClient(r, c) ==
  /\ LoggedIn(c) /\ Logout(r, me[c])
  /\ me' = [me EXCEPT ![c] = None]
  /\ open' = [open EXCEPT ![c] = None]
  /\ UNCHANGED <<upload, disk, files, uploaded, posts, shown, messages, abandoned, unshared>>

-----------------------------------------------------------------------------
(* uploadHandler.                                                          *)

\* Mutant of Cleanup: what is on disk stays.
NoCleanup(r) == disk

\* The deferred os.Remove(storagePath).
Cleanup(r) ==
  [f \in Files |-> IF f = upload[r].file THEN "absent" ELSE disk[f]]

\* The handler returns without a row.
ReturnEarly(r) ==
  /\ Answer(r)
  /\ upload' = [upload EXCEPT ![r] = NoUpload]
  /\ disk' = Cleanup(r)

AuthUpload(r) ==
  /\ request[r].pc = "upload"
  /\ IF Authorised(request[r].token) THEN Proceed(r, "parts") /\ UNCHANGED <<waiting, upload, disk>>
                                     ELSE ReturnEarly(r)
  /\ UNCHANGED <<accounts, sessions, now, token, noise, files, me, open, uploaded, posts, shown,
                 messages, abandoned, unshared>>

\* A file part: newFileID, os.Create; an earlier part's file is forgotten.
StartPart(r) ==
  /\ request[r].pc = "parts" /\ upload[r].parts > 0
  /\ \E f \in Files :
       /\ disk[f] = "absent" /\ files[f] = NoRow
       /\ disk' = [disk EXCEPT ![f] = "partial"]
       /\ upload' = [upload EXCEPT ![r].file = f, ![r].parts = @ - 1]
       /\ abandoned' = abandoned \cup ({upload[r].file} \ {None})
  /\ Proceed(r, "copying")
  /\ UNCHANGED <<accounts, sessions, now, waiting, token, noise, files, me, open, uploaded, posts,
                 shown, messages, unshared>>

CopyPart(r) ==
  /\ request[r].pc = "copying"
  /\ disk' = [disk EXCEPT ![upload[r].file] = "whole"]
  /\ upload' = [upload EXCEPT ![r].written = TRUE]
  /\ Proceed(r, "parts")
  /\ UNCHANGED <<accounts, sessions, now, waiting, token, noise, files, me, open, uploaded, posts,
                 shown, messages, abandoned, unshared>>

\* os.Create fails for a second part: storagePath is the new name already,
\* so the earlier part's file is not cleaned up.
CreateFails(r) ==
  /\ request[r].pc = "parts" /\ upload[r].parts > 0
  /\ Noise
  /\ Answer(r)
  /\ upload' = [upload EXCEPT ![r] = NoUpload]
  /\ abandoned' = abandoned \cup ({upload[r].file} \ {None})
  /\ UNCHANGED <<accounts, sessions, now, token, disk, files, me, open, uploaded, posts, shown,
                 messages, unshared>>

\* Over the limit, a malformed or truncated body, a full disk.
UploadFails(r) ==
  /\ request[r].pc \in {"upload", "parts", "copying"}
  /\ Noise
  /\ ReturnEarly(r)
  /\ UNCHANGED <<accounts, sessions, now, token, files, me, open, uploaded, posts, shown, messages,
                 abandoned, unshared>>

\* The body ends; a client's upload has its one part.
Over(r) == request[r].pc = "parts" /\ (upload[r].parts = 0 \/ upload[r].client = None)

\* The conversation_id part.
Named(r) == IF upload[r].client = None THEN Convs \cup {None} ELSE {upload[r].conv}

\* The checks after the last part: written, a conversation of the user's.
Complete(r, c) == upload[r].written /\ c # None /\ request[r].user \in c

\* CreateFile, and 201.
Commit(r) ==
  /\ Over(r)
  /\ \E c \in Named(r) :
       LET u == request[r].user
           f == upload[r].file
           d == upload[r].client
       IN  /\ Complete(r, c)
           /\ files' = [files EXCEPT ![f] = [uploader |-> u, conv |-> c]]
           /\ uploaded' = uploaded \cup (IF d = None THEN {} ELSE {Result(u, c, f, d)})
  /\ upload' = [upload EXCEPT ![r] = NoUpload]
  /\ Answer(r)
  /\ UNCHANGED <<accounts, sessions, now, token, noise, disk, me, open, posts, shown, messages,
                 abandoned, unshared>>

Refuse(r) ==
  /\ Over(r) /\ \E c \in Named(r) : ~Complete(r, c)
  /\ ReturnEarly(r)
  /\ UNCHANGED <<accounts, sessions, now, token, noise, files, me, open, uploaded, posts, shown,
                 messages, abandoned, unshared>>

-----------------------------------------------------------------------------
(* handleMessage for a message with a file, and downloadHandler.           *)

\* Mutant of FileBelongs: any file that exists will do.
FileExists(p) == files[p.file] # NoRow

\* "A file must belong to this conversation and this uploader."
FileBelongs(p) == files[p.file].conv = p.conv /\ files[p.file].uploader = p.from

HandleFileMessage(p) ==
  /\ p \in posts /\ posts' = posts \ {p}
  /\ \/ /\ p.from \in p.conv /\ FileBelongs(p)
        /\ messages' = messages \cup {p}
        /\ UNCHANGED <<unshared, noise>>
     \/ /\ ~(p.from \in p.conv /\ FileBelongs(p))
        /\ UNCHANGED <<messages, unshared, noise>>
     \/ /\ Noise  \* a failing statement, or a lost connection
        /\ unshared' = unshared \cup {p.file}
        /\ UNCHANGED messages
  /\ UNCHANGED <<accounts, sessions, now, request, waiting, token, upload, disk, files, me, open,
                 uploaded, shown, abandoned>>

\* downloadHandler answers 200 and the whole file.
CanDownload(u, f) == files[f] # NoRow /\ u \in files[f].conv /\ disk[f] = "whole"

\* The process dies: what was being uploaded stays on disk, frames are lost.
Restart ==
  /\ RestartSessions
  /\ abandoned' = abandoned \cup {upload[r].file : r \in {q \in Requests : upload[q].file # None}}
  /\ upload' = [r \in Requests |-> NoUpload]
  /\ posts' = {}
  /\ unshared' = unshared \cup {p.file : p \in posts}
  /\ UNCHANGED <<disk, files, me, open, uploaded, shown, messages>>

UploadStep(r) ==
  \/ AuthUpload(r) \/ StartPart(r) \/ CopyPart(r)
  \/ CreateFails(r) \/ UploadFails(r) \/ Commit(r) \/ Refuse(r)

Next ==
  \/ /\ \/ \E r \in Requests : AuthStep(r) \/ AuthFails(r)
        \/ \E u \in Actors : GiveUp(u) \/ Forget(u)
        \/ Tick
     /\ UNCHANGED fileVars
  \/ \E r \in Requests :
       \/ UploadStep(r)
       \/ \E u \in Actors : PostForm(r, u)
       \/ \E c \in Clients : SendFile(r, c) \/ LogoutClient(r, c) \/ \E u \in Actors : SubmitAt(c, r, u)
  \/ \E c \in Clients, v \in Convs : OpenConversation(c, v)
  \/ \E m \in uploaded : HandleFileUploaded(m)
  \/ \E p \in posts : HandleFileMessage(p)
  \/ Restart

FileTransferSpec == Init /\ [][Next]_vars

-----------------------------------------------------------------------------
(* Properties.                                                             *)

\* Rows and bytes agree: whatever the table names is whole on disk, and what
\* is on disk has a row or is being uploaded ("a failed upload can't leave an
\* orphaned file on disk", SECURITY.md:31; files.go:76).  `abandoned` records
\* the two exceptions: a crash in mid-upload, and a second file part.
FilesMatchRows ==
  \A f \in Files :
    /\ files[f] # NoRow => disk[f] = "whole"
    /\ disk[f] # "absent" => \/ files[f] # NoRow \/ f \in abandoned
                             \/ \E r \in Requests : upload[r].file = f

\* A file message the sender shows as sent reaches the table, and both
\* participants of its conversation can download the file.  `unshared` records
\* the exceptions: no connection, a failing handler, and a result that is no
\* longer handled for the uploader and the conversation of the upload, because
\* the client shows another conversation or belongs to another account by now
\* (client/files.go:25-30, update.go:818-826).
SentFilesAreShared ==
  /\ \A p \in shown : p \in posts \cup messages \/ p.file \in unshared
  /\ \A p \in messages : \A u \in p.conv : CanDownload(u, p.file)
=============================================================================
