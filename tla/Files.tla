------------------------------- MODULE Files -------------------------------
(***************************************************************************)
(* The file panel of the web client (FileSystem.js) and the storage behind *)
(* it (service/storage.go).                                                *)
(*                                                                         *)
(* The panel is a component whose handlers send requests and go on when    *)
(* the answer comes; between the two the user goes on too.  Its state is   *)
(* one object that all handlers share: the shown directory and its rows,   *)
(* the selected rows, one "current file" for the editor and for renaming,  *)
(* and the modals that are open.  A request is executed by the server in   *)
(* one step, an upload in two (the quota is checked, then the file is      *)
(* written), and answers are handled in any order: the browser uses        *)
(* several connections.  A request may also be lost: request.js neither    *)
(* resolves nor rejects after a network error or a 401, so that the        *)
(* handler never goes on.                                                  *)
(*                                                                         *)
(* A path is the sequence of its names, the root being <<>>; a file has a  *)
(* text, a directory has "dir"; every file has size one.                   *)
(***************************************************************************)
EXTENDS Naturals, FiniteSets, Sequences, SequencesExt

CONSTANTS
  Names,      \* names of files and directories
  Texts,      \* contents of files
  Typed,      \* bound: the paths a user types
  Chosen,     \* bound: what a user uploads, a directory to put it in (or the
              \* root) and names
  Depth,      \* bound: length of the paths that are made
  Limit,      \* the size limit of the storage
  StartTree,  \* the files the storage starts with
  FlagSets,   \* the sets of operations a session or storage may permit
  MaxOps,     \* bound: operations of the user (uploads count by the file) and
              \* lost requests
  MaxLost     \* bound: requests that are lost

Root == <<>>
Operations == {"upload", "download", "delete", "rename", "edit"}

ASSUME BoundsAssumption == Depth \in Nat /\ Limit \in Nat /\ MaxOps \in Nat /\ MaxLost \in Nat

ASSUME StartAssumption ==
  /\ DOMAIN StartTree \subseteq Seq(Names) \ {Root}
  /\ \A p \in DOMAIN StartTree :
       Front(p) = Root \/ (Front(p) \in DOMAIN StartTree /\ StartTree[Front(p)] = "dir")
  /\ FlagSets \subseteq SUBSET Operations
  /\ Typed \subseteq Seq(Names)
  /\ \A u \in Chosen : u.sub \in Seq(Names) /\ u.names \subseteq Names /\ IsFiniteSet(u.names)

VARIABLES
  tree,            \* path -> text or "dir": what the storage holds
  flags,           \* the operations permitted here, of Operations
  currentDirectory,
  files,           \* the shown rows
  selectedRowKeys,
  loading,
  currentFileKey,  \* shared by the editor and by the form that renames
  confirmLoading,  \* shared by the OK buttons of the three modals
  mkdirVisible,
  renameVisible,
  editorVisible,
  fileContent,
  dialog,          \* "closed" | "open" | "running": confirming a batch delete
  rowKeys,         \* the keys the batch delete captured and has not removed
  uploads,         \* batch -> [size, ended]: what handleUploadFile counts
  calls,           \* the requests under way
  sent,            \* number of requests sent, the identity of the next
  ops, lost,       \* what the bounds count
  openedFile,      \* history: the file whose text the editor was opened with
  agreed,          \* history: the keys the user agreed to delete
  requested,       \* history: the keys the server was asked to delete
  unseen,          \* history: kinds of changes made since the last ls was sent
  lastLs,          \* history: the ls that was sent last
  shownLs          \* history: the ls whose answer was shown last

editor == <<editorVisible, fileContent, currentFileKey, openedFile>>
modals == <<mkdirVisible, renameVisible, editor>>
batch  == <<dialog, rowKeys, agreed, requested>>
nav    == <<currentDirectory, files, shownLs>>
bounds == <<ops, lost>>
vars   == <<tree, flags, nav, selectedRowKeys, loading, lastLs, unseen, confirmLoading, modals,
            batch, uploads, calls, sent, bounds>>

-----------------------------------------------------------------------------
(* The storage. *)

Parent(p)      == IF p = Root THEN Root ELSE Front(p)
IsDirectory(p) == p = Root \/ (p \in DOMAIN tree /\ tree[p] = "dir")
Below(p)       == {q \in DOMAIN tree : IsPrefix(p, q)}
Ancestors(p)   == {SubSeq(p, 1, n) : n \in 1..Len(p)}
UsedSize       == Cardinality({p \in DOMAIN tree : tree[p] # "dir"})

With(t, ps, v) == [q \in DOMAIN t \cup ps |-> IF q \in ps THEN v ELSE t[q]]
Without(t, ps) == [q \in DOMAIN t \ ps |-> t[q]]

\* The rows of a directory; ".." is not one of them: it cannot be selected and
\* has no buttons.
Listing(d) == {[key |-> q, isDir |-> tree[q] = "dir"] :
                 q \in {r \in DOMAIN tree : Len(r) = Len(d) + 1 /\ IsPrefix(d, r)}}

MadeAll(d)    == With(tree, Ancestors(d) \ DOMAIN tree, "dir")
CanMakeAll(d) == \A p \in Ancestors(d) : p \in DOMAIN tree => tree[p] = "dir"

(* What an operation makes of the tree: no result is a refusal. *)

StorageMkDir(d) == {t \in {MadeAll(d)} : CanMakeAll(d)}

StorageRm(p) == {Without(tree, Below(p))}

\* os.Rename: into an existing directory, onto a file by a file, onto an empty
\* directory by a directory; never into itself, and never the root.
CanRename(old, new) ==
  /\ old \in DOMAIN tree
  /\ IsDirectory(Front(new))
  /\ ~IsStrictPrefix(old, new)
  /\ new \in DOMAIN tree /\ new # old =>
       IF tree[old] = "dir" THEN tree[new] = "dir" /\ Below(new) = {new} ELSE tree[new] # "dir"

StorageRename(old, new) ==
  LET kept == Without(tree, Below(old) \cup Below(new))
      Moved(p) == new \o SubSeq(p, Len(old) + 1, Len(p))
      from == {<<Moved(p), p>> : p \in Below(old)}
  IN {t \in {[q \in DOMAIN kept \cup {m[1] : m \in from} |->
               IF q \in DOMAIN kept THEN kept[q] ELSE tree[(CHOOSE m \in from : m[1] = q)[2]]]} :
        CanRename(old, new)}

StorageEdit(p, text) ==
  {t \in {With(tree, {p}, text)} : p # Root /\ IsDirectory(Front(p)) /\ ~IsDirectory(p)}

StorageUpload(p, text) ==
  {t \in {With(MadeAll(Front(p)), {p}, text)} : CanMakeAll(Front(p)) /\ ~IsDirectory(p)}

-----------------------------------------------------------------------------
(* Requests. *)

Call(n, op, key) == [id |-> n, op |-> op, key |-> key, to |-> Root, text |-> "", batch |-> 0,
                     state |-> "sent", ok |-> FALSE, rows |-> {}]

\* What a handler sends, and what one sends that goes on with the answer to c.
Send(cs)    == calls' = calls \cup cs /\ sent' = sent + Cardinality(cs)
GoOn(c, cs) == calls' = (calls \ {c}) \cup cs /\ sent' = sent + Cardinality(cs)

Ls(d) == Call(sent + 1, "ls", d)
Rm(k) == Call(sent + 1, "rm", k)

\* What loadFiles does before its await, the request aside.
Loading    == loading' = TRUE /\ lastLs' = sent + 1 /\ unseen' = {}
NotLoading == UNCHANGED <<loading, lastLs, unseen>>
quiet      == <<loading, lastLs, unseen>>

-----------------------------------------------------------------------------
(* The user.  A modal masks the panel, and so do the rows while loading. *)

Unmasked == ~mkdirVisible /\ ~renameVisible /\ ~editorVisible /\ dialog = "closed"
OnRows   == Unmasked /\ ~loading
OperateOn(n) == ops + lost + n <= MaxOps /\ ops' = ops + n /\ UNCHANGED <<tree, flags, lost>>
Operate  == OperateOn(1)
Cancel   == UNCHANGED <<tree, flags, bounds>>

Init ==
  /\ tree = StartTree
  /\ flags \in FlagSets
  /\ currentDirectory = Root /\ files = {} /\ selectedRowKeys = {}
  /\ loading = TRUE
  /\ currentFileKey = Root /\ confirmLoading = FALSE
  /\ mkdirVisible = FALSE /\ renameVisible = FALSE /\ editorVisible = FALSE
  /\ fileContent = ""
  /\ dialog = "closed" /\ rowKeys = {}
  /\ uploads = <<>>
  /\ calls = {Call(1, "ls", Root)} /\ sent = 1
  /\ ops = 0 /\ lost = 0
  /\ openedFile = Root /\ agreed = {} /\ requested = {} /\ unseen = {}
  /\ lastLs = 1 /\ shownLs = 0

LoadFiles(d) ==
  /\ Operate
  /\ Loading
  /\ Send({Ls(d)})
  /\ UNCHANGED <<nav, selectedRowKeys, confirmLoading, modals, batch, uploads>>

\* A double click on a directory, or on the ".." that every one but the root has.
OpenRow(d) ==
  /\ OnRows
  /\ (currentDirectory # Root /\ d = Parent(currentDirectory)) \/ \E r \in files : r.isDir /\ d = r.key
  /\ LoadFiles(d)

PressEnter(d) == Unmasked /\ LoadFiles(d)

RefreshPressed == Unmasked /\ LoadFiles(currentDirectory)

Select(keys) ==
  /\ Operate
  /\ OnRows
  /\ keys \subseteq {r.key : r \in files} /\ keys # selectedRowKeys
  /\ selectedRowKeys' = keys
  /\ UNCHANGED <<nav, quiet, confirmLoading, modals, batch, uploads, calls, sent>>

ShowMkdir ==
  /\ Operate
  /\ Unmasked /\ "upload" \in flags
  /\ mkdirVisible' = TRUE
  /\ UNCHANGED <<nav, selectedRowKeys, quiet, confirmLoading, renameVisible, editor, batch, uploads,
                 calls, sent>>

\* The modal stays until the answer; its button is busy until some answer.
Mkdir(name) ==
  /\ Cancel
  /\ mkdirVisible /\ ~confirmLoading
  /\ Len(currentDirectory) < Depth
  /\ confirmLoading' = TRUE
  /\ Send({Call(sent + 1, "mkdir", Append(currentDirectory, name))})
  /\ UNCHANGED <<nav, selectedRowKeys, quiet, modals, batch, uploads>>

CancelMkdir ==
  /\ Cancel
  /\ mkdirVisible /\ mkdirVisible' = FALSE
  /\ UNCHANGED <<nav, selectedRowKeys, quiet, confirmLoading, renameVisible, editor, batch, uploads,
                 calls, sent>>

ShowRename(r) ==
  /\ Operate
  /\ OnRows /\ "rename" \in flags
  /\ renameVisible' = TRUE /\ currentFileKey' = r.key
  /\ UNCHANGED <<nav, selectedRowKeys, quiet, confirmLoading, mkdirVisible, editorVisible,
                 fileContent, openedFile, batch, uploads, calls, sent>>

\* Both names are built from what the state holds when OK is pressed.
Rename(name) ==
  LET newName == Append(currentDirectory, name) IN
  /\ Cancel
  /\ renameVisible /\ ~confirmLoading
  /\ \/ /\ newName = currentFileKey
        /\ renameVisible' = FALSE
        /\ UNCHANGED <<confirmLoading, calls, sent>>
     \/ /\ newName # currentFileKey
        /\ confirmLoading' = TRUE
        /\ Send({[Call(sent + 1, "rename", currentFileKey) EXCEPT !.to = newName]})
        /\ UNCHANGED renameVisible
  /\ UNCHANGED <<nav, selectedRowKeys, quiet, mkdirVisible, editor, batch, uploads>>

CancelRename ==
  /\ Cancel
  /\ renameVisible /\ renameVisible' = FALSE
  /\ UNCHANGED <<nav, selectedRowKeys, quiet, confirmLoading, mkdirVisible, editor, batch, uploads,
                 calls, sent>>

\* The button depends on "edit", the request is the download.
ShowEditor(r) ==
  /\ Operate
  /\ OnRows /\ "edit" \in flags /\ ~r.isDir
  /\ Send({Call(sent + 1, "download", r.key)})
  /\ UNCHANGED <<nav, selectedRowKeys, quiet, confirmLoading, modals, batch, uploads>>

Type(text) ==
  /\ Operate
  /\ editorVisible /\ text # fileContent
  /\ fileContent' = text
  /\ UNCHANGED <<nav, selectedRowKeys, quiet, confirmLoading, mkdirVisible, renameVisible,
                 editorVisible, currentFileKey, openedFile, batch, uploads, calls, sent>>

Edit ==
  /\ Cancel
  /\ editorVisible /\ ~confirmLoading
  /\ confirmLoading' = TRUE
  /\ Send({[Call(sent + 1, "edit", currentFileKey) EXCEPT !.text = fileContent]})
  /\ UNCHANGED <<nav, selectedRowKeys, quiet, modals, batch, uploads>>

EditorHidden ==
  /\ editorVisible' = FALSE /\ fileContent' = "" /\ currentFileKey' = Root /\ openedFile' = Root
  /\ UNCHANGED <<mkdirVisible, renameVisible>>

HideEditor ==
  /\ Cancel
  /\ editorVisible
  /\ EditorHidden
  /\ UNCHANGED <<nav, selectedRowKeys, quiet, confirmLoading, batch, uploads, calls, sent>>

DeleteRow(r) ==
  /\ Operate
  /\ OnRows /\ "delete" \in flags
  /\ agreed' = agreed \cup {r.key} /\ requested' = requested \cup {r.key}
  /\ Send({Rm(r.key)})
  /\ UNCHANGED <<nav, selectedRowKeys, quiet, confirmLoading, modals, dialog, rowKeys, uploads>>

HasSelected == selectedRowKeys # {} /\ "delete" \in flags

\* The dialog captures the rows that are selected when it opens.
AskDelete ==
  /\ Operate
  /\ Unmasked /\ HasSelected
  /\ dialog' = "open" /\ rowKeys' = selectedRowKeys
  /\ UNCHANGED <<nav, selectedRowKeys, quiet, confirmLoading, modals, agreed, requested, uploads, calls,
                 sent>>

CancelDelete ==
  /\ Cancel
  /\ dialog = "open"
  /\ dialog' = "closed" /\ rowKeys' = {}
  /\ UNCHANGED <<nav, selectedRowKeys, quiet, confirmLoading, modals, agreed, requested, uploads, calls,
                 sent>>

\* As if the loop read the selection of the moment, not only the captured rows.
StillSelected == rowKeys \cap selectedRowKeys

\* The rows the loop of the dialog has still to remove.
Remaining == rowKeys

\* OK starts the loop, which waits for one answer before the next request.
ConfirmDelete ==
  /\ Cancel
  /\ dialog = "open"
  /\ dialog' = "running" /\ agreed' = agreed \cup rowKeys
  /\ \E k \in Remaining :
       /\ rowKeys' = Remaining \ {k} /\ requested' = requested \cup {k}
       /\ Send({[Rm(k) EXCEPT !.batch = 1]})
  /\ UNCHANGED <<nav, selectedRowKeys, quiet, confirmLoading, modals, uploads>>

\* handleUploadFile, and handleUploadDir with a directory in front of the names:
\* one request for each file, all at once.
UploadFiles(names, sub) ==
  LET order == SetToSeq(names)
      Part(i) == [Call(sent + i, "upload", currentDirectory \o sub \o <<order[i]>>)
                    EXCEPT !.text = "new", !.batch = Len(uploads) + 1]
  IN
  /\ OperateOn(Len(order))
  /\ Unmasked /\ "upload" \in flags
  /\ Len(currentDirectory \o sub) < Depth
  /\ uploads' = Append(uploads, [size |-> Cardinality(names), ended |-> 0])
  /\ Send({Part(i) : i \in 1..Len(order)})
  /\ UNCHANGED <<nav, selectedRowKeys, quiet, confirmLoading, modals, batch>>

-----------------------------------------------------------------------------
(* The server. *)

Client == <<flags, nav, selectedRowKeys, loading, lastLs, confirmLoading, modals, batch, uploads,
            sent, bounds>>

Answered(c, good, rows, text) ==
  calls' = (calls \ {c})
             \cup {[c EXCEPT !.state = "done", !.ok = good, !.rows = rows, !.text = text]}

Permitted(op) ==
  CASE op = "rm"                  -> "delete" \in flags
    [] op = "download"            -> "download" \in flags
    [] op = "edit"                -> "edit" \in flags
    [] op = "rename"              -> "rename" \in flags
    [] op \in {"mkdir", "upload"} -> "upload" \in flags
    [] op = "ls"                  -> TRUE

\* What the storage makes of the tree for a request.
Results(c) ==
  CASE ~Permitted(c.op) -> {}
    [] c.op = "rm"      -> StorageRm(c.key)
    [] c.op = "mkdir"   -> StorageMkDir(c.key)
    [] c.op = "rename"  -> StorageRename(c.key, c.to)
    [] c.op = "edit"    -> StorageEdit(c.key, c.text)
    [] c.op = "upload"  -> StorageUpload(c.key, c.text)

ServeLs(c) ==
  /\ c.op = "ls" /\ c.state = "sent"
  /\ Answered(c, IsDirectory(c.key), IF IsDirectory(c.key) THEN Listing(c.key) ELSE {}, "")
  /\ UNCHANGED <<tree, unseen, Client>>

\* A refusal is an answer like any other: the panel takes it for the text.  For a
\* file that is gone a storage answers 404, with which the promise stays pending,
\* and an SSH session refuses.
ServeDownload(c) ==
  LET found == Permitted(c.op) /\ c.key \in DOMAIN tree /\ ~IsDirectory(c.key) IN
  /\ c.op = "download" /\ c.state = "sent"
  /\ \/ Answered(c, found, {}, IF found THEN tree[c.key] ELSE "[object Object]")
     \/ Permitted(c.op) /\ c.key \notin DOMAIN tree /\ calls' = calls \ {c}
  /\ UNCHANGED <<tree, unseen, Client>>

\* The size of an upload is checked against what the storage holds now.
CheckLimit(c) ==
  /\ c.op = "upload" /\ c.state = "sent" /\ Permitted(c.op)
  /\ IF UsedSize + 1 > Limit
     THEN Answered(c, FALSE, {}, "")
     ELSE calls' = (calls \ {c}) \cup {[c EXCEPT !.state = "checked"]}
  /\ UNCHANGED <<tree, unseen, Client>>

Serve(c) ==
  /\ c.op \in {"rm", "mkdir", "rename", "edit", "upload"}
  /\ c.state = IF c.op = "upload" /\ Permitted(c.op) THEN "checked" ELSE "sent"
  /\ \/ /\ tree' \in Results(c)
        /\ unseen' = IF tree' = tree THEN unseen ELSE unseen \cup {c.op}
        /\ Answered(c, TRUE, {}, "")
     \/ /\ Results(c) = {}
        /\ Answered(c, FALSE, {}, "")
        /\ UNCHANGED <<tree, unseen>>
  /\ UNCHANGED Client

-----------------------------------------------------------------------------
(* The handlers that go on with an answer. *)

Handle(c, op) == c.op = op /\ c.state = "done" /\ UNCHANGED <<tree, flags, bounds>>

\* this.loadFiles(this.state.currentDirectory), at the end of the handler of c.
Refresh(c) == Loading /\ GoOn(c, {Ls(currentDirectory)})
NoRefresh(c) == NotLoading /\ GoOn(c, {})

\* As if the selection survived the rows it was made on.
LsAnswerOnSelection(c) ==
  /\ Handle(c, "ls")
  /\ IF c.ok
     THEN files' = c.rows /\ currentDirectory' = c.key /\ shownLs' = c.id
     ELSE UNCHANGED nav
  /\ loading' = FALSE
  /\ GoOn(c, {})
  /\ UNCHANGED <<selectedRowKeys, lastLs, unseen, confirmLoading, modals, batch, uploads>>

\* The rows and the directory come with the same answer; a refusal leaves both,
\* and either ends the loading and the selection.
LsAnswer(c) ==
  /\ Handle(c, "ls")
  /\ IF c.ok
     THEN files' = c.rows /\ currentDirectory' = c.key /\ shownLs' = c.id
     ELSE UNCHANGED nav
  /\ loading' = FALSE /\ selectedRowKeys' = {}
  /\ GoOn(c, {})
  /\ UNCHANGED <<lastLs, unseen, confirmLoading, modals, batch, uploads>>

\* As if only a success gave the button back.
MkdirAnswerOnSuccess(c) ==
  /\ Handle(c, "mkdir")
  /\ IF c.ok THEN Refresh(c) ELSE NoRefresh(c)
  /\ confirmLoading' = ~c.ok /\ mkdirVisible' = FALSE
  /\ UNCHANGED <<nav, selectedRowKeys, renameVisible, editor, batch, uploads>>

MkdirAnswer(c) ==
  /\ Handle(c, "mkdir")
  /\ IF c.ok THEN Refresh(c) ELSE NoRefresh(c)
  /\ confirmLoading' = FALSE /\ mkdirVisible' = FALSE
  /\ UNCHANGED <<nav, selectedRowKeys, renameVisible, editor, batch, uploads>>

RenameAnswer(c) ==
  /\ Handle(c, "rename")
  /\ IF c.ok THEN Refresh(c) ELSE NoRefresh(c)
  /\ confirmLoading' = FALSE /\ renameVisible' = FALSE
  /\ UNCHANGED <<nav, selectedRowKeys, mkdirVisible, editor, batch, uploads>>

\* Only now does the editor open, on the file that was asked for.
DownloadAnswer(c) ==
  /\ Handle(c, "download")
  /\ currentFileKey' = c.key /\ fileContent' = c.text /\ editorVisible' = TRUE
  /\ openedFile' = c.key
  /\ NoRefresh(c)
  /\ UNCHANGED <<nav, selectedRowKeys, confirmLoading, mkdirVisible, renameVisible, batch, uploads>>

\* The editor is hidden whatever the answer, and nothing is loaded.
EditAnswer(c) ==
  /\ Handle(c, "edit")
  /\ confirmLoading' = FALSE
  /\ EditorHidden
  /\ NoRefresh(c)
  /\ UNCHANGED <<nav, selectedRowKeys, batch, uploads>>

RmAnswer(c) ==
  /\ Handle(c, "rm") /\ c.batch = 0
  /\ Refresh(c)
  /\ UNCHANGED <<nav, selectedRowKeys, confirmLoading, modals, batch, uploads>>

\* The loop goes on after a refusal too; after the last row it loads the files.
BatchRmAnswer(c) ==
  /\ Handle(c, "rm") /\ c.batch = 1
  /\ \/ \E k \in Remaining :
          /\ rowKeys' = Remaining \ {k} /\ requested' = requested \cup {k}
          /\ GoOn(c, {[Rm(k) EXCEPT !.batch = 1]})
          /\ NotLoading
          /\ UNCHANGED dialog
     \/ /\ Remaining = {}
        /\ dialog' = "closed" /\ rowKeys' = {}
        /\ UNCHANGED requested
        /\ Refresh(c)
  /\ UNCHANGED <<nav, selectedRowKeys, confirmLoading, modals, agreed, uploads>>

\* As if the first file of a batch loaded the files.
FirstUploadAnswer(c) ==
  /\ Handle(c, "upload")
  /\ uploads' = [uploads EXCEPT ![c.batch].ended = @ + 1]
  /\ IF uploads[c.batch].ended = 0 THEN Refresh(c) ELSE NoRefresh(c)
  /\ UNCHANGED <<nav, selectedRowKeys, confirmLoading, modals, batch>>

\* Every answer counts, for a refusal too has the status 200: the answer to the
\* last file of a batch loads the files, if none was closed or lost.
UploadAnswer(c) ==
  LET ended == uploads[c.batch].ended + 1 IN
  /\ Handle(c, "upload")
  /\ uploads' = [uploads EXCEPT ![c.batch].ended = ended]
  /\ IF ended = uploads[c.batch].size THEN Refresh(c) ELSE NoRefresh(c)
  /\ UNCHANGED <<nav, selectedRowKeys, confirmLoading, modals, batch>>

\* The notification of an upload is closed: nothing follows for its batch.
AbortUpload(c) ==
  /\ Operate
  /\ c.op = "upload" /\ c.state # "done"
  /\ calls' = calls \ {c}
  /\ UNCHANGED <<nav, selectedRowKeys, quiet, confirmLoading, modals, batch, uploads, sent>>

\* The network fails, or the answer is a 401: the promise stays pending.
Lose(c) ==
  /\ lost < MaxLost /\ ops + lost < MaxOps
  /\ lost' = lost + 1
  /\ calls' = calls \ {c}
  /\ UNCHANGED <<tree, flags, nav, selectedRowKeys, quiet, confirmLoading, modals, batch, uploads,
                 sent, ops>>

-----------------------------------------------------------------------------
User ==
  \/ \E d \in {Parent(currentDirectory)} \cup {r.key : r \in files} : OpenRow(d)
  \/ \E d \in Typed : PressEnter(d)
  \/ RefreshPressed
  \/ \E keys \in SUBSET {r.key : r \in files} : Select(keys)
  \/ ShowMkdir \/ CancelMkdir \/ CancelRename \/ Edit \/ HideEditor
  \/ \E name \in Names : Mkdir(name) \/ Rename(name)
  \/ \E r \in files : ShowRename(r) \/ ShowEditor(r) \/ DeleteRow(r)
  \/ \E text \in Texts : Type(text)
  \/ AskDelete \/ CancelDelete \/ ConfirmDelete
  \/ \E u \in Chosen : UploadFiles(u.names, u.sub)

Server(c) == ServeLs(c) \/ ServeDownload(c) \/ CheckLimit(c) \/ Serve(c)

Answer(c) ==
  \/ LsAnswer(c) \/ MkdirAnswer(c) \/ RenameAnswer(c) \/ DownloadAnswer(c) \/ EditAnswer(c)
  \/ RmAnswer(c) \/ BatchRmAnswer(c) \/ UploadAnswer(c)

Next == User \/ \E c \in calls : Server(c) \/ Answer(c) \/ AbortUpload(c) \/ Lose(c)

\* The server serves what it gets and the browser delivers what is answered.
Fairness == WF_vars(\E c \in calls : Server(c) \/ Answer(c))

Spec == Init /\ [][Next]_vars /\ Fairness

-----------------------------------------------------------------------------
(* Properties. *)

TypeOK ==
  /\ DOMAIN tree \subseteq Seq(Names) \ {Root}
  /\ flags \subseteq Operations
  /\ currentDirectory \in Seq(Names) /\ selectedRowKeys \subseteq Seq(Names)
  /\ loading \in BOOLEAN /\ confirmLoading \in BOOLEAN
  /\ mkdirVisible \in BOOLEAN /\ renameVisible \in BOOLEAN /\ editorVisible \in BOOLEAN
  /\ dialog \in {"closed", "open", "running"}
  /\ sent \in Nat /\ ops \in 0..MaxOps /\ lost \in 0..MaxLost
  /\ \A c \in calls : c.id \in 1..sent

\* Every file of the storage lies in directories of the storage.
TreeIsClosed == \A p \in DOMAIN tree : IsDirectory(Front(p))

\* However the answers to loadFiles overtake each other, the rows on the screen
\* are of the directory on the screen (so that names typed for a row meet the
\* files that are seen), and what is selected is on the screen.
RowsAreOfDirectory ==
  /\ \A r \in files : r.key # Root /\ Front(r.key) = currentDirectory
  /\ selectedRowKeys \subseteq {r.key : r \in files}

\* The editor saves to the file it was filled from, although renaming uses the
\* same field and several files may be on their way to the editor.
EditorKeepsItsFile == editorVisible => currentFileKey = openedFile /\ openedFile # Root

\* The panel asks for nothing the server will refuse for want of permission,
\* except that the editor downloads under the permission to edit.
AsksWhatIsPermitted == \A c \in calls : Permitted(c.op) \/ (c.op = "download" /\ "edit" \in flags)

\* The rows show that they load, and buttons are busy, only while there is a
\* request to wait for (or one was lost).
BusyHasAReason ==
  lost = 0 =>
    /\ loading => \E c \in calls : c.op = "ls"
    /\ confirmLoading <=> \E c \in calls : c.op \in {"mkdir", "rename", "edit"}
    /\ dialog = "running" <=> \E c \in calls : c.op = "rm" /\ c.batch = 1

FilesInv ==
  /\ TypeOK /\ TreeIsClosed /\ RowsAreOfDirectory /\ EditorKeepsItsFile /\ AsksWhatIsPermitted
  /\ BusyHasAReason

\* What is removed is what the user was asked about, though the selection and
\* the rows change while the requests go out one by one: never another row, and
\* when no dialog is at work, every one of them.
RemovesWhatWasAgreed ==
  /\ requested \subseteq agreed
  /\ dialog # "running" => requested = agreed

\* At rest the screen shows the storage.  When nothing is under way, the answer
\* shown is that of the last list asked for, nothing was lost and every upload
\* of a batch was answered, granted or not, then the only change that may be unseen is an edit, and
\* without one the rows are what the directory holds.
QuietShowsTheTree ==
  /\ calls = {} /\ shownLs = lastLs /\ lost = 0
  /\ \A b \in 1..Len(uploads) : uploads[b].ended = uploads[b].size
  => /\ unseen \subseteq {"edit"}
     /\ unseen = {} => files = Listing(currentDirectory)

\* Whatever waits for an answer stops waiting, unless a request is lost: the
\* promise of a lost one stays pending, and its modal stays busy.
WaitingEnds == (loading \/ confirmLoading \/ dialog = "running")
                 ~> (lost > 0 \/ ~(loading \/ confirmLoading \/ dialog = "running"))
=============================================================================
