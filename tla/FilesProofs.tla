----------------------------- MODULE FilesProofs -----------------------------
(* What the file panel shows, asks for and removes, for any tree, names,    *)
(* bounds and orders of answers.                                            *)
EXTENDS Files, FiniteSetTheorems, SequenceTheorems, TLAPS

Paths == Seq(Names)

-----------------------------------------------------------------------------
(* Paths.                                                                   *)

\* Front: the directory a path is in.
LEMMA FrontIs ==
    ASSUME NEW p \in Paths, p # Root
    PROVE  /\ Front(p) \in Paths /\ Len(p) \in Nat \ {0} /\ Len(Front(p)) = Len(p) - 1
           /\ \A k \in 1..(Len(p) - 1) : Front(p)[k] = p[k]
<1>1. Len(p) \in Nat \ {0} /\ \A k \in 1..Len(p) : p[k] \in Names
  BY EmptySeq, ElementOfSeq, LenProperties DEF Paths, Root
<1>2. \A k \in 1..(Len(p) - 1) : p[k] \in Names
  BY <1>1
<1>3. /\ SubSeq(p, 1, Len(p) - 1) \in Seq(Names)
      /\ Len(SubSeq(p, 1, Len(p) - 1)) = Len(p) - 1
      /\ \A k \in 1..(Len(p) - 1) : SubSeq(p, 1, Len(p) - 1)[k] = p[k]
  <2> DEFINE n == Len(p) - 1
  <2>1. n \in Nat /\ 1 \in Int /\ \A k \in 1..n : p[k] \in Names
    BY <1>1
  <2> HIDE DEF n
  <2>2. /\ SubSeq(p, 1, n) \in Seq(Names)
        /\ Len(SubSeq(p, 1, n)) = IF 1 <= n THEN n - 1 + 1 ELSE 0
        /\ \A k \in 1..(n - 1 + 1) : SubSeq(p, 1, n)[k] = p[1 + k - 1]
    BY <2>1, SubSeqProperties
  <2>3. Len(SubSeq(p, 1, n)) = n /\ \A k \in 1..n : SubSeq(p, 1, n)[k] = p[k]
    BY <2>1, <2>2
  <2> QED
    BY <2>2, <2>3 DEF n
<1> QED
  BY <1>1, <1>3 DEF Front, Paths

\* IsPrefix: name by name.
LEMMA PrefixIs ==
    ASSUME NEW p \in Paths, NEW q \in Paths
    PROVE  IsPrefix(p, q) <=> Len(p) <= Len(q) /\ \A k \in 1..Len(p) : p[k] = q[k]
<1>1. Len(p) \in Nat /\ Len(q) \in Nat /\ SubSeq(p, 1, Len(p)) = p
  BY LenProperties, SubSeqFull DEF Paths
<1>2. ASSUME Len(p) <= Len(q)
      PROVE  /\ SubSeq(q, 1, Len(p)) \in Seq(Names) /\ Len(SubSeq(q, 1, Len(p))) = Len(p)
             /\ \A k \in 1..Len(p) : SubSeq(q, 1, Len(p))[k] = q[k]
  BY <1>1, <1>2 DEF Paths
<1>3. ASSUME Len(p) <= Len(q), \A k \in 1..Len(p) : p[k] = q[k]
      PROVE  p = SubSeq(q, 1, Len(p))
  BY <1>1, <1>2, <1>3, SeqEqual DEF Paths
<1>4. ASSUME Len(p) <= Len(q), p = SubSeq(q, 1, Len(p))
      PROVE  \A k \in 1..Len(p) : p[k] = q[k]
  BY <1>2, <1>4
<1> QED
  BY <1>1, <1>3, <1>4 DEF IsPrefix

\* What lies below a directory lies below it with the directory it is in, or is
\* the directory.
LEMMA PrefixOfFront ==
    ASSUME NEW p \in Paths, NEW q \in Paths, q # Root
    PROVE  IsPrefix(p, Front(q)) <=> IsPrefix(p, q) /\ p # q
<1>1. /\ Front(q) \in Paths /\ Len(q) \in Nat \ {0} /\ Len(Front(q)) = Len(q) - 1
      /\ \A k \in 1..(Len(q) - 1) : Front(q)[k] = q[k]
  BY FrontIs
<1>2. Len(p) \in Nat
  BY LenProperties DEF Paths
<1>3. ASSUME IsPrefix(p, Front(q)) PROVE IsPrefix(p, q) /\ p # q
  <2>1. Len(p) <= Len(q) - 1 /\ \A k \in 1..Len(p) : p[k] = Front(q)[k]
    BY <1>1, <1>3, PrefixIs
  <2>2. Len(p) <= Len(q) /\ \A k \in 1..Len(p) : p[k] = q[k]
    BY <1>1, <1>2, <2>1
  <2>3. IsPrefix(p, q)
    BY <2>2, PrefixIs
  <2>4. p # q
    BY <1>1, <1>2, <2>1
  <2> QED
    BY <2>3, <2>4
<1>4. ASSUME IsPrefix(p, q), p # q PROVE IsPrefix(p, Front(q))
  <2>1. Len(p) <= Len(q) /\ \A k \in 1..Len(p) : p[k] = q[k]
    BY <1>4, PrefixIs
  <2>2. Len(p) # Len(q)
    BY <1>4, <2>1, SeqEqual DEF Paths
  <2>3. Len(p) <= Len(q) - 1 /\ \A k \in 1..Len(p) : p[k] = Front(q)[k]
    BY <1>1, <1>2, <2>1, <2>2
  <2> QED
    BY <1>1, <2>3, PrefixIs
<1> QED
  BY <1>3, <1>4

\* A path of one name more than a directory, below it, is in it.
LEMMA FrontOfRow ==
    ASSUME NEW d \in Paths, NEW q \in Paths, Len(q) = Len(d) + 1, IsPrefix(d, q)
    PROVE  q # Root /\ Front(q) = d
<1>1. Len(d) \in Nat /\ Len(Root) = 0
  BY LenProperties, EmptySeq DEF Paths, Root
<1>2. q # Root
  BY <1>1
<1>3. /\ Front(q) \in Paths /\ Len(Front(q)) = Len(d)
      /\ \A k \in 1..Len(d) : Front(q)[k] = q[k]
  <2>1. /\ Front(q) \in Paths /\ Len(Front(q)) = Len(q) - 1
        /\ \A k \in 1..(Len(q) - 1) : Front(q)[k] = q[k]
    BY <1>2, FrontIs
  <2>2. Len(q) - 1 = Len(d)
    BY <1>1
  <2> QED
    BY <2>1, <2>2
<1>4. \A k \in 1..Len(d) : d[k] = q[k]
  BY PrefixIs
<1> QED
  BY <1>2, <1>3, <1>4, SeqEqual DEF Paths

\* A name put to a directory.
LEMMA AppendIs ==
    ASSUME NEW d \in Paths, NEW name \in Names
    PROVE  Append(d, name) \in Paths \ {Root} /\ Front(Append(d, name)) = d
<1> DEFINE q == Append(d, name)
<1>1. /\ q \in Seq(Names) /\ Len(q) = Len(d) + 1 /\ q # <<>>
      /\ \A k \in 1..Len(d) : q[k] = d[k]
  BY AppendProperties DEF Paths
<1> HIDE DEF q
<1>2. Len(d) \in Nat
  BY LenProperties DEF Paths
<1>3. IsPrefix(d, q)
  BY <1>1, <1>2, PrefixIs DEF Paths
<1> QED
  BY <1>1, <1>3, FrontOfRow DEF Paths, Root, q

\* Parent: a path again.
LEMMA ParentIs ==
    ASSUME NEW p \in Paths
    PROVE  Parent(p) \in Paths /\ Root \in Paths
  BY FrontIs, EmptySeq DEF Parent, Paths, Root

-----------------------------------------------------------------------------
(* The records of the calls.                                                *)

Fields == {"id", "op", "key", "to", "text", "batch", "state", "ok", "rows"}

IsCall(c) == DOMAIN c = Fields /\ c = [f \in DOMAIN c |-> c[f]]

\* A request that is checked, that is of a batch, that renames, that edits, that
\* uploads; a request that was served.
OfState(c, v)              == [c EXCEPT !.state = v]
OfBatch(c, n)              == [c EXCEPT !.batch = n]
OfTo(c, p)                 == [c EXCEPT !.to = p]
OfText(c, t)               == [c EXCEPT !.text = t]
OfUpload(c, t, n)          == [c EXCEPT !.text = t, !.batch = n]
OfAnswer(c, good, rs, t)   == [c EXCEPT !.state = "done", !.ok = good, !.rows = rs, !.text = t]

\* Calls: a record with one field changed.
LEMMA FieldSet ==
    ASSUME NEW c, IsCall(c), NEW f \in Fields, NEW v
    PROVE  /\ IsCall([c EXCEPT ![f] = v]) /\ [c EXCEPT ![f] = v][f] = v
           /\ \A g \in Fields \ {f} : [c EXCEPT ![f] = v][g] = c[g]
<1> DEFINE d == [c EXCEPT ![f] = v]
<1>1. d = [g \in DOMAIN c |-> IF g = f THEN v ELSE c[g]]
  BY DEF IsCall
<1>2. DOMAIN d = Fields
  BY <1>1 DEF IsCall
<1>3. d = [g \in DOMAIN d |-> d[g]]
  BY <1>1
<1>4. d[f] = v /\ \A g \in Fields \ {f} : d[g] = c[g]
  BY <1>1 DEF IsCall
<1> HIDE DEF d
<1>5. IsCall(d)
  BY <1>2, <1>3 DEF IsCall
<1> QED
  BY <1>4, <1>5 DEF d

\* Call: a request as it is made.
LEMMA CallIs ==
    ASSUME NEW n, NEW op, NEW key, NEW d, d = Call(n, op, key)
    PROVE  /\ IsCall(d) /\ d.id = n /\ d.op = op /\ d.key = key /\ d.to = Root /\ d.batch = 0
           /\ d.rows = {} /\ d.state = "sent"
<1>1. d = [f \in DOMAIN d |-> d[f]]
  BY Zenon DEF Call
<1>2. DOMAIN d = Fields
  BY DEF Fields, Call
<1>3. /\ d.id = n /\ d.op = op /\ d.key = key /\ d.to = Root /\ d.batch = 0 /\ d.rows = {}
      /\ d.state = "sent"
  BY DEF Call
<1> QED
  BY <1>1, <1>2, <1>3 DEF IsCall

\* CheckLimit: a request that passed the check.
LEMMA OfStateIs ==
    ASSUME NEW c, IsCall(c), NEW v, NEW d, d = OfState(c, v)
    PROVE  /\ IsCall(d) /\ d.id = c.id /\ d.op = c.op /\ d.key = c.key /\ d.to = c.to
           /\ d.batch = c.batch /\ d.rows = c.rows
           /\ d.state = v /\ d.ok = c.ok
<1> DEFINE a1 == [c EXCEPT !["state"] = v]
<1>1. d = a1
  BY DEF OfState
<1>2. {"state", "ok", "text", "id", "op", "key", "to", "batch", "rows"} \subseteq Fields
  BY DEF Fields
<1>3. /\ IsCall(a1) /\ a1["id"] = c["id"] /\ a1["op"] = c["op"] /\ a1["key"] = c["key"]
      /\ a1["to"] = c["to"] /\ a1["batch"] = c["batch"] /\ a1["rows"] = c["rows"]
      /\ a1["state"] = v /\ a1["ok"] = c["ok"]
  BY <1>2, FieldSet
<1> HIDE DEF a1
<1> QED
  BY <1>1, <1>3

\* ConfirmDelete: a request of the batch.
LEMMA OfBatchIs ==
    ASSUME NEW c, IsCall(c), NEW n, NEW d, d = OfBatch(c, n)
    PROVE  /\ IsCall(d) /\ d.id = c.id /\ d.op = c.op /\ d.key = c.key /\ d.to = c.to
           /\ d.batch = n /\ d.rows = c.rows
           /\ d.state = c.state /\ d.ok = c.ok
<1> DEFINE a1 == [c EXCEPT !["batch"] = n]
<1>1. d = a1
  BY DEF OfBatch
<1>2. {"state", "ok", "text", "id", "op", "key", "to", "batch", "rows"} \subseteq Fields
  BY DEF Fields
<1>3. /\ IsCall(a1) /\ a1["id"] = c["id"] /\ a1["op"] = c["op"] /\ a1["key"] = c["key"]
      /\ a1["to"] = c["to"] /\ a1["batch"] = n /\ a1["rows"] = c["rows"]
      /\ a1["state"] = c["state"] /\ a1["ok"] = c["ok"]
  BY <1>2, FieldSet
<1> HIDE DEF a1
<1> QED
  BY <1>1, <1>3

\* Rename: a request with a new name.
LEMMA OfToIs ==
    ASSUME NEW c, IsCall(c), NEW p, NEW d, d = OfTo(c, p)
    PROVE  /\ IsCall(d) /\ d.id = c.id /\ d.op = c.op /\ d.key = c.key /\ d.to = p
           /\ d.batch = c.batch /\ d.rows = c.rows
           /\ d.state = c.state /\ d.ok = c.ok
<1> DEFINE a1 == [c EXCEPT !["to"] = p]
<1>1. d = a1
  BY DEF OfTo
<1>2. {"state", "ok", "text", "id", "op", "key", "to", "batch", "rows"} \subseteq Fields
  BY DEF Fields
<1>3. /\ IsCall(a1) /\ a1["id"] = c["id"] /\ a1["op"] = c["op"] /\ a1["key"] = c["key"]
      /\ a1["to"] = p /\ a1["batch"] = c["batch"] /\ a1["rows"] = c["rows"]
      /\ a1["state"] = c["state"] /\ a1["ok"] = c["ok"]
  BY <1>2, FieldSet
<1> HIDE DEF a1
<1> QED
  BY <1>1, <1>3

\* Edit: a request with a text.
LEMMA OfTextIs ==
    ASSUME NEW c, IsCall(c), NEW t, NEW d, d = OfText(c, t)
    PROVE  /\ IsCall(d) /\ d.id = c.id /\ d.op = c.op /\ d.key = c.key /\ d.to = c.to
           /\ d.batch = c.batch /\ d.rows = c.rows
           /\ d.state = c.state /\ d.ok = c.ok
<1> DEFINE a1 == [c EXCEPT !["text"] = t]
<1>1. d = a1
  BY DEF OfText
<1>2. {"state", "ok", "text", "id", "op", "key", "to", "batch", "rows"} \subseteq Fields
  BY DEF Fields
<1>3. /\ IsCall(a1) /\ a1["id"] = c["id"] /\ a1["op"] = c["op"] /\ a1["key"] = c["key"]
      /\ a1["to"] = c["to"] /\ a1["batch"] = c["batch"] /\ a1["rows"] = c["rows"]
      /\ a1["state"] = c["state"] /\ a1["ok"] = c["ok"]
  BY <1>2, FieldSet
<1> HIDE DEF a1
<1> QED
  BY <1>1, <1>3

\* UploadFiles: a request for one file.
LEMMA OfUploadIs ==
    ASSUME NEW c, IsCall(c), NEW t, NEW n, NEW d, d = OfUpload(c, t, n)
    PROVE  /\ IsCall(d) /\ d.id = c.id /\ d.op = c.op /\ d.key = c.key /\ d.to = c.to
           /\ d.batch = n /\ d.rows = c.rows
           /\ d.state = c.state /\ d.ok = c.ok
<1> DEFINE a1 == [c EXCEPT !["text"] = t]
           a2 == [a1 EXCEPT !["batch"] = n]
<1>1. d = a2
  BY DEF OfUpload
<1>2. {"state", "ok", "text", "id", "op", "key", "to", "batch", "rows"} \subseteq Fields
  BY DEF Fields
<1>3. /\ IsCall(a1) /\ a1["id"] = c["id"] /\ a1["op"] = c["op"] /\ a1["key"] = c["key"]
      /\ a1["to"] = c["to"] /\ a1["batch"] = c["batch"] /\ a1["rows"] = c["rows"]
      /\ a1["state"] = c["state"] /\ a1["ok"] = c["ok"]
  BY <1>2, FieldSet
<1> HIDE DEF a1
<1>4. /\ IsCall(a2) /\ a2["id"] = c["id"] /\ a2["op"] = c["op"] /\ a2["key"] = c["key"]
      /\ a2["to"] = c["to"] /\ a2["batch"] = n /\ a2["rows"] = c["rows"]
      /\ a2["state"] = c["state"] /\ a2["ok"] = c["ok"]
  BY <1>2, <1>3, FieldSet
<1> HIDE DEF a2
<1> QED
  BY <1>1, <1>4

\* Answered: a request that was served.
LEMMA OfAnswerIs ==
    ASSUME NEW c, IsCall(c), NEW good, NEW rs, NEW t, NEW d, d = OfAnswer(c, good, rs, t)
    PROVE  /\ IsCall(d) /\ d.id = c.id /\ d.op = c.op /\ d.key = c.key /\ d.to = c.to
           /\ d.batch = c.batch /\ d.rows = rs
           /\ d.state = "done" /\ d.ok = good
<1> DEFINE a1 == [c EXCEPT !["state"] = "done"]
           a2 == [a1 EXCEPT !["ok"] = good]
           a3 == [a2 EXCEPT !["rows"] = rs]
           a4 == [a3 EXCEPT !["text"] = t]
<1>1. d = a4
  BY DEF OfAnswer
<1>2. {"state", "ok", "text", "id", "op", "key", "to", "batch", "rows"} \subseteq Fields
  BY DEF Fields
<1>3. /\ IsCall(a1) /\ a1["id"] = c["id"] /\ a1["op"] = c["op"] /\ a1["key"] = c["key"]
      /\ a1["to"] = c["to"] /\ a1["batch"] = c["batch"] /\ a1["rows"] = c["rows"]
      /\ a1["state"] = "done" /\ a1["ok"] = c["ok"]
  BY <1>2, FieldSet
<1> HIDE DEF a1
<1>4. /\ IsCall(a2) /\ a2["id"] = c["id"] /\ a2["op"] = c["op"] /\ a2["key"] = c["key"]
      /\ a2["to"] = c["to"] /\ a2["batch"] = c["batch"] /\ a2["rows"] = c["rows"]
      /\ a2["state"] = "done" /\ a2["ok"] = good
  BY <1>2, <1>3, FieldSet
<1> HIDE DEF a2
<1>5. /\ IsCall(a3) /\ a3["id"] = c["id"] /\ a3["op"] = c["op"] /\ a3["key"] = c["key"]
      /\ a3["to"] = c["to"] /\ a3["batch"] = c["batch"] /\ a3["rows"] = rs
      /\ a3["state"] = "done" /\ a3["ok"] = good
  BY <1>2, <1>4, FieldSet
<1> HIDE DEF a3
<1>6. /\ IsCall(a4) /\ a4["id"] = c["id"] /\ a4["op"] = c["op"] /\ a4["key"] = c["key"]
      /\ a4["to"] = c["to"] /\ a4["batch"] = c["batch"] /\ a4["rows"] = rs
      /\ a4["state"] = "done" /\ a4["ok"] = good
  BY <1>2, <1>5, FieldSet
<1> HIDE DEF a4
<1> QED
  BY <1>1, <1>6

-----------------------------------------------------------------------------
(* The invariant.                                                           *)

IsRow(r, d) == r.key \in Paths \ {Root} /\ Front(r.key) = d

Good(c) ==
    /\ IsCall(c) /\ c.key \in Paths
    /\ c.op \in {"ls", "rm", "mkdir", "rename", "edit", "upload", "download"}
    /\ c.op = "rename" => c.to \in Paths \ {Root}
    /\ c.op = "download" => "edit" \in flags /\ c.key # Root
    /\ Permitted(c.op) \/ c.op = "download"
    /\ \A r \in c.rows : IsRow(r, c.key)

Modal(c)   == c.op \in {"mkdir", "rename", "edit"}
InBatch(c) == c.op = "rm" /\ c.batch = 1

\* A busy button waits for one request, a batch sends one at a time.
Single(cs) ==
    /\ \A c, d \in cs : Modal(c) /\ Modal(d) => c = d
    /\ \A c, d \in cs : InBatch(c) /\ InBatch(d) => c = d

HasLs(cs)    == \E c \in cs : c.op = "ls"
HasModal(cs) == \E c \in cs : Modal(c)
HasBatch(cs) == \E c \in cs : InBatch(c)

Types ==
    /\ flags \subseteq Operations
    /\ currentDirectory \in Paths /\ rowKeys \subseteq Paths /\ currentFileKey \in Paths
    /\ loading \in BOOLEAN /\ confirmLoading \in BOOLEAN
    /\ mkdirVisible \in BOOLEAN /\ renameVisible \in BOOLEAN /\ editorVisible \in BOOLEAN
    /\ dialog \in {"closed", "open", "running"}
    /\ ops \in 0..MaxOps /\ lost \in 0..MaxLost

\* What is on the screen, and that what it offers is permitted.
Screen ==
    /\ \A r \in files : IsRow(r, currentDirectory)
    /\ selectedRowKeys \subseteq {r.key : r \in files}
    /\ editorVisible => currentFileKey = openedFile /\ openedFile # Root /\ "edit" \in flags
    /\ mkdirVisible => "upload" \in flags
    /\ renameVisible => "rename" \in flags
    /\ dialog # "closed" => "delete" \in flags

Requests ==
    /\ sent \in Nat
    /\ \A c \in calls : Good(c) /\ c.id \in 1..sent

Waits ==
    /\ Single(calls)
    /\ HasModal(calls) => confirmLoading
    /\ HasBatch(calls) => dialog = "running"
    /\ lost = 0 => /\ loading => HasLs(calls)
                   /\ confirmLoading => HasModal(calls)
                   /\ dialog = "running" => HasBatch(calls)

Removes == IF dialog = "running" THEN agreed = requested \cup rowKeys ELSE requested = agreed

Storage == DOMAIN tree \subseteq Paths \ {Root} /\ TreeIsClosed

IInv == Types /\ Screen /\ Requests /\ Waits /\ Removes /\ Storage

\* The invariant holds what the properties say.
LEMMA IInvIs == IInv => FilesInv /\ RemovesWhatWasAgreed
<1> SUFFICES ASSUME IInv PROVE FilesInv /\ RemovesWhatWasAgreed
  OBVIOUS
<1>1. selectedRowKeys \subseteq Paths
  BY DEF IInv, Screen, IsRow
<1>2. TypeOK
  BY <1>1 DEF IInv, Types, Storage, Requests, TypeOK, Paths
<1>3. RowsAreOfDirectory
  BY DEF IInv, Screen, IsRow, RowsAreOfDirectory
<1>4. EditorKeepsItsFile
  BY DEF IInv, Screen, EditorKeepsItsFile
<1>5. AsksWhatIsPermitted
  BY DEF IInv, Requests, Good, AsksWhatIsPermitted
<1>6. BusyHasAReason
  BY DEF IInv, Types, Waits, HasLs, HasModal, HasBatch, Modal, InBatch, BusyHasAReason
<1>7. TreeIsClosed /\ RemovesWhatWasAgreed
  BY DEF IInv, Storage, Removes, RemovesWhatWasAgreed
<1> QED
  BY <1>2, <1>3, <1>4, <1>5, <1>6, <1>7 DEF FilesInv

-----------------------------------------------------------------------------
(* The requests under way.                                                  *)

\* What waits for a request, with one request in place of another one like it.
LEMMA Swapped ==
    ASSUME NEW cs, NEW c \in cs, NEW d, d.op = c.op, d.batch = c.batch, Single(cs),
           NEW ds, ds = (cs \ {c}) \cup {d}
    PROVE  /\ Single(ds)
           /\ HasLs(ds) <=> HasLs(cs)
           /\ HasModal(ds) <=> HasModal(cs)
           /\ HasBatch(ds) <=> HasBatch(cs)
  BY DEF Single, HasLs, HasModal, HasBatch, Modal, InBatch

\* With more requests, of which none is one that something waits for.
LEMMA Added ==
    ASSUME NEW cs, NEW more, Single(cs), \A d \in more : ~Modal(d) /\ ~InBatch(d)
    PROVE  /\ Single(cs \cup more)
           /\ HasLs(cs) => HasLs(cs \cup more)
           /\ HasModal(cs \cup more) <=> HasModal(cs)
           /\ HasBatch(cs \cup more) <=> HasBatch(cs)
  BY DEF Single, HasLs, HasModal, HasBatch

\* With one request less.
LEMMA Removed ==
    ASSUME NEW cs, NEW c \in cs, Single(cs)
    PROVE  /\ Single(cs \ {c})
           /\ c.op # "ls" => (HasLs(cs \ {c}) <=> HasLs(cs))
           /\ HasModal(cs \ {c}) <=> HasModal(cs) /\ ~Modal(c)
           /\ HasBatch(cs \ {c}) <=> HasBatch(cs) /\ ~InBatch(c)
  BY DEF Single, HasLs, HasModal, HasBatch, Modal, InBatch

\* Permitted: no step changes it.
LEMMA GoodStays ==
    ASSUME flags' = flags, NEW c, Good(c)
    PROVE  Good(c)'
  BY DEF Good, Permitted, IsRow, IsCall

\* Send: one more request.
LEMMA SentIs ==
    ASSUME Requests, flags' = flags, NEW d, Send({d}), Good(d), d.id = sent + 1
    PROVE  Requests' /\ calls' = calls \cup {d}
<1>1. calls' = calls \cup {d} /\ sent' = sent + 1
  BY FS_Singleton DEF Send
<1>2. \A c \in calls' : Good(c) /\ c.id \in 1..sent'
  BY <1>1 DEF Requests
<1> QED
  BY <1>1, <1>2, GoodStays DEF Requests

\* GoOn: one request less, and perhaps another one.
LEMMA WentOn ==
    ASSUME Requests, flags' = flags, NEW c \in calls
    PROVE  /\ GoOn(c, {}) => Requests' /\ calls' = calls \ {c}
           /\ \A d : GoOn(c, {d}) /\ Good(d) /\ d.id = sent + 1 =>
                Requests' /\ calls' = (calls \ {c}) \cup {d}
<1>1. ASSUME GoOn(c, {}) PROVE Requests' /\ calls' = calls \ {c}
  <2>1. calls' = calls \ {c} /\ sent' = sent
    BY <1>1, FS_EmptySet DEF GoOn, Requests
  <2>2. \A d \in calls' : Good(d) /\ d.id \in 1..sent'
    BY <2>1 DEF Requests
  <2> QED
    BY <2>1, <2>2, GoodStays DEF Requests
<1>2. ASSUME NEW d, GoOn(c, {d}), Good(d), d.id = sent + 1
      PROVE  Requests' /\ calls' = (calls \ {c}) \cup {d}
  <2>1. calls' = (calls \ {c}) \cup {d} /\ sent' = sent + 1
    BY <1>2, FS_Singleton DEF GoOn
  <2>2. \A e \in calls' : Good(e) /\ e.id \in 1..sent'
    BY <1>2, <2>1 DEF Requests
  <2> QED
    BY <2>1, <2>2, GoodStays DEF Requests
<1> QED
  BY <1>1, <1>2

\* Ls: a list of a directory is permitted to everyone.
LEMMA LsIs ==
    ASSUME NEW d \in Paths
    PROVE  Good(Ls(d)) /\ Ls(d).op = "ls" /\ Ls(d).id = sent + 1
<1>1. /\ IsCall(Ls(d)) /\ Ls(d).op = "ls" /\ Ls(d).id = sent + 1 /\ Ls(d).key = d /\ Ls(d).rows = {}
  BY CallIs DEF Ls
<1> QED
  BY <1>1 DEF Good, Permitted

\* Rm: a removal where that is permitted, by itself or of the batch.
LEMMA RmIs ==
    ASSUME NEW k \in Paths, "delete" \in flags
    PROVE  /\ Good(Rm(k)) /\ Rm(k).op = "rm" /\ Rm(k).batch = 0 /\ Rm(k).id = sent + 1
           /\ \A d : d = [Rm(k) EXCEPT !.batch = 1] =>
                Good(d) /\ InBatch(d) /\ d.id = sent + 1 /\ d.op = "rm"
<1>1. /\ IsCall(Rm(k)) /\ Rm(k).op = "rm" /\ Rm(k).batch = 0 /\ Rm(k).id = sent + 1
      /\ Rm(k).key = k /\ Rm(k).rows = {}
  BY CallIs DEF Rm
<1>2. ASSUME NEW d, d = [Rm(k) EXCEPT !.batch = 1]
      PROVE  Good(d) /\ InBatch(d) /\ d.id = sent + 1 /\ d.op = "rm"
  <2>1. d = OfBatch(Rm(k), 1)
    BY <1>2 DEF OfBatch
  <2>2. /\ IsCall(d) /\ d.op = "rm" /\ d.batch = 1 /\ d.id = sent + 1 /\ d.key = k
        /\ d.rows = {}
    BY <1>1, <2>1, OfBatchIs
  <2> QED
    BY <2>2 DEF Good, InBatch, Permitted
<1> QED
  BY <1>1, <1>2 DEF Good, Permitted

-----------------------------------------------------------------------------
(* The storage.                                                             *)

\* Every path of a tree lies in directories of the tree.
IsTree(t) ==
    /\ DOMAIN t \subseteq Paths \ {Root}
    /\ \A p \in DOMAIN t : Front(p) = Root \/ (Front(p) \in DOMAIN t /\ t[Front(p)] = "dir")

\* What the invariant says of the storage, of a tree that a step may make.
LEMMA StorageIs == Storage <=> IsTree(tree)
  BY DEF Storage, TreeIsClosed, IsDirectory, IsTree

\* StorageRm: what lies below is gone with the directory.
LEMMA RmTree ==
    ASSUME IsTree(tree), NEW p \in Paths, NEW t \in StorageRm(p)
    PROVE  IsTree(t)
<1>1. /\ DOMAIN t = DOMAIN tree \ Below(p) /\ \A q \in DOMAIN t : t[q] = tree[q]
  BY DEF StorageRm, Without
<1>2. ASSUME NEW q \in DOMAIN t, Front(q) # Root
      PROVE  Front(q) \in DOMAIN t /\ t[Front(q)] = "dir"
  <2>1. q \in DOMAIN tree /\ q \in Paths \ {Root} /\ ~IsPrefix(p, q)
    BY <1>1 DEF IsTree, Below
  <2>2. Front(q) \in DOMAIN tree /\ tree[Front(q)] = "dir"
    BY <1>2, <2>1 DEF IsTree
  <2>3. ~IsPrefix(p, Front(q))
    BY <2>1, PrefixOfFront
  <2> QED
    BY <1>1, <2>2, <2>3 DEF Below
<1> QED
  BY <1>1, <1>2 DEF IsTree

\* StorageEdit, StorageUpload: a file where there is no directory, in one.
LEMMA FileTree ==
    ASSUME NEW t, IsTree(t), NEW p \in Paths \ {Root}, NEW v,
           Front(p) = Root \/ (Front(p) \in DOMAIN t /\ t[Front(p)] = "dir"),
           p \notin DOMAIN t \/ t[p] # "dir"
    PROVE  IsTree(With(t, {p}, v))
<1> DEFINE u == With(t, {p}, v)
<1>1. /\ DOMAIN u = DOMAIN t \cup {p} /\ u[p] = v
      /\ \A q \in DOMAIN t : q # p => u[q] = t[q]
  BY DEF With
<1> HIDE DEF u
<1>2. \A q \in DOMAIN u : Front(q) # Root => Front(q) \in DOMAIN t /\ t[Front(q)] = "dir"
  BY <1>1 DEF IsTree
<1>3. \A q \in DOMAIN u : Front(q) # Root => Front(q) \in DOMAIN u /\ u[Front(q)] = "dir"
  BY <1>1, <1>2
<1> QED
  BY <1>1, <1>3 DEF IsTree, u

\* Ancestors: the directories on the way to a path, and it.
LEMMA AncestorsAre ==
    ASSUME NEW d \in Paths
    PROVE  /\ Ancestors(d) \subseteq Paths \ {Root}
           /\ \A a \in Ancestors(d) : Len(a) \in Nat /\ Len(a) <= Len(d)
           /\ \A a \in Ancestors(d) : Front(a) = Root \/ Front(a) \in Ancestors(d)
           /\ d = Root \/ d \in Ancestors(d)
<1> DEFINE At(n) == SubSeq(d, 1, n)
<1>1. Len(d) \in Nat /\ \A k \in 1..Len(d) : d[k] \in Names
  BY LenProperties, ElementOfSeq DEF Paths
<1>2. ASSUME NEW n \in 1..Len(d)
      PROVE  /\ At(n) \in Paths \ {Root} /\ Len(At(n)) = n
             /\ \A k \in 1..n : At(n)[k] = d[k]
  <2>1. n \in Int /\ 1 \in Int /\ 1 <= n /\ \A k \in 1..n : d[k] \in Names
    BY <1>1
  <2>2. /\ At(n) \in Seq(Names) /\ Len(At(n)) = IF 1 <= n THEN n - 1 + 1 ELSE 0
        /\ \A k \in 1..(n - 1 + 1) : At(n)[k] = d[1 + k - 1]
    BY <2>1, SubSeqProperties
  <2> HIDE DEF At
  <2>3. Len(At(n)) = n /\ \A k \in 1..n : At(n)[k] = d[k]
    BY <2>1, <2>2
  <2>4. At(n) # Root
    BY <2>1, <2>3, EmptySeq DEF Root
  <2> QED
    BY <2>2, <2>3, <2>4 DEF Paths
<1>3. Ancestors(d) = {At(n) : n \in 1..Len(d)}
  BY DEF Ancestors
<1>4. d = Root \/ (Len(d) \in 1..Len(d) /\ At(Len(d)) = d)
  BY <1>1, SubSeqFull, EmptySeq DEF Paths, Root
<1> HIDE DEF At
<1>5. ASSUME NEW n \in 1..Len(d), n # 1 PROVE Front(At(n)) = At(n - 1)
  <2>1. n - 1 \in 1..Len(d)
    BY <1>1, <1>5
  <2>2. /\ Front(At(n)) \in Paths /\ Len(Front(At(n))) = n - 1
        /\ \A k \in 1..(n - 1) : Front(At(n))[k] = At(n)[k]
    BY <1>2, FrontIs
  <2>3. /\ At(n - 1) \in Paths /\ Len(At(n - 1)) = n - 1
        /\ \A k \in 1..(n - 1) : At(n - 1)[k] = d[k]
    BY <1>2, <2>1
  <2>4. \A k \in 1..(n - 1) : Front(At(n))[k] = At(n - 1)[k]
    BY <1>1, <1>2, <2>2, <2>3
  <2> QED
    BY <2>2, <2>3, <2>4, SeqEqual DEF Paths
<1>6. ASSUME 1 \in 1..Len(d) PROVE Front(At(1)) = Root
  <2>1. Front(At(1)) \in Seq(Names) /\ Len(Front(At(1))) = 0
    BY <1>2, <1>6, FrontIs DEF Paths
  <2> QED
    BY <2>1, EmptySeq DEF Root
<1>7. \A n \in 1..Len(d) : n = 1 \/ n - 1 \in 1..Len(d)
  BY <1>1
<1>8. \A a \in Ancestors(d) : Front(a) = Root \/ Front(a) \in Ancestors(d)
  BY <1>3, <1>5, <1>6, <1>7
<1>9. \A a \in Ancestors(d) : a \in Paths \ {Root} /\ Len(a) \in Nat /\ Len(a) <= Len(d)
  BY <1>1, <1>2, <1>3
<1> QED
  BY <1>3, <1>4, <1>8, <1>9

\* StorageMkDir: the directories on the way are made, files stay where they are.
LEMMA MadeTree ==
    ASSUME IsTree(tree), NEW d \in Paths, CanMakeAll(d)
    PROVE  /\ IsTree(MadeAll(d))
           /\ DOMAIN MadeAll(d) = DOMAIN tree \cup Ancestors(d)
           /\ \A q \in DOMAIN tree : MadeAll(d)[q] = tree[q]
           /\ \A a \in Ancestors(d) : MadeAll(d)[a] = "dir"
<1> DEFINE t == MadeAll(d)
<1>1. /\ DOMAIN t = DOMAIN tree \cup Ancestors(d)
      /\ \A q \in DOMAIN tree : t[q] = tree[q]
      /\ \A a \in Ancestors(d) \ DOMAIN tree : t[a] = "dir"
  BY DEF MadeAll, With
<1> HIDE DEF t
<1>2. \A a \in Ancestors(d) : t[a] = "dir"
  BY <1>1 DEF CanMakeAll
<1>3. \A q \in DOMAIN t : Front(q) = Root \/ (Front(q) \in DOMAIN t /\ t[Front(q)] = "dir")
  BY <1>1, <1>2, AncestorsAre DEF IsTree
<1> QED
  BY <1>1, <1>2, <1>3, AncestorsAre DEF IsTree, t

\* StorageUpload: a file, and the directories on the way to it.
LEMMA UploadTree ==
    ASSUME IsTree(tree), NEW p \in Paths, NEW text, NEW t \in StorageUpload(p, text)
    PROVE  IsTree(t)
<1> DEFINE m == MadeAll(Front(p))
<1>1. t = With(m, {p}, text) /\ CanMakeAll(Front(p)) /\ ~IsDirectory(p)
  BY DEF StorageUpload
<1>2. /\ p # Root /\ Front(p) \in Paths /\ Len(p) \in Nat \ {0} /\ Len(Front(p)) = Len(p) - 1
  BY <1>1, FrontIs DEF IsDirectory
<1>3. /\ IsTree(m) /\ DOMAIN m = DOMAIN tree \cup Ancestors(Front(p))
      /\ \A q \in DOMAIN tree : m[q] = tree[q]
      /\ \A a \in Ancestors(Front(p)) : m[a] = "dir"
  BY <1>1, <1>2, MadeTree
<1> HIDE DEF m
<1>4. p \notin Ancestors(Front(p))
  BY <1>2, AncestorsAre
<1>5. Front(p) = Root \/ (Front(p) \in DOMAIN m /\ m[Front(p)] = "dir")
  BY <1>2, <1>3, AncestorsAre
<1>6. p \notin DOMAIN m \/ m[p] # "dir"
  BY <1>1, <1>3, <1>4 DEF IsDirectory
<1> QED
  BY <1>1, <1>2, <1>3, <1>5, <1>6, FileTree

\* The path of a file below a directory that is renamed.
MovedTo(old, new, p) == new \o SubSeq(p, Len(old) + 1, Len(p))

\* It starts with the new name, and ends as the old path did.
IsMoved(m, old, new, p) ==
    /\ m \in Paths \ {Root} /\ Len(m) = Len(new) + (Len(p) - Len(old)) /\ IsPrefix(new, m)
    /\ \A k \in 1..Len(new) : m[k] = new[k]
    /\ \A k \in 1..(Len(p) - Len(old)) : m[Len(new) + k] = p[Len(old) + k]

\* MovedTo: it does.
LEMMA MovedIs ==
    ASSUME NEW old \in Paths, NEW new \in Paths \ {Root}, NEW p \in Paths, IsPrefix(old, p)
    PROVE  IsMoved(MovedTo(old, new, p), old, new, p)
<1> DEFINE a == Len(old) + 1
           n == Len(p)
           rest == SubSeq(p, a, n)
           m == new \o rest
<1>1. /\ Len(old) \in Nat /\ Len(new) \in Nat \ {0} /\ n \in Nat
      /\ \A k \in 1..n : p[k] \in Names
  BY LenProperties, ElementOfSeq, EmptySeq DEF Paths, Root
<1>2. Len(old) <= n
  BY PrefixIs
<1>3. a \in Int /\ n \in Int /\ \A k \in a..n : p[k] \in Names
  BY <1>1
<1>4. m = MovedTo(old, new, p)
  BY DEF MovedTo
<1> HIDE DEF a, n, rest, m
<1>5. /\ rest \in Seq(Names) /\ Len(rest) = IF a <= n THEN n - a + 1 ELSE 0
      /\ \A k \in 1..(n - a + 1) : rest[k] = p[a + k - 1]
  BY <1>3, SubSeqProperties DEF rest, Paths
<1>6. Len(rest) = n - Len(old) /\ \A k \in 1..(n - Len(old)) : rest[k] = p[Len(old) + k]
  <2>1. Len(rest) = n - Len(old)
    BY <1>1, <1>2, <1>5 DEF a
  <2>2. ASSUME NEW k \in 1..(n - Len(old)) PROVE rest[k] = p[Len(old) + k]
    <3>1. k \in 1..(n - a + 1) /\ a + k - 1 = Len(old) + k
      BY <1>1, <1>2 DEF a
    <3> QED
      BY <1>5, <3>1
  <2> QED
    BY <2>1, <2>2
<1>7. /\ m \in Seq(Names) /\ Len(m) = Len(new) + Len(rest)
      /\ \A k \in 1..(Len(new) + Len(rest)) :
           m[k] = IF k <= Len(new) THEN new[k] ELSE rest[k - Len(new)]
  BY <1>5, ConcatProperties DEF m, Paths
<1>8. \A k \in 1..Len(new) : m[k] = new[k]
  BY <1>1, <1>2, <1>6, <1>7
<1>9. ASSUME NEW k \in 1..(n - Len(old)) PROVE m[Len(new) + k] = p[Len(old) + k]
  <2>1. /\ Len(new) + k \in 1..(Len(new) + Len(rest)) /\ ~(Len(new) + k <= Len(new))
        /\ (Len(new) + k) - Len(new) = k
    BY <1>1, <1>2, <1>6
  <2> QED
    BY <1>6, <1>7, <2>1
<1>10. m # Root /\ Len(new) <= Len(m)
  BY <1>1, <1>2, <1>6, <1>7, EmptySeq DEF Root
<1>11. IsPrefix(new, m)
  BY <1>7, <1>8, <1>10, PrefixIs DEF Paths
<1>12. m \in Paths \ {Root} /\ Len(m) = Len(new) + (n - Len(old))
  BY <1>6, <1>7, <1>10 DEF Paths
<1> QED
  BY <1>4, <1>8, <1>9, <1>11, <1>12 DEF IsMoved, n

\* Two files are not moved to one path.
LEMMA MovedApart ==
    ASSUME NEW old \in Paths, NEW new \in Paths \ {Root}, NEW p \in Paths, NEW q \in Paths,
           IsPrefix(old, p), IsPrefix(old, q), MovedTo(old, new, p) = MovedTo(old, new, q)
    PROVE  p = q
<1> DEFINE m == MovedTo(old, new, p)
<1>0. IsMoved(m, old, new, p) /\ IsMoved(m, old, new, q)
  BY MovedIs
<1> HIDE DEF m
<1>1. Len(old) \in Nat /\ Len(new) \in Nat /\ Len(p) \in Nat /\ Len(q) \in Nat
  BY LenProperties DEF Paths
<1>2. Len(p) = Len(q)
  BY <1>1, <1>0 DEF IsMoved
<1>3. /\ Len(old) <= Len(p) /\ \A k \in 1..Len(old) : old[k] = p[k] /\ old[k] = q[k]
  BY PrefixIs
<1>4. \A k \in 1..(Len(p) - Len(old)) : p[Len(old) + k] = q[Len(old) + k]
  BY <1>2, <1>0 DEF IsMoved
<1>5. ASSUME NEW k \in 1..Len(p) PROVE p[k] = q[k]
  <2>1. CASE k <= Len(old)
    BY <1>1, <1>3, <2>1
  <2>2. CASE k > Len(old)
    <3>1. k - Len(old) \in 1..(Len(p) - Len(old)) /\ Len(old) + (k - Len(old)) = k
      BY <1>1, <1>3, <2>2
    <3> QED
      BY <1>4, <3>1
  <2> QED
    BY <1>1, <2>1, <2>2
<1> QED
  BY <1>2, <1>5, SeqEqual DEF Paths

\* A file that is moved is in the directory that is moved with it.
LEMMA MovedFront ==
    ASSUME NEW old \in Paths, NEW new \in Paths \ {Root}, NEW p \in Paths \ {Root},
           IsPrefix(old, p)
    PROVE  /\ p = old => MovedTo(old, new, p) = new
           /\ p # old => IsPrefix(old, Front(p))
                         /\ Front(MovedTo(old, new, p)) = MovedTo(old, new, Front(p))
<1> DEFINE m == MovedTo(old, new, p)
           f == MovedTo(old, new, Front(p))
<1>1. /\ Len(old) \in Nat /\ Len(new) \in Nat
      /\ Front(p) \in Paths /\ Len(p) \in Nat \ {0} /\ Len(Front(p)) = Len(p) - 1
      /\ \A k \in 1..(Len(p) - 1) : Front(p)[k] = p[k]
  BY FrontIs, LenProperties DEF Paths
<1>2. /\ m \in Paths \ {Root} /\ Len(m) = Len(new) + (Len(p) - Len(old))
      /\ \A k \in 1..Len(new) : m[k] = new[k]
      /\ \A k \in 1..(Len(p) - Len(old)) : m[Len(new) + k] = p[Len(old) + k]
  <2>1. IsMoved(m, old, new, p)
    BY MovedIs
  <2> HIDE DEF m
  <2> QED
    BY <2>1 DEF IsMoved
<1>3. ASSUME p = old PROVE m = new
  <2>1. Len(m) = Len(new) /\ \A k \in 1..Len(m) : m[k] = new[k]
    BY <1>1, <1>2, <1>3
  <2> HIDE DEF m
  <2> QED
    BY <1>2, <2>1, SeqEqual DEF Paths
<1>4. ASSUME p # old PROVE IsPrefix(old, Front(p)) /\ Front(m) = f
  <2>1. IsPrefix(old, Front(p))
    BY <1>4, PrefixOfFront
  <2>2. /\ f \in Paths \ {Root} /\ Len(f) = Len(new) + (Len(Front(p)) - Len(old))
        /\ \A k \in 1..Len(new) : f[k] = new[k]
        /\ \A k \in 1..(Len(Front(p)) - Len(old)) : f[Len(new) + k] = Front(p)[Len(old) + k]
    <3> DEFINE g == Front(p)
    <3>1. g \in Paths /\ IsPrefix(old, g) /\ f = MovedTo(old, new, g)
      BY <1>1, <2>1
    <3> HIDE DEF g, f
    <3>2. IsMoved(f, old, new, g)
      BY <3>1, MovedIs
    <3> QED
      BY <3>2 DEF IsMoved, g
  <2>3. Len(old) <= Len(p) - 1
    BY <1>1, <2>1, PrefixIs
  <2> HIDE DEF m, f
  <2>4. /\ Front(m) \in Paths /\ Len(Front(m)) = Len(m) - 1
        /\ \A k \in 1..(Len(m) - 1) : Front(m)[k] = m[k]
    BY <1>2, FrontIs
  <2>5. Len(Front(m)) = Len(f)
    BY <1>1, <1>2, <2>2, <2>4
  <2>6. ASSUME NEW k \in 1..Len(f) PROVE Front(m)[k] = f[k]
    <3>1. Front(m)[k] = m[k]
      BY <1>1, <1>2, <2>4, <2>5
    <3>2. CASE k <= Len(new)
      BY <1>1, <1>2, <2>2, <3>1, <3>2
    <3>3. CASE k > Len(new)
      <4> DEFINE j == k - Len(new)
      <4>1. /\ j \in 1..(Len(Front(p)) - Len(old)) /\ j \in 1..(Len(p) - Len(old))
            /\ Len(new) + j = k /\ Len(old) + j \in 1..(Len(p) - 1)
        BY <1>1, <2>2, <2>3, <3>3
      <4> HIDE DEF j
      <4>2. f[k] = Front(p)[Len(old) + j]
        BY <2>2, <4>1
      <4>3. m[k] = p[Len(old) + j]
        BY <1>2, <4>1
      <4>4. Front(p)[Len(old) + j] = p[Len(old) + j]
        BY <1>1, <4>1
      <4> QED
        BY <3>1, <4>2, <4>3, <4>4
    <3> QED
      BY <1>1, <2>2, <3>2, <3>3
  <2>7. Front(m) = f
    BY <2>2, <2>4, <2>5, <2>6, SeqEqual DEF Paths
  <2> QED
    BY <2>1, <2>7
<1> QED
  BY <1>3, <1>4

\* StorageRename: the directory goes with what is below it.
LEMMA RenameTree ==
    ASSUME IsTree(tree), NEW old \in Paths, NEW new \in Paths \ {Root},
           NEW t \in StorageRename(old, new)
    PROVE  IsTree(t)
<1> DEFINE kept == Without(tree, Below(old) \cup Below(new))
           Moved(p) == MovedTo(old, new, p)
           from == {<<Moved(p), p>> : p \in Below(old)}
           F(q) == IF q \in DOMAIN kept THEN kept[q]
                   ELSE tree[(CHOOSE m \in from : m[1] = q)[2]]
<1>1. /\ CanRename(old, new)
      /\ t = [q \in DOMAIN kept \cup {m[1] : m \in from} |-> F(q)]
  BY Zenon DEF StorageRename, MovedTo
<1>2. /\ DOMAIN kept = {q \in DOMAIN tree : ~IsPrefix(old, q) /\ ~IsPrefix(new, q)}
      /\ \A q \in DOMAIN kept : kept[q] = tree[q]
  BY DEF Without, Below
<1>3. \A p \in Below(old) : p \in DOMAIN tree /\ p \in Paths \ {Root} /\ IsPrefix(old, p)
  BY DEF Below, IsTree
<1>4. {m[1] : m \in from} = {Moved(p) : p \in Below(old)}
  <2>1. \A p : <<Moved(p), p>>[1] = Moved(p)
    OBVIOUS
  <2> HIDE DEF Moved
  <2>2. \A m \in from : \E p \in Below(old) : m[1] = Moved(p)
    BY <2>1
  <2>3. \A p \in Below(old) : \E m \in from : m[1] = Moved(p)
    <3> SUFFICES ASSUME NEW p \in Below(old) PROVE \E m \in from : m[1] = Moved(p)
      OBVIOUS
    <3>1. <<Moved(p), p>> \in from
      OBVIOUS
    <3> HIDE DEF from
    <3> QED
      BY <2>1, <3>1
  <2> HIDE DEF from
  <2> QED
    BY <2>2, <2>3
<1>5. /\ DOMAIN t = DOMAIN kept \cup {Moved(p) : p \in Below(old)}
      /\ \A q \in DOMAIN t : t[q] = F(q)
  BY <1>1, <1>4, Zenon
<1>6. ASSUME NEW p \in Below(old)
      PROVE  /\ Moved(p) \in Paths \ {Root} /\ Moved(p) \notin DOMAIN kept
             /\ (CHOOSE m \in from : m[1] = Moved(p))[2] = p
  <2>1. Moved(p) \in Paths \ {Root} /\ IsPrefix(new, Moved(p))
    BY <1>3, MovedIs DEF IsMoved
  <2>2. Moved(p) \notin DOMAIN kept
    BY <1>2, <2>1
  <2>3. \E m \in from : m[1] = Moved(p)
    <3>1. Moved(p) \in {Moved(q) : q \in Below(old)}
      BY <1>6
    <3> HIDE DEF from, Moved
    <3> QED
      BY <1>4, <3>1
  <2>4. \A q \in Below(old) : Moved(q) = Moved(p) => q = p
    BY <1>3, MovedApart
  <2>5. \A m \in from : m[1] = Moved(p) => m[2] = p
    BY <2>4
  <2>6. (CHOOSE m \in from : m[1] = Moved(p))[2] = p
    <3> DEFINE x == CHOOSE m \in from : m[1] = Moved(p)
    <3>1. x \in from /\ x[1] = Moved(p)
      BY <2>3
    <3> HIDE DEF x
    <3>2. x[2] = p
      BY <2>5, <3>1
    <3> QED
      BY <3>2 DEF x
  <2> QED
    BY <2>1, <2>2, <2>6
<1>7. \A p \in Below(old) : Moved(p) \in DOMAIN t /\ t[Moved(p)] = tree[p]
  BY <1>5, <1>6
<1>8. \A q \in DOMAIN kept : q \in DOMAIN t /\ t[q] = tree[q]
  BY <1>2, <1>5
<1>9. DOMAIN kept \subseteq DOMAIN tree /\ DOMAIN tree \subseteq Paths \ {Root}
  BY <1>2 DEF IsTree
<1> HIDE DEF kept, Moved, from, F
<1>10. ASSUME NEW q \in DOMAIN kept, Front(q) # Root
       PROVE  Front(q) \in DOMAIN t /\ t[Front(q)] = "dir"
  <2>1. q \in DOMAIN tree /\ q \in Paths \ {Root} /\ ~IsPrefix(old, q) /\ ~IsPrefix(new, q)
    BY <1>2, <1>9
  <2>2. Front(q) \in DOMAIN tree /\ tree[Front(q)] = "dir"
    BY <1>10, <2>1 DEF IsTree
  <2>3. ~IsPrefix(old, Front(q)) /\ ~IsPrefix(new, Front(q))
    BY <2>1, PrefixOfFront
  <2> QED
    BY <1>2, <1>8, <2>2, <2>3
<1>11. ASSUME Front(new) # Root
       PROVE  Front(new) \in DOMAIN t /\ t[Front(new)] = "dir"
  <2>1. Front(new) \in DOMAIN tree /\ tree[Front(new)] = "dir"
    BY <1>1, <1>11 DEF CanRename, IsDirectory
  <2>2. ~IsPrefix(new, Front(new))
    BY PrefixOfFront
  <2>3. ~IsPrefix(old, Front(new))
    BY <1>1, PrefixOfFront DEF CanRename, IsStrictPrefix
  <2> QED
    BY <1>2, <1>8, <2>1, <2>2, <2>3
<1>12. ASSUME NEW p \in Below(old), Front(Moved(p)) # Root
       PROVE  Front(Moved(p)) \in DOMAIN t /\ t[Front(Moved(p))] = "dir"
  <2>1. p \in DOMAIN tree /\ p \in Paths \ {Root} /\ IsPrefix(old, p)
    BY <1>3
  <2>2. CASE p = old
    <3>1. Moved(p) = new
      BY <2>1, <2>2, MovedFront DEF Moved
    <3> QED
      BY <1>11, <1>12, <3>1
  <2>3. CASE p # old
    <3>1. IsPrefix(old, Front(p)) /\ Front(Moved(p)) = Moved(Front(p))
      BY <2>1, <2>3, MovedFront DEF Moved
    <3>2. old # Root
      BY <1>1 DEF CanRename, IsTree
    <3>3. Front(p) # Root
      <4>1. Len(Root) = 0 /\ Len(old) \in Nat \ {0} /\ Root \in Paths
        BY <3>2, LenProperties, EmptySeq DEF Paths, Root
      <4>2. ~IsPrefix(old, Root)
        BY <4>1, PrefixIs
      <4> QED
        BY <3>1, <4>2
    <3>4. Front(p) \in DOMAIN tree /\ tree[Front(p)] = "dir"
      BY <2>1, <3>3 DEF IsTree
    <3>5. Front(p) \in Below(old)
      BY <3>1, <3>4 DEF Below
    <3> QED
      BY <1>7, <3>1, <3>4, <3>5
  <2> QED
    BY <2>2, <2>3
<1>13. ASSUME NEW q \in DOMAIN t
       PROVE  /\ q \in Paths \ {Root}
              /\ Front(q) = Root \/ (Front(q) \in DOMAIN t /\ t[Front(q)] = "dir")
  <2>1. CASE q \in DOMAIN kept
    BY <1>9, <1>10, <2>1
  <2>2. CASE \E p \in Below(old) : q = Moved(p)
    BY <1>6, <1>12, <2>2
  <2> QED
    BY <1>5, <2>1, <2>2
<1> QED
  BY <1>13 DEF IsTree

\* StorageEdit: the text of a file.
LEMMA EditTree ==
    ASSUME IsTree(tree), NEW p \in Paths, NEW text, NEW t \in StorageEdit(p, text)
    PROVE  IsTree(t)
<1>1. t = With(tree, {p}, text) /\ p # Root /\ IsDirectory(Front(p)) /\ ~IsDirectory(p)
  BY DEF StorageEdit
<1>2. /\ Front(p) = Root \/ (Front(p) \in DOMAIN tree /\ tree[Front(p)] = "dir")
      /\ p \notin DOMAIN tree \/ tree[p] # "dir"
  BY <1>1 DEF IsDirectory
<1> QED
  BY <1>1, <1>2, FileTree

\* Results: whatever is asked for, the storage is a tree of directories again.
LEMMA ResultsAre ==
    ASSUME IsTree(tree), NEW c, Good(c), NEW t \in Results(c),
           c.op \in {"rm", "mkdir", "rename", "edit", "upload"}
    PROVE  IsTree(t)
<1>1. c.key \in Paths
  BY DEF Good
<1>2. Permitted(c.op)
  BY DEF Results, Good
<1>3. CASE c.op = "rm"
  <2>1. t \in StorageRm(c.key)
    BY <1>2, <1>3 DEF Results
  <2> QED
    BY <1>1, <2>1, RmTree
<1>4. CASE c.op = "mkdir"
  <2>1. t \in StorageMkDir(c.key)
    BY <1>2, <1>4 DEF Results
  <2>2. t = MadeAll(c.key) /\ CanMakeAll(c.key)
    BY <2>1 DEF StorageMkDir
  <2> QED
    BY <1>1, <2>2, MadeTree
<1>5. CASE c.op = "rename"
  <2>1. t \in StorageRename(c.key, c.to) /\ c.to \in Paths \ {Root}
    BY <1>2, <1>5 DEF Results, Good
  <2> QED
    BY <1>1, <2>1, RenameTree
<1>6. CASE c.op = "edit"
  <2>1. t \in StorageEdit(c.key, c.text)
    BY <1>2, <1>6 DEF Results
  <2> QED
    BY <1>1, <2>1, EditTree
<1>7. CASE c.op = "upload"
  <2>1. t \in StorageUpload(c.key, c.text)
    BY <1>2, <1>7 DEF Results
  <2> QED
    BY <1>1, <2>1, UploadTree
<1> QED
  BY <1>3, <1>4, <1>5, <1>6, <1>7

\* Listing: the rows of a directory are in it.
LEMMA ListingIs ==
    ASSUME IsTree(tree), NEW d \in Paths
    PROVE  \A r \in Listing(d) : IsRow(r, d)
<1> SUFFICES ASSUME NEW r \in Listing(d) PROVE IsRow(r, d)
  OBVIOUS
<1>1. r.key \in DOMAIN tree /\ Len(r.key) = Len(d) + 1 /\ IsPrefix(d, r.key)
  BY DEF Listing
<1> QED
  BY <1>1, FrontOfRow DEF IsTree, IsRow

-----------------------------------------------------------------------------
(* The user.                                                                *)

\* Operate: the user's bounds hold.
LEMMA Operated ==
    ASSUME Types, NEW n \in Nat, OperateOn(n)
    PROVE  ops' \in 0..MaxOps /\ lost' = lost /\ flags' = flags /\ tree' = tree
<1>1. ops \in 0..MaxOps /\ lost \in 0..MaxLost /\ MaxOps \in Nat /\ MaxLost \in Nat
  BY BoundsAssumption DEF Types
<1>2. ops + lost + n <= MaxOps /\ ops' = ops + n /\ UNCHANGED <<tree, flags, lost>>
  BY DEF OperateOn
<1> QED
  BY <1>1, <1>2

\* Cancel: nothing is counted.
LEMMA Cancelled ==
    ASSUME Types, Cancel
    PROVE  ops' \in 0..MaxOps /\ lost' = lost /\ flags' = flags /\ tree' = tree
  BY DEF Cancel, Types, bounds

\* What the requests, the waits and the storage depend on.
LEMMA Stays ==
    /\ Requests /\ UNCHANGED <<calls, sent, flags>> => Requests'
    /\ Waits /\ UNCHANGED <<calls, loading, confirmLoading, dialog, lost>> => Waits'
    /\ Storage /\ UNCHANGED tree => Storage'
<1>1. Requests /\ UNCHANGED <<calls, sent, flags>> => Requests'
  BY GoodStays DEF Requests
<1>2. Waits /\ UNCHANGED <<calls, loading, confirmLoading, dialog, lost>> => Waits'
  BY DEF Waits
<1>3. Storage /\ UNCHANGED tree => Storage'
  BY DEF Storage, TreeIsClosed, IsDirectory
<1> QED
  BY <1>1, <1>2, <1>3

\* Select: what is selected is shown.
LEMMA SelectKeeps ==
    ASSUME IInv, NEW keys, Select(keys)
    PROVE  IInv'
<1>1. /\ keys \subseteq {r.key : r \in files} /\ selectedRowKeys' = keys
      /\ UNCHANGED <<nav, quiet, confirmLoading, modals, batch, uploads, calls, sent>>
      /\ OperateOn(1)
  BY DEF Select, Operate
<1>2. ops' \in 0..MaxOps /\ lost' = lost /\ flags' = flags /\ tree' = tree
  BY <1>1, Operated DEF IInv
<1>3. Types' /\ Screen' /\ Removes'
  BY <1>1, <1>2 DEF IInv, Types, Screen, Removes, IsRow, nav, quiet, modals, editor, batch
<1> QED
  BY <1>1, <1>2, <1>3, Stays DEF IInv, quiet, batch

\* The modals open and close, the editor is typed in: nothing is asked for.
LEMMA ModalsKeep ==
    ASSUME IInv, \/ ShowMkdir \/ CancelMkdir \/ CancelRename \/ HideEditor
                 \/ (\E r \in files : ShowRename(r)) \/ (\E text \in Texts : Type(text))
    PROVE  IInv'
<1>1. ASSUME ops' \in 0..MaxOps, lost' = lost, flags' = flags, tree' = tree,
             UNCHANGED <<nav, selectedRowKeys, quiet, confirmLoading, batch, uploads, calls, sent>>,
             currentFileKey' \in Paths,
             mkdirVisible' \in BOOLEAN, renameVisible' \in BOOLEAN, editorVisible' \in BOOLEAN,
             editorVisible' => currentFileKey' = openedFile' /\ openedFile' # Root
                               /\ "edit" \in flags,
             mkdirVisible' => "upload" \in flags,
             renameVisible' => "rename" \in flags
      PROVE  IInv'
  <2>1. Types' /\ Screen' /\ Removes'
    BY <1>1 DEF IInv, Types, Screen, Removes, IsRow, nav, quiet, batch
  <2> QED
    BY <1>1, <2>1, Stays DEF IInv, quiet, batch
<1>2. Types /\ Screen
  BY DEF IInv
<1>3. CASE ShowMkdir
  <2>1. ops' \in 0..MaxOps /\ lost' = lost /\ flags' = flags /\ tree' = tree
    BY <1>2, <1>3, Operated DEF ShowMkdir, Operate
  <2> QED
    BY <1>1, <1>2, <1>3, <2>1 DEF ShowMkdir, Types, Screen, modals, editor
<1>4. CASE CancelMkdir
  <2>1. ops' \in 0..MaxOps /\ lost' = lost /\ flags' = flags /\ tree' = tree
    BY <1>2, <1>4, Cancelled DEF CancelMkdir
  <2> QED
    BY <1>1, <1>2, <1>4, <2>1 DEF CancelMkdir, Types, Screen, modals, editor
<1>5. CASE CancelRename
  <2>1. ops' \in 0..MaxOps /\ lost' = lost /\ flags' = flags /\ tree' = tree
    BY <1>2, <1>5, Cancelled DEF CancelRename
  <2> QED
    BY <1>1, <1>2, <1>5, <2>1 DEF CancelRename, Types, Screen, modals, editor
<1>6. CASE HideEditor
  <2>1. ops' \in 0..MaxOps /\ lost' = lost /\ flags' = flags /\ tree' = tree
    BY <1>2, <1>6, Cancelled DEF HideEditor
  <2> QED
    BY <1>1, <1>2, <1>6, <2>1, ParentIs DEF HideEditor, EditorHidden, Types, Screen, modals
<1>7. ASSUME NEW r \in files, ShowRename(r) PROVE IInv'
  <2>1. ops' \in 0..MaxOps /\ lost' = lost /\ flags' = flags /\ tree' = tree
    BY <1>2, <1>7, Operated DEF ShowRename, Operate
  <2>2. r.key \in Paths /\ ~editorVisible /\ ~mkdirVisible
    BY <1>2, <1>7 DEF Screen, IsRow, ShowRename, OnRows, Unmasked
  <2> QED
    BY <1>1, <1>2, <1>7, <2>1, <2>2 DEF ShowRename, Types, Screen
<1>8. ASSUME NEW text \in Texts, Type(text) PROVE IInv'
  <2>1. ops' \in 0..MaxOps /\ lost' = lost /\ flags' = flags /\ tree' = tree
    BY <1>2, <1>8, Operated DEF Type, Operate
  <2> QED
    BY <1>1, <1>2, <1>8, <2>1 DEF Type, Types, Screen
<1> QED
  BY <1>3, <1>4, <1>5, <1>6, <1>7, <1>8

\* AskDelete, CancelDelete: the dialog holds rows, and removes none yet.
LEMMA DialogKeeps ==
    ASSUME IInv, AskDelete \/ CancelDelete
    PROVE  IInv'
<1>1. /\ UNCHANGED <<nav, selectedRowKeys, quiet, confirmLoading, modals, agreed, requested,
                     uploads, calls, sent>>
      /\ ops' \in 0..MaxOps /\ lost' = lost /\ flags' = flags /\ tree' = tree
      /\ rowKeys' \subseteq Paths
      /\ dialog # "running" /\ dialog' \in {"closed", "open"}
      /\ dialog' = "open" => "delete" \in flags
  <2>1. CASE AskDelete
    <3>1. ops' \in 0..MaxOps /\ lost' = lost /\ flags' = flags /\ tree' = tree
      BY <2>1, Operated DEF AskDelete, Operate, IInv
    <3>2. selectedRowKeys \subseteq Paths
      BY DEF IInv, Screen, IsRow
    <3> QED
      BY <2>1, <3>1, <3>2 DEF AskDelete, HasSelected, Unmasked
  <2>2. CASE CancelDelete
    <3>1. ops' \in 0..MaxOps /\ lost' = lost /\ flags' = flags /\ tree' = tree
      BY <2>2, Cancelled DEF CancelDelete, IInv
    <3> QED
      BY <2>2, <3>1 DEF CancelDelete
  <2> QED
    BY <2>1, <2>2
<1>2. Types' /\ Screen' /\ Removes'
  BY <1>1 DEF IInv, Types, Screen, Removes, IsRow, nav, quiet, modals, editor
<1>3. Waits'
  BY <1>1 DEF IInv, Waits, quiet
<1> QED
  BY <1>1, <1>2, <1>3, Stays DEF IInv

\* loadFiles: the rows load while a list is under way.
LEMMA LoadKeeps ==
    ASSUME IInv, NEW d \in Paths, LoadFiles(d)
    PROVE  IInv'
<1>1. /\ Send({Ls(d)}) /\ loading' = TRUE
      /\ UNCHANGED <<nav, selectedRowKeys, confirmLoading, modals, batch, uploads>>
      /\ ops' \in 0..MaxOps /\ lost' = lost /\ flags' = flags /\ tree' = tree
  BY Operated DEF LoadFiles, Operate, Loading, IInv
<1>2. Good(Ls(d)) /\ Ls(d).op = "ls" /\ Ls(d).id = sent + 1
  BY LsIs
<1>3. Requests' /\ calls' = calls \cup {Ls(d)}
  BY <1>1, <1>2, SentIs DEF IInv
<1>4. /\ Single(calls') /\ HasLs(calls')
      /\ HasModal(calls') <=> HasModal(calls)
      /\ HasBatch(calls') <=> HasBatch(calls)
  BY <1>2, <1>3, Added DEF IInv, Waits, HasLs, Modal, InBatch
<1>5. Waits'
  BY <1>1, <1>4 DEF IInv, Waits, batch
<1>6. Types' /\ Screen' /\ Removes'
  BY <1>1 DEF IInv, Types, Screen, Removes, IsRow, nav, modals, editor, batch
<1> QED
  BY <1>1, <1>3, <1>5, <1>6, Stays DEF IInv

\* A row is opened, a path is typed, the button that refreshes is pressed.
LEMMA LoadsKeep ==
    ASSUME IInv, \/ \E d \in {Parent(currentDirectory)} \cup {r.key : r \in files} : OpenRow(d)
                 \/ \E d \in Typed : PressEnter(d)
                 \/ RefreshPressed
    PROVE  IInv'
<1>1. currentDirectory \in Paths /\ \A r \in files : r.key \in Paths
  BY DEF IInv, Types, Screen, IsRow
<1>2. Parent(currentDirectory) \in Paths /\ Typed \subseteq Paths
  BY <1>1, ParentIs, StartAssumption DEF Paths
<1>3. \E d \in Paths : LoadFiles(d)
  BY <1>1, <1>2 DEF OpenRow, PressEnter, RefreshPressed
<1> QED
  BY <1>3, LoadKeeps

\* With a request that a busy button waits for, where none was busy; with one
\* of the batch, where none was at work.
LEMMA AddedWait ==
    ASSUME NEW cs, Single(cs), NEW d
    PROVE  /\ ~HasModal(cs) /\ Modal(d) =>
                /\ Single(cs \cup {d}) /\ HasModal(cs \cup {d})
                /\ HasLs(cs) => HasLs(cs \cup {d})
                /\ HasBatch(cs \cup {d}) <=> HasBatch(cs)
           /\ ~HasBatch(cs) /\ InBatch(d) =>
                /\ Single(cs \cup {d}) /\ HasBatch(cs \cup {d})
                /\ HasLs(cs) => HasLs(cs \cup {d})
                /\ HasModal(cs \cup {d}) <=> HasModal(cs)
  BY DEF Single, HasLs, HasModal, HasBatch, Modal, InBatch

\* OK in a modal: its button waits for the answer.
LEMMA BusyKeeps ==
    ASSUME IInv, NEW d, Good(d), Modal(d), d.id = sent + 1, Send({d}),
           ~confirmLoading, confirmLoading' = TRUE,
           UNCHANGED <<nav, selectedRowKeys, loading, modals, batch>>,
           ops' \in 0..MaxOps, lost' = lost, flags' = flags, tree' = tree
    PROVE  IInv'
<1>1. Requests' /\ calls' = calls \cup {d}
  BY SentIs DEF IInv
<1>2. ~HasModal(calls) /\ Single(calls)
  BY DEF IInv, Waits
<1>3. /\ Single(calls') /\ HasModal(calls') /\ (HasLs(calls) => HasLs(calls'))
      /\ HasBatch(calls') <=> HasBatch(calls)
  BY <1>1, <1>2, AddedWait
<1>4. Waits'
  BY <1>3 DEF IInv, Waits, batch
<1>5. Types' /\ Screen' /\ Removes'
  BY DEF IInv, Types, Screen, Removes, IsRow, nav, modals, editor, batch
<1> QED
  BY <1>1, <1>4, <1>5, Stays DEF IInv

\* Mkdir: the modal is open where an upload is permitted.
LEMMA MkdirKeeps ==
    ASSUME IInv, NEW name \in Names, Mkdir(name)
    PROVE  IInv'
<1> DEFINE newName == Append(currentDirectory, name)
           d == Call(sent + 1, "mkdir", newName)
<1>1. /\ Send({d}) /\ ~confirmLoading /\ confirmLoading' = TRUE /\ "upload" \in flags
      /\ UNCHANGED <<nav, selectedRowKeys, quiet, modals, batch>>
      /\ ops' \in 0..MaxOps /\ lost' = lost /\ flags' = flags /\ tree' = tree
  BY Cancelled DEF Mkdir, IInv, Screen
<1>2. newName \in Paths
  BY AppendIs DEF IInv, Types
<1> HIDE DEF newName
<1>3. IsCall(d) /\ d.op = "mkdir" /\ d.id = sent + 1 /\ d.rows = {} /\ d.key = newName
  BY CallIs
<1> HIDE DEF d
<1>4. Good(d) /\ Modal(d)
  BY <1>1, <1>2, <1>3 DEF Good, Modal, Permitted
<1> QED
  BY <1>1, <1>3, <1>4, BusyKeeps DEF quiet

\* Rename: the same name only closes the modal.
LEMMA RenameKeeps ==
    ASSUME IInv, NEW name \in Names, Rename(name)
    PROVE  IInv'
<1> DEFINE newName == Append(currentDirectory, name)
           old == Call(sent + 1, "rename", currentFileKey)
           d == OfTo(old, newName)
<1>1. ops' \in 0..MaxOps /\ lost' = lost /\ flags' = flags /\ tree' = tree
  BY Cancelled DEF Rename, IInv
<1>2. /\ renameVisible /\ ~confirmLoading
      /\ UNCHANGED <<nav, selectedRowKeys, quiet, mkdirVisible, editor, batch, uploads>>
  BY DEF Rename
<1>3. CASE renameVisible' = FALSE /\ UNCHANGED <<confirmLoading, calls, sent>>
  <2>1. Types' /\ Screen' /\ Removes'
    BY <1>1, <1>2, <1>3 DEF IInv, Types, Screen, Removes, IsRow, nav, quiet, editor, batch
  <2> QED
    BY <1>1, <1>2, <1>3, <2>1, Stays DEF IInv, quiet, batch
<1>4. CASE confirmLoading' = TRUE /\ Send({d}) /\ UNCHANGED renameVisible
  <2>1. newName \in Paths \ {Root} /\ currentFileKey \in Paths /\ "rename" \in flags
    BY <1>2, AppendIs DEF IInv, Types, Screen
  <2> HIDE DEF newName
  <2>2. /\ IsCall(old) /\ old.op = "rename" /\ old.id = sent + 1 /\ old.rows = {}
        /\ old.key = currentFileKey
    BY CallIs
  <2> HIDE DEF old
  <2>3. /\ IsCall(d) /\ d.op = "rename" /\ d.id = sent + 1 /\ d.rows = {}
        /\ d.key = currentFileKey /\ d.to = newName
    BY <2>2, OfToIs
  <2> HIDE DEF d
  <2>4. Good(d) /\ Modal(d)
    BY <2>3, <2>1 DEF Good, Modal, Permitted
  <2> QED
    BY <1>1, <1>2, <1>4, <2>3, <2>4, BusyKeeps DEF quiet, modals
<1> QED
  BY <1>3, <1>4 DEF Rename, OfTo

\* Edit: the editor is open where editing is permitted.
LEMMA EditKeeps ==
    ASSUME IInv, Edit
    PROVE  IInv'
<1> DEFINE old == Call(sent + 1, "edit", currentFileKey)
           d == OfText(old, fileContent)
<1>1. /\ Send({d}) /\ ~confirmLoading /\ confirmLoading' = TRUE /\ "edit" \in flags
      /\ UNCHANGED <<nav, selectedRowKeys, quiet, modals, batch>>
      /\ ops' \in 0..MaxOps /\ lost' = lost /\ flags' = flags /\ tree' = tree
  BY Cancelled DEF Edit, IInv, Screen, OfText
<1>2. /\ IsCall(old) /\ old.op = "edit" /\ old.id = sent + 1 /\ old.rows = {}
      /\ old.key = currentFileKey
  BY CallIs
<1> HIDE DEF old
<1>3. /\ IsCall(d) /\ d.op = "edit" /\ d.id = sent + 1 /\ d.rows = {} /\ d.key = currentFileKey
  BY <1>2, OfTextIs
<1> HIDE DEF d
<1>4. Good(d) /\ Modal(d)
  BY <1>1, <1>3 DEF Good, Modal, Permitted, IInv, Types
<1> QED
  BY <1>1, <1>3, <1>4, BusyKeeps DEF quiet

\* ShowEditor, DeleteRow: a request nothing waits for.
LEMMA RowKeeps ==
    ASSUME IInv, NEW r \in files, ShowEditor(r) \/ DeleteRow(r)
    PROVE  IInv'
<1>1. r.key \in Paths \ {Root}
  BY DEF IInv, Screen, IsRow
<1>2. ASSUME NEW d, Good(d), d.op \in {"download", "rm"}, d.batch = 0, d.id = sent + 1, Send({d}),
             UNCHANGED <<nav, selectedRowKeys, quiet, confirmLoading, modals, dialog, rowKeys>>,
             ops' \in 0..MaxOps, lost' = lost, flags' = flags, tree' = tree, Removes'
      PROVE  IInv'
  <2>1. Requests' /\ calls' = calls \cup {d}
    BY <1>2, SentIs DEF IInv
  <2>2. /\ Single(calls') /\ (HasLs(calls) => HasLs(calls'))
        /\ HasModal(calls') <=> HasModal(calls)
        /\ HasBatch(calls') <=> HasBatch(calls)
    <3>1. ~Modal(d) /\ ~InBatch(d) /\ Single(calls)
      BY <1>2 DEF IInv, Waits, Modal, InBatch
    <3> QED
      BY <2>1, <3>1, Added
  <2>3. Waits'
    BY <1>2, <2>2 DEF IInv, Waits, quiet
  <2>4. Types' /\ Screen'
    BY <1>2 DEF IInv, Types, Screen, IsRow, nav, quiet, modals, editor
  <2> QED
    BY <1>2, <2>1, <2>3, <2>4, Stays DEF IInv
<1>3. CASE ShowEditor(r)
  <2> DEFINE d == Call(sent + 1, "download", r.key)
  <2>1. /\ Send({d}) /\ "edit" \in flags
        /\ UNCHANGED <<nav, selectedRowKeys, quiet, confirmLoading, modals, batch>>
        /\ ops' \in 0..MaxOps /\ lost' = lost /\ flags' = flags /\ tree' = tree
    BY <1>3, Operated DEF ShowEditor, Operate, IInv
  <2>2. /\ IsCall(d) /\ d.op = "download" /\ d.id = sent + 1 /\ d.rows = {} /\ d.key = r.key
        /\ d.batch = 0
    BY CallIs
  <2> HIDE DEF d
  <2>3. Good(d)
    BY <1>1, <2>1, <2>2 DEF Good, Permitted
  <2>4. Removes'
    BY <2>1 DEF IInv, Removes, batch
  <2> QED
    BY <1>2, <2>1, <2>2, <2>3, <2>4 DEF batch
<1>4. CASE DeleteRow(r)
  <2>1. /\ Send({Rm(r.key)}) /\ "delete" \in flags /\ dialog = "closed"
        /\ agreed' = agreed \cup {r.key} /\ requested' = requested \cup {r.key}
        /\ UNCHANGED <<nav, selectedRowKeys, quiet, confirmLoading, modals, dialog, rowKeys>>
        /\ ops' \in 0..MaxOps /\ lost' = lost /\ flags' = flags /\ tree' = tree
    BY <1>4, Operated DEF DeleteRow, Operate, OnRows, Unmasked, IInv
  <2>2. /\ Good(Rm(r.key)) /\ Rm(r.key).op = "rm" /\ Rm(r.key).batch = 0
        /\ Rm(r.key).id = sent + 1
    BY <1>1, <2>1, RmIs
  <2>3. Removes'
    BY <2>1 DEF IInv, Removes
  <2> QED
    BY <1>2, <2>1, <2>2, <2>3
<1> QED
  BY <1>3, <1>4

\* ConfirmDelete: the first of the rows of the dialog.
LEMMA ConfirmKeeps ==
    ASSUME IInv, ConfirmDelete
    PROVE  IInv'
<1>1. /\ dialog = "open" /\ dialog' = "running" /\ agreed' = agreed \cup rowKeys
      /\ UNCHANGED <<nav, selectedRowKeys, quiet, confirmLoading, modals, uploads>>
      /\ ops' \in 0..MaxOps /\ lost' = lost /\ flags' = flags /\ tree' = tree
  BY Cancelled DEF ConfirmDelete, IInv
<1>2. PICK k \in rowKeys : /\ rowKeys' = rowKeys \ {k} /\ requested' = requested \cup {k}
                           /\ Send({[Rm(k) EXCEPT !.batch = 1]})
  BY DEF ConfirmDelete, Remaining
<1> DEFINE d == [Rm(k) EXCEPT !.batch = 1]
<1>3. k \in Paths /\ "delete" \in flags
  BY <1>1 DEF IInv, Types, Screen
<1>4. Good(d) /\ InBatch(d) /\ d.id = sent + 1 /\ Send({d})
  BY <1>2, <1>3, RmIs
<1> HIDE DEF d
<1>5. Requests' /\ calls' = calls \cup {d}
  BY <1>1, <1>4, SentIs DEF IInv
<1>6. ~HasBatch(calls) /\ Single(calls)
  BY <1>1 DEF IInv, Waits
<1>7. /\ Single(calls') /\ HasBatch(calls') /\ (HasLs(calls) => HasLs(calls'))
      /\ HasModal(calls') <=> HasModal(calls)
  BY <1>4, <1>5, <1>6, AddedWait
<1>8. Waits'
  BY <1>1, <1>7 DEF IInv, Waits, quiet
<1>9. Types' /\ Screen' /\ Removes'
  BY <1>1, <1>2, <1>3
     DEF IInv, Types, Screen, Removes, IsRow, nav, quiet, modals, editor
<1> QED
  BY <1>1, <1>5, <1>8, <1>9, Stays DEF IInv

\* SetToSeq: every name once.
LEMMA OrderIs ==
    ASSUME NEW S, IsFiniteSet(S)
    PROVE  /\ Cardinality(S) \in Nat
           /\ SetToSeq(S) \in [1..Cardinality(S) -> S]
           /\ Len(SetToSeq(S)) = Cardinality(S)
<1> DEFINE n == Cardinality(S)
<1>1. n \in Nat /\ ExistsBijection(1..n, S)
  BY FS_CardinalityType
<1> HIDE DEF n
<1>2. \E f \in [1..n -> S] : IsInjective(f)
  BY <1>1 DEF ExistsBijection, Bijection, Injection
<1>3. SetToSeq(S) \in [1..n -> S]
  BY <1>2 DEF SetToSeq, n
<1>4. Len(SetToSeq(S)) = n
  BY <1>1, <1>3, SeqDef, LenProperties
<1> QED
  BY <1>1, <1>3, <1>4 DEF n

\* UploadFiles: as many requests as files, with numbers of their own.
LEMMA PartsAre ==
    ASSUME NEW n \in Nat, NEW f, DOMAIN f = 1..n, f = [i \in DOMAIN f |-> f[i]],
           NEW m \in Nat, \A i \in 1..n : f[i].id = m + i
    PROVE  Cardinality({f[i] : i \in 1..n}) = n
<1> DEFINE S == {f[i] : i \in 1..n}
<1>1. f \in [1..n -> S] /\ \A x \in S : \E i \in 1..n : f[i] = x
  OBVIOUS
<1>2. ASSUME NEW i \in 1..n, NEW j \in 1..n, f[i] = f[j] PROVE i = j
  <2>1. m + i = m + j
    BY <1>2
  <2> QED
    BY <2>1
<1> HIDE DEF S
<1>3. f \in Bijection(1..n, S)
  BY <1>1, <1>2 DEF Bijection, Injection, Surjection, IsInjective
<1>4. Cardinality(S) = n
  BY <1>3, FS_CountingElements DEF ExistsBijection
<1> QED
  BY <1>4 DEF S

\* UploadFiles, UploadDir: the requests of a batch.
LEMMA UploadsAre ==
    ASSUME IInv, NEW u \in Chosen, UploadFiles(u.names, u.sub)
    PROVE  \E n \in Nat, more \in SUBSET calls' :
             /\ OperateOn(n) /\ calls' = calls \cup more /\ sent' = sent + n
             /\ \A d \in more :
                  /\ Good(d) /\ d.id \in (sent + 1)..(sent + n)
                  /\ d.op = "upload" /\ d.state = "sent" /\ d.batch = Len(uploads) + 1
<1> DEFINE order == SetToSeq(u.names)
           n == Len(order)
           file(i) == currentDirectory \o u.sub \o <<order[i]>>
           plain(i) == Call(sent + i, "upload", file(i))
           P(i) == OfUpload(plain(i), "new", Len(uploads) + 1)
           more == {P(i) : i \in 1..n}
<1>1. /\ u.sub \in Paths /\ u.names \subseteq Names /\ IsFiniteSet(u.names)
      /\ currentDirectory \in Paths /\ sent \in Nat
  BY StartAssumption DEF IInv, Types, Requests, Paths
<1>2. n \in Nat /\ \A i \in 1..n : order[i] \in Names
  BY <1>1, OrderIs
<1>3. /\ OperateOn(n) /\ "upload" \in flags /\ Send(more)
      /\ UNCHANGED <<nav, selectedRowKeys, quiet, confirmLoading, modals, batch>>
  BY DEF UploadFiles, OfUpload
<1>4. ops' \in 0..MaxOps /\ lost' = lost /\ flags' = flags /\ tree' = tree
  BY <1>2, <1>3, Operated DEF IInv
<1>5. \A i \in 1..n : file(i) \in Paths
  <2> SUFFICES ASSUME NEW i \in 1..n PROVE file(i) \in Paths
    OBVIOUS
  <2> DEFINE name == order[i]
  <2>1. name \in Names
    BY <1>2
  <2> HIDE DEF name
  <2>2. <<name>> \in Paths
    BY <2>1 DEF Paths
  <2>3. currentDirectory \o u.sub \in Paths
    BY <1>1, ConcatProperties DEF Paths
  <2>4. (currentDirectory \o u.sub) \o <<name>> \in Paths
    BY <2>2, <2>3, ConcatProperties DEF Paths
  <2> QED
    BY <2>4 DEF name
<1> HIDE DEF file, n
<1>6. ASSUME NEW i \in 1..n
      PROVE  /\ Good(P(i)) /\ P(i).id = sent + i
             /\ P(i).op = "upload" /\ P(i).state = "sent" /\ P(i).batch = Len(uploads) + 1
  <2> DEFINE a == plain(i)
             d == P(i)
  <2>1. /\ IsCall(a) /\ a.op = "upload" /\ a.id = sent + i /\ a.rows = {} /\ a.key = file(i)
        /\ a.state = "sent"
    BY CallIs
  <2>2. d = OfUpload(a, "new", Len(uploads) + 1)
    OBVIOUS
  <2> HIDE DEF a, d, plain, P
  <2>3. /\ IsCall(d) /\ d.op = "upload" /\ d.id = sent + i /\ d.rows = {} /\ d.key = file(i)
        /\ d.state = "sent" /\ d.batch = Len(uploads) + 1
    BY <2>1, <2>2, OfUploadIs
  <2>4. Good(d)
    BY <1>3, <1>5, <2>3 DEF Good, Permitted
  <2> QED
    BY <2>3, <2>4 DEF d
<1> HIDE DEF P, plain
<1>7. Cardinality(more) = n
  <2> DEFINE f == [i \in 1..n |-> P(i)]
  <2>1. DOMAIN f = 1..n /\ f = [i \in DOMAIN f |-> f[i]] /\ \A i \in 1..n : f[i] = P(i)
    OBVIOUS
  <2> HIDE DEF f
  <2>2. \A i \in 1..n : f[i].id = sent + i
    BY <1>6, <2>1
  <2>3. Cardinality({f[i] : i \in 1..n}) = n
    BY <1>1, <1>2, <2>1, <2>2, PartsAre
  <2>4. {f[i] : i \in 1..n} = more
    BY <2>1
  <2> QED
    BY <2>3, <2>4
<1>8. calls' = calls \cup more /\ sent' = sent + n
  BY <1>3, <1>7 DEF Send
<1>9. \A d \in more :
        /\ Good(d) /\ d.id \in (sent + 1)..(sent + n)
        /\ d.op = "upload" /\ d.state = "sent" /\ d.batch = Len(uploads) + 1
  BY <1>1, <1>2, <1>6
<1> QED
  BY <1>2, <1>3, <1>8, <1>9

\* They are ones that nothing waits for.
LEMMA UploadsKeep ==
    ASSUME IInv, NEW u \in Chosen, UploadFiles(u.names, u.sub)
    PROVE  IInv'
<1>1. PICK n \in Nat, more \in SUBSET calls' :
        /\ OperateOn(n) /\ calls' = calls \cup more /\ sent' = sent + n
        /\ \A d \in more :
             /\ Good(d) /\ d.id \in (sent + 1)..(sent + n)
             /\ d.op = "upload" /\ d.state = "sent" /\ d.batch = Len(uploads) + 1
  BY UploadsAre
<1>2. UNCHANGED <<nav, selectedRowKeys, quiet, confirmLoading, modals, batch>>
  BY DEF UploadFiles
<1>3. ops' \in 0..MaxOps /\ lost' = lost /\ flags' = flags /\ tree' = tree
  BY <1>1, Operated DEF IInv
<1>4. Requests'
  <2>1. sent \in Nat /\ sent' \in Nat
    BY <1>1 DEF IInv, Requests
  <2>2. \A d \in more : Good(d) /\ d.id \in 1..sent'
    BY <1>1, <2>1
  <2>3. \A d \in calls : Good(d) /\ d.id \in 1..sent'
    BY <1>1, <2>1 DEF IInv, Requests
  <2>4. \A d \in calls' : Good(d) /\ d.id \in 1..sent'
    BY <1>1, <2>2, <2>3
  <2> QED
    BY <1>3, <2>1, <2>4, GoodStays DEF Requests
<1>5. \A d \in more : ~Modal(d) /\ ~InBatch(d)
  BY <1>1 DEF Modal, InBatch
<1>6. /\ Single(calls') /\ (HasLs(calls) => HasLs(calls'))
      /\ HasModal(calls') <=> HasModal(calls)
      /\ HasBatch(calls') <=> HasBatch(calls)
  BY <1>1, <1>5, Added DEF IInv, Waits
<1>7. Waits'
  BY <1>2, <1>3, <1>6 DEF IInv, Waits, quiet, batch
<1>8. Types' /\ Screen' /\ Removes'
  BY <1>2, <1>3 DEF IInv, Types, Screen, Removes, IsRow, nav, quiet, modals, editor, batch
<1> QED
  BY <1>3, <1>4, <1>7, <1>8, Stays DEF IInv

\* The user's steps.
LEMMA UserKeeps ==
    ASSUME IInv, User
    PROVE  IInv'
<1>1. \/ (\E d \in {Parent(currentDirectory)} \cup {r.key : r \in files} : OpenRow(d))
         \/ (\E d \in Typed : PressEnter(d)) \/ RefreshPressed
      \/ \E keys \in SUBSET {r.key : r \in files} : Select(keys)
      \/ ShowMkdir \/ CancelMkdir \/ CancelRename \/ HideEditor
         \/ (\E r \in files : ShowRename(r)) \/ (\E text \in Texts : Type(text))
      \/ \E name \in Names : Mkdir(name)
      \/ \E name \in Names : Rename(name)
      \/ Edit
      \/ \E r \in files : ShowEditor(r) \/ DeleteRow(r)
      \/ AskDelete \/ CancelDelete
      \/ ConfirmDelete
      \/ \E u \in Chosen : UploadFiles(u.names, u.sub)
  BY DEF User
<1> QED
  BY <1>1, LoadsKeep, SelectKeeps, ModalsKeep, MkdirKeeps, RenameKeeps, EditKeeps, RowKeeps,
     DialogKeeps, ConfirmKeeps, UploadsKeep

-----------------------------------------------------------------------------
(* The server.                                                              *)

\* What only the client changes.
LEMMA ClientKeeps ==
    ASSUME IInv, UNCHANGED Client
    PROVE  /\ Types' /\ Screen' /\ Removes'
           /\ UNCHANGED <<flags, sent, loading, confirmLoading, dialog, lost>>
<1>1. Types' /\ Screen'
  BY DEF IInv, Client, Types, Screen, IsRow, nav, modals, editor, batch, bounds
<1>2. Removes' /\ UNCHANGED <<flags, sent, loading, confirmLoading, dialog, lost>>
  BY DEF IInv, Client, Removes, batch, bounds
<1> QED
  BY <1>1, <1>2

\* A request goes on at the server: what waits for it still does.
LEMMA ReplacedKeeps ==
    ASSUME IInv, UNCHANGED Client, NEW c \in calls, NEW d,
           IsCall(d), d.id = c.id, d.op = c.op, d.key = c.key, d.to = c.to, d.batch = c.batch,
           \A r \in d.rows : IsRow(r, c.key),
           calls' = (calls \ {c}) \cup {d}
    PROVE  Requests' /\ Waits'
<1>1. UNCHANGED <<flags, sent, loading, confirmLoading, dialog, lost>>
  BY ClientKeeps
<1>2. Good(c) /\ c.id \in 1..sent
  BY DEF IInv, Requests
<1>3. Good(d) /\ d.id \in 1..sent
  BY <1>2 DEF Good
<1>4. \A e \in calls' : Good(e) /\ e.id \in 1..sent'
  BY <1>1, <1>3 DEF IInv, Requests
<1>5. Requests'
  BY <1>1, <1>4, GoodStays DEF IInv, Requests
<1>6. /\ Single(calls')
      /\ HasLs(calls') <=> HasLs(calls)
      /\ HasModal(calls') <=> HasModal(calls)
      /\ HasBatch(calls') <=> HasBatch(calls)
  BY Swapped DEF IInv, Waits
<1>7. Waits'
  BY <1>1, <1>6 DEF IInv, Waits
<1> QED
  BY <1>5, <1>7

\* Answered: a request is done, with rows of the directory it asked for.
LEMMA AnsweredKeeps ==
    ASSUME IInv, UNCHANGED Client, NEW c \in calls, NEW good, NEW rows, NEW text,
           \A r \in rows : IsRow(r, c.key), Answered(c, good, rows, text)
    PROVE  Requests' /\ Waits'
<1> DEFINE d == OfAnswer(c, good, rows, text)
<1>1. calls' = (calls \ {c}) \cup {d}
  BY DEF Answered, OfAnswer
<1>2. IsCall(c)
  BY DEF IInv, Requests, Good
<1>3. /\ IsCall(d) /\ d.id = c.id /\ d.op = c.op /\ d.key = c.key /\ d.to = c.to
      /\ d.batch = c.batch /\ d.rows = rows
  BY <1>2, OfAnswerIs
<1> HIDE DEF d
<1> QED
  BY <1>1, <1>3, ReplacedKeeps

\* The server's steps.
LEMMA ServerKeeps ==
    ASSUME IInv, NEW c \in calls, Server(c)
    PROVE  IInv'
<1>1. Good(c) /\ IsTree(tree)
  BY StorageIs DEF IInv, Requests
<1>2. CASE ServeLs(c)
  <2> DEFINE rows == IF IsDirectory(c.key) THEN Listing(c.key) ELSE {}
  <2>1. \A r \in rows : IsRow(r, c.key)
    BY <1>1, ListingIs DEF Good
  <2>2. /\ Answered(c, IsDirectory(c.key), rows, "") /\ UNCHANGED Client /\ UNCHANGED tree
    BY <1>2 DEF ServeLs
  <2> HIDE DEF rows
  <2>3. Requests' /\ Waits'
    BY <2>1, <2>2, AnsweredKeeps
  <2> QED
    BY <2>2, <2>3, ClientKeeps, Stays DEF IInv
<1>3. CASE ServeDownload(c)
  <2> DEFINE found == Permitted(c.op) /\ c.key \in DOMAIN tree /\ ~IsDirectory(c.key)
             text == IF found THEN tree[c.key] ELSE "[object Object]"
  <2>1. /\ UNCHANGED Client /\ UNCHANGED tree /\ c.op = "download"
        /\ Answered(c, found, {}, text) \/ calls' = calls \ {c}
    BY <1>3 DEF ServeDownload
  <2> HIDE DEF found, text
  <2>2. CASE Answered(c, found, {}, text)
    <3>1. Requests' /\ Waits'
      BY <2>1, <2>2, AnsweredKeeps
    <3> QED
      BY <2>1, <3>1, ClientKeeps, Stays DEF IInv
  <2>3. CASE calls' = calls \ {c}
    <3>1. Requests'
      <4>1. \A d \in calls' : Good(d) /\ d.id \in 1..sent'
        BY <2>1, <2>3 DEF IInv, Requests, Client
      <4> QED
        BY <2>1, <2>3, <4>1, GoodStays DEF IInv, Requests, Client
    <3>2. /\ Single(calls')
          /\ HasLs(calls') <=> HasLs(calls)
          /\ HasModal(calls') <=> HasModal(calls)
          /\ HasBatch(calls') <=> HasBatch(calls)
      BY <2>1, <2>3, Removed DEF IInv, Waits, Modal, InBatch
    <3>3. Waits'
      BY <2>1, <3>2 DEF IInv, Waits, Client, batch, bounds
    <3> QED
      BY <2>1, <3>1, <3>3, ClientKeeps, Stays DEF IInv
  <2> QED
    BY <2>1, <2>2, <2>3
<1>4. CASE CheckLimit(c)
  <2> DEFINE d == OfState(c, "checked")
  <2>1. /\ UNCHANGED Client /\ UNCHANGED tree
        /\ (\E good : Answered(c, good, {}, "")) \/ calls' = (calls \ {c}) \cup {d}
    BY <1>4 DEF CheckLimit, OfState
  <2>2. /\ IsCall(d) /\ d.id = c.id /\ d.op = c.op /\ d.key = c.key /\ d.to = c.to
        /\ d.batch = c.batch /\ d.rows = c.rows
    BY <1>1, OfStateIs DEF Good
  <2> HIDE DEF d
  <2>3. \A r \in d.rows : IsRow(r, c.key)
    BY <1>1, <2>2 DEF Good
  <2>4. CASE \E good : Answered(c, good, {}, "")
    <3>1. Requests' /\ Waits'
      <4>1. PICK good : Answered(c, good, {}, "")
        BY <2>4
      <4> DEFINE none == {}
      <4>2. (\A r \in none : IsRow(r, c.key)) /\ Answered(c, good, none, "")
        BY <4>1
      <4> HIDE DEF none
      <4> QED
        BY <2>1, <4>2, AnsweredKeeps
    <3> QED
      BY <2>1, <3>1, ClientKeeps, Stays DEF IInv
  <2>5. CASE calls' = (calls \ {c}) \cup {d}
    <3>1. Requests' /\ Waits'
      BY <2>1, <2>2, <2>3, <2>5, ReplacedKeeps
    <3> QED
      BY <2>1, <3>1, ClientKeeps, Stays DEF IInv
  <2> QED
    BY <2>1, <2>4, <2>5
<1>5. CASE Serve(c)
  <2>1. /\ UNCHANGED Client /\ c.op \in {"rm", "mkdir", "rename", "edit", "upload"}
        /\ tree' \in Results(c) \/ tree' = tree
        /\ \E good : Answered(c, good, {}, "")
    BY <1>5 DEF Serve
  <2>2. IsTree(tree')
    BY <1>1, <2>1, ResultsAre
  <2>3. Storage'
    BY <2>2 DEF Storage, TreeIsClosed, IsDirectory, IsTree
  <2>4. Requests' /\ Waits'
    <3>1. PICK good : Answered(c, good, {}, "")
      BY <2>1
    <3> DEFINE none == {}
    <3>2. (\A r \in none : IsRow(r, c.key)) /\ Answered(c, good, none, "")
      BY <3>1
    <3> HIDE DEF none
    <3> QED
      BY <2>1, <3>2, AnsweredKeeps
  <2> QED
    BY <2>1, <2>3, <2>4, ClientKeeps DEF IInv
<1> QED
  BY <1>2, <1>3, <1>4, <1>5 DEF Server

-----------------------------------------------------------------------------
(* The answers.                                                             *)

\* Without the request that was answered, and perhaps with a list of the shown
\* directory: only the buttons that waited for it are free.
LEMMA RefreshKeeps ==
    ASSUME IInv, NEW c \in calls, Refresh(c) \/ NoRefresh(c), flags' = flags, c.op # "ls"
    PROVE  /\ Requests' /\ Single(calls')
           /\ loading' \in BOOLEAN
           /\ loading' => loading \/ HasLs(calls')
           /\ HasLs(calls) => HasLs(calls')
           /\ HasModal(calls') <=> HasModal(calls) /\ ~Modal(c)
           /\ HasBatch(calls') <=> HasBatch(calls) /\ ~InBatch(c)
<1> DEFINE rest == calls \ {c}
<1>1. /\ Single(rest) /\ (HasLs(rest) <=> HasLs(calls))
      /\ HasModal(rest) <=> HasModal(calls) /\ ~Modal(c)
      /\ HasBatch(rest) <=> HasBatch(calls) /\ ~InBatch(c)
  BY Removed DEF IInv, Waits
<1>2. CASE Refresh(c)
  <2> DEFINE d == Ls(currentDirectory)
  <2>1. GoOn(c, {d}) /\ loading' = TRUE
    BY <1>2 DEF Refresh, Loading
  <2>2. Good(d) /\ d.op = "ls" /\ d.id = sent + 1
    BY LsIs DEF IInv, Types
  <2> HIDE DEF d
  <2>3. Requests' /\ calls' = rest \cup {d}
    BY <2>1, <2>2, WentOn DEF IInv
  <2>4. ~Modal(d) /\ ~InBatch(d)
    BY <2>2 DEF Modal, InBatch
  <2>5. HasLs(calls')
    BY <2>2, <2>3 DEF HasLs
  <2> HIDE DEF rest
  <2>6. /\ Single(calls')
        /\ HasModal(calls') <=> HasModal(rest)
        /\ HasBatch(calls') <=> HasBatch(rest)
    BY <1>1, <2>3, <2>4, Added
  <2> QED
    BY <1>1, <2>1, <2>3, <2>5, <2>6
<1>3. CASE NoRefresh(c)
  <2>1. GoOn(c, {}) /\ loading' = loading
    BY <1>3 DEF NoRefresh, NotLoading
  <2>2. Requests' /\ calls' = rest
    BY <2>1, WentOn DEF IInv
  <2> HIDE DEF rest
  <2>3. loading \in BOOLEAN
    BY DEF IInv, Types
  <2> QED
    BY <1>1, <2>1, <2>2, <2>3
<1> QED
  BY <1>2, <1>3

\* LsAnswer: the rows and the directory come together.
LEMMA LsAnswerKeeps ==
    ASSUME IInv, NEW c \in calls, LsAnswer(c)
    PROVE  IInv'
<1>1. /\ c.op = "ls" /\ loading' = FALSE /\ selectedRowKeys' = {} /\ GoOn(c, {})
      /\ UNCHANGED <<tree, flags, bounds, confirmLoading, modals, batch>>
  BY DEF LsAnswer, Handle
<1>2. \/ files' = c.rows /\ currentDirectory' = c.key
      \/ UNCHANGED nav
  BY DEF LsAnswer
<1>3. c.key \in Paths /\ \A r \in c.rows : IsRow(r, c.key)
  BY DEF IInv, Requests, Good
<1>4. Requests' /\ calls' = calls \ {c}
  BY <1>1, WentOn DEF IInv
<1>5. /\ Single(calls')
      /\ HasModal(calls') <=> HasModal(calls)
      /\ HasBatch(calls') <=> HasBatch(calls)
  <2>1. ~Modal(c) /\ ~InBatch(c)
    BY <1>1 DEF Modal, InBatch
  <2> QED
    BY <1>4, <2>1, Removed DEF IInv, Waits
<1>6. Waits'
  BY <1>1, <1>5 DEF IInv, Waits, batch, bounds
<1>7. currentDirectory' \in Paths /\ \A r \in files' : IsRow(r, currentDirectory')
  BY <1>2, <1>3 DEF IInv, Types, Screen, nav
<1>8. Types' /\ Screen' /\ Removes'
  BY <1>1, <1>7 DEF IInv, Types, Screen, Removes, IsRow, modals, editor, batch, bounds
<1> QED
  BY <1>1, <1>4, <1>6, <1>8, Stays DEF IInv

\* MkdirAnswer, RenameAnswer, EditAnswer: the button and the modal are free.
LEMMA ModalAnswerKeeps ==
    ASSUME IInv, NEW c \in calls, MkdirAnswer(c) \/ RenameAnswer(c) \/ EditAnswer(c)
    PROVE  IInv'
<1>1. /\ Modal(c) /\ confirmLoading' = FALSE
      /\ Refresh(c) \/ NoRefresh(c)
      /\ UNCHANGED <<tree, flags, bounds, nav, selectedRowKeys, batch>>
  BY DEF MkdirAnswer, RenameAnswer, EditAnswer, Handle, Modal
<1>2. /\ mkdirVisible' = FALSE \/ UNCHANGED mkdirVisible
      /\ renameVisible' = FALSE \/ UNCHANGED renameVisible
      /\ \/ editorVisible' = FALSE /\ currentFileKey' = Root
         \/ UNCHANGED <<editorVisible, currentFileKey, openedFile>>
  BY DEF MkdirAnswer, RenameAnswer, EditAnswer, EditorHidden, editor
<1>3. c.op # "ls" /\ ~InBatch(c)
  BY <1>1 DEF Modal, InBatch
<1>4. /\ Requests' /\ Single(calls') /\ loading' \in BOOLEAN
      /\ loading' => loading \/ HasLs(calls')
      /\ HasLs(calls) => HasLs(calls')
      /\ HasModal(calls') <=> HasModal(calls) /\ ~Modal(c)
      /\ HasBatch(calls') <=> HasBatch(calls) /\ ~InBatch(c)
  BY <1>1, <1>3, RefreshKeeps
<1>5. ~HasModal(calls')
  BY <1>1, <1>4
<1>6. Waits'
  BY <1>1, <1>3, <1>4, <1>5 DEF IInv, Waits, batch, bounds
<1>7. Root \in Paths
  BY ParentIs DEF IInv, Types
<1>8. Types'
  BY <1>1, <1>2, <1>4, <1>7 DEF IInv, Types, nav, batch, bounds
<1>9. Screen'
  BY <1>1, <1>2 DEF IInv, Screen, IsRow, nav, batch
<1>10. Removes'
  BY <1>1 DEF IInv, Removes, batch
<1> QED
  BY <1>1, <1>4, <1>6, <1>8, <1>9, <1>10, Stays DEF IInv

\* DownloadAnswer: the editor opens on what was asked for.
LEMMA DownloadAnswerKeeps ==
    ASSUME IInv, NEW c \in calls, DownloadAnswer(c)
    PROVE  IInv'
<1>1. /\ c.op = "download" /\ NoRefresh(c)
      /\ currentFileKey' = c.key /\ editorVisible' = TRUE /\ openedFile' = c.key
      /\ UNCHANGED <<tree, flags, bounds, nav, selectedRowKeys, confirmLoading, mkdirVisible,
                     renameVisible, batch>>
  BY DEF DownloadAnswer, Handle
<1>2. c.key \in Paths \ {Root} /\ "edit" \in flags
  BY <1>1 DEF IInv, Requests, Good
<1>3. c.op # "ls" /\ ~Modal(c) /\ ~InBatch(c)
  BY <1>1 DEF Modal, InBatch
<1>4. /\ Requests' /\ Single(calls') /\ loading' \in BOOLEAN
      /\ loading' => loading \/ HasLs(calls')
      /\ HasLs(calls) => HasLs(calls')
      /\ HasModal(calls') <=> HasModal(calls) /\ ~Modal(c)
      /\ HasBatch(calls') <=> HasBatch(calls) /\ ~InBatch(c)
  BY <1>1, <1>3, RefreshKeeps
<1>5. Waits'
  BY <1>1, <1>3, <1>4 DEF IInv, Waits, batch, bounds
<1>6. Types' /\ Screen' /\ Removes'
  BY <1>1, <1>2, <1>4 DEF IInv, Types, Screen, Removes, IsRow, nav, batch, bounds
<1> QED
  BY <1>1, <1>4, <1>5, <1>6, Stays DEF IInv

\* RmAnswer, UploadAnswer: nothing waited.
LEMMA OtherAnswerKeeps ==
    ASSUME IInv, NEW c \in calls, RmAnswer(c) \/ UploadAnswer(c)
    PROVE  IInv'
<1>1. /\ (c.op = "rm" /\ c.batch = 0) \/ c.op = "upload"
      /\ Refresh(c) \/ NoRefresh(c)
      /\ UNCHANGED <<tree, flags, bounds, nav, selectedRowKeys, confirmLoading, modals, batch>>
  BY DEF RmAnswer, UploadAnswer, Handle
<1>2. c.op # "ls" /\ ~Modal(c) /\ ~InBatch(c)
  BY <1>1 DEF Modal, InBatch
<1>3. /\ Requests' /\ Single(calls') /\ loading' \in BOOLEAN
      /\ loading' => loading \/ HasLs(calls')
      /\ HasLs(calls) => HasLs(calls')
      /\ HasModal(calls') <=> HasModal(calls) /\ ~Modal(c)
      /\ HasBatch(calls') <=> HasBatch(calls) /\ ~InBatch(c)
  BY <1>1, <1>2, RefreshKeeps
<1>4. Waits'
  BY <1>1, <1>2, <1>3 DEF IInv, Waits, batch, bounds
<1>5. Types' /\ Screen' /\ Removes'
  BY <1>1, <1>3
     DEF IInv, Types, Screen, Removes, IsRow, nav, modals, editor, batch, bounds
<1> QED
  BY <1>1, <1>3, <1>4, <1>5, Stays DEF IInv

\* BatchRmAnswer: the next row, or the end of the loop.
LEMMA BatchRmAnswerKeeps ==
    ASSUME IInv, NEW c \in calls, BatchRmAnswer(c)
    PROVE  IInv'
<1>1. /\ c.op # "ls" /\ InBatch(c) /\ ~Modal(c)
      /\ UNCHANGED <<tree, flags, bounds, nav, selectedRowKeys, confirmLoading, modals, agreed>>
  BY DEF BatchRmAnswer, Handle, InBatch, Modal
<1>2. dialog = "running" /\ "delete" \in flags /\ agreed = requested \cup rowKeys
  <2>1. HasBatch(calls)
    BY <1>1 DEF HasBatch
  <2> QED
    BY <2>1 DEF IInv, Waits, Screen, Removes
<1>3. CASE \E k \in Remaining : /\ rowKeys' = Remaining \ {k} /\ requested' = requested \cup {k}
                                /\ GoOn(c, {[Rm(k) EXCEPT !.batch = 1]})
                                /\ NotLoading /\ UNCHANGED dialog
  <2>1. PICK k \in rowKeys : /\ rowKeys' = rowKeys \ {k} /\ requested' = requested \cup {k}
                             /\ GoOn(c, {[Rm(k) EXCEPT !.batch = 1]})
                             /\ loading' = loading /\ dialog' = dialog
    BY <1>3 DEF Remaining, NotLoading
  <2> DEFINE d == [Rm(k) EXCEPT !.batch = 1]
             rest == calls \ {c}
  <2>2. k \in Paths
    BY DEF IInv, Types
  <2>3. Good(d) /\ InBatch(d) /\ d.id = sent + 1 /\ GoOn(c, {d})
    BY <1>2, <2>1, <2>2, RmIs
  <2> HIDE DEF d
  <2>4. Requests' /\ calls' = rest \cup {d}
    BY <1>1, <2>3, WentOn DEF IInv
  <2>5. /\ Single(rest) /\ (HasLs(rest) <=> HasLs(calls)) /\ ~HasBatch(rest)
        /\ HasModal(rest) <=> HasModal(calls)
    BY <1>1, Removed DEF IInv, Waits
  <2> HIDE DEF rest
  <2>6. /\ Single(calls') /\ HasBatch(calls') /\ (HasLs(calls) => HasLs(calls'))
        /\ HasModal(calls') <=> HasModal(calls)
    BY <2>3, <2>4, <2>5, AddedWait
  <2>7. Waits'
    BY <1>1, <1>2, <2>1, <2>6 DEF IInv, Waits, bounds
  <2>8. Types' /\ Screen' /\ Removes'
    BY <1>1, <1>2, <2>1, <2>2
       DEF IInv, Types, Screen, Removes, IsRow, nav, modals, editor, bounds
  <2> QED
    BY <1>1, <2>4, <2>7, <2>8, Stays DEF IInv
<1>4. CASE /\ Remaining = {} /\ dialog' = "closed" /\ rowKeys' = {}
           /\ UNCHANGED requested /\ Refresh(c)
  <2>1. /\ Requests' /\ Single(calls') /\ loading' \in BOOLEAN
        /\ loading' => loading \/ HasLs(calls')
        /\ HasLs(calls) => HasLs(calls')
        /\ HasModal(calls') <=> HasModal(calls) /\ ~Modal(c)
        /\ HasBatch(calls') <=> HasBatch(calls) /\ ~InBatch(c)
    BY <1>1, <1>4, RefreshKeeps
  <2>2. Waits'
    BY <1>1, <1>4, <2>1 DEF IInv, Waits, bounds
  <2>3. Types' /\ Screen' /\ Removes'
    BY <1>1, <1>2, <1>4, <2>1
       DEF IInv, Types, Screen, Removes, IsRow, nav, modals, editor, bounds, Remaining
  <2> QED
    BY <1>1, <2>1, <2>2, <2>3, Stays DEF IInv
<1> QED
  BY <1>3, <1>4 DEF BatchRmAnswer

\* AbortUpload, Lose: a request is gone.
LEMMA GoneKeeps ==
    ASSUME IInv, NEW c \in calls, AbortUpload(c) \/ Lose(c)
    PROVE  IInv'
<1>1. /\ calls' = calls \ {c} /\ UNCHANGED sent
      /\ UNCHANGED <<tree, flags, nav, selectedRowKeys, quiet, confirmLoading, modals, batch>>
      /\ ops' \in 0..MaxOps /\ lost' \in 0..MaxLost
      /\ lost' # 0 \/ (lost' = lost /\ c.op = "upload")
  <2>1. MaxLost \in Nat /\ MaxOps \in Nat /\ lost \in 0..MaxLost /\ ops \in 0..MaxOps
    BY BoundsAssumption DEF IInv, Types
  <2>2. CASE AbortUpload(c)
    <3>1. ops' \in 0..MaxOps /\ lost' = lost /\ flags' = flags /\ tree' = tree
      BY <2>2, Operated DEF AbortUpload, Operate, IInv
    <3> QED
      BY <2>1, <2>2, <3>1 DEF AbortUpload
  <2>3. CASE Lose(c)
    BY <2>1, <2>3 DEF Lose
  <2> QED
    BY <2>2, <2>3
<1>2. Requests'
  <2>1. \A d \in calls' : Good(d) /\ d.id \in 1..sent'
    BY <1>1 DEF IInv, Requests
  <2> QED
    BY <1>1, <2>1, GoodStays DEF IInv, Requests
<1>3. /\ Single(calls')
      /\ c.op # "ls" => (HasLs(calls') <=> HasLs(calls))
      /\ HasModal(calls') <=> HasModal(calls) /\ ~Modal(c)
      /\ HasBatch(calls') <=> HasBatch(calls) /\ ~InBatch(c)
  BY <1>1, Removed DEF IInv, Waits
<1>4. c.op = "upload" => ~Modal(c) /\ ~InBatch(c)
  BY DEF Modal, InBatch
<1>5. Waits'
  BY <1>1, <1>3, <1>4 DEF IInv, Waits, quiet, batch
<1>6. Types' /\ Screen' /\ Removes'
  BY <1>1 DEF IInv, Types, Screen, Removes, IsRow, nav, quiet, modals, editor, batch
<1> QED
  BY <1>1, <1>2, <1>5, <1>6, Stays DEF IInv

-----------------------------------------------------------------------------
(* The specification.                                                       *)

\* Init: the panel starts with one list under way.
LEMMA InitKeeps == Init => IInv
<1> SUFFICES ASSUME Init PROVE IInv
  OBVIOUS
<1> DEFINE d == Call(1, "ls", Root)
<1>1. Root \in Paths
  BY EmptySeq DEF Paths, Root
<1>2. /\ IsCall(d) /\ d.op = "ls" /\ d.id = 1 /\ d.key = Root /\ d.batch = 0 /\ d.rows = {}
  BY CallIs
<1>3. calls = {d} /\ sent = 1
  BY DEF Init
<1> HIDE DEF d
<1>4. Good(d)
  BY <1>1, <1>2 DEF Good, Permitted
<1>5. Requests
  BY <1>2, <1>3, <1>4 DEF Requests
<1>6. Single(calls) /\ HasLs(calls) /\ ~HasModal(calls) /\ ~HasBatch(calls)
  BY <1>2, <1>3 DEF Single, HasLs, HasModal, HasBatch, Modal, InBatch
<1>7. Waits
  BY <1>6 DEF Init, Waits
<1>8. Types
  <2>1. flags \subseteq Operations /\ MaxOps \in Nat /\ MaxLost \in Nat
    BY BoundsAssumption, StartAssumption DEF Init
  <2>2. /\ currentDirectory = Root /\ rowKeys = {} /\ currentFileKey = Root
        /\ ops = 0 /\ lost = 0 /\ dialog = "closed"
    BY DEF Init
  <2>3. /\ loading \in BOOLEAN /\ confirmLoading \in BOOLEAN
        /\ mkdirVisible \in BOOLEAN /\ renameVisible \in BOOLEAN /\ editorVisible \in BOOLEAN
    BY DEF Init
  <2> QED
    BY <1>1, <2>1, <2>2, <2>3 DEF Types
<1>9. Screen /\ Removes
  BY DEF Init, Screen, Removes
<1>10. Storage
  BY StartAssumption DEF Init, Storage, TreeIsClosed, IsDirectory, Paths
<1> QED
  BY <1>5, <1>7, <1>8, <1>9, <1>10 DEF IInv

\* Every step, and a step that changes nothing, keeps the invariant.
LEMMA NextKeeps == IInv /\ [Next]_vars => IInv'
<1> SUFFICES ASSUME IInv, [Next]_vars PROVE IInv'
  OBVIOUS
<1>1. CASE UNCHANGED vars
  <2>1. Types' /\ Screen' /\ Removes'
    BY <1>1 DEF IInv, Types, Screen, Removes, IsRow, vars, nav, modals, editor, batch, bounds
  <2> QED
    BY <1>1, <2>1, Stays DEF IInv, vars, batch, bounds
<1>2. CASE User
  BY <1>2, UserKeeps
<1>3. ASSUME NEW c \in calls, Server(c) PROVE IInv'
  BY <1>3, ServerKeeps
<1>4. ASSUME NEW c \in calls, Answer(c) PROVE IInv'
  BY <1>4, LsAnswerKeeps, ModalAnswerKeeps, DownloadAnswerKeeps, OtherAnswerKeeps,
     BatchRmAnswerKeeps DEF Answer
<1>5. ASSUME NEW c \in calls, AbortUpload(c) \/ Lose(c) PROVE IInv'
  BY <1>5, GoneKeeps
<1> QED
  BY <1>1, <1>2, <1>3, <1>4, <1>5 DEF Next

\* For any tree, names, permissions and orders of answers: the rows on the
\* screen are of the directory on the screen and so is the selection, the
\* editor keeps the file it was filled from, nothing is asked for that will be
\* refused, what loads or is busy waits for a request, and every file of the
\* storage lies in directories of the storage.
THEOREM FilesAreSound == Spec => []FilesInv
<1>1. IInv => FilesInv
  BY IInvIs
<1> QED
  BY InitKeeps, NextKeeps, <1>1, PTL DEF Spec

\* However the selection changes while a batch goes out one by one, exactly the
\* rows that the user agreed to are removed.
THEOREM OnlyAgreedIsRemoved == Spec => []RemovesWhatWasAgreed
<1>1. IInv => RemovesWhatWasAgreed
  BY IInvIs
<1> QED
  BY InitKeeps, NextKeeps, <1>1, PTL DEF Spec
-----------------------------------------------------------------------------
(* What is seen at rest.                                                    *)

\* A request that was granted, whose handler will load the files.
Redo(c) == c.op \in {"rm", "mkdir", "rename", "upload"} /\ c.state = "done" /\ c.ok

Balanced == \A b \in 1..Len(uploads) : uploads[b].ended = uploads[b].size

Batches ==
    /\ uploads \in Seq([size : Nat, ended : Nat])
    /\ \A c \in calls : c.op = "upload" => c.batch \in 1..Len(uploads)

\* A change that was not seen, an edit aside, is going to be.
Unloaded ==
    lost = 0 /\ ~(unseen \subseteq {"edit"}) =>
        (\E c \in calls : Redo(c)) \/ dialog = "running" \/ ~Balanced

\* The answer of the last list, shown or on its way, is the directory, when
\* nothing has changed since that list was asked for.
Current ==
    /\ lastLs \in 0..sent /\ shownLs \in 0..sent
    /\ unseen = {} /\ shownLs = lastLs => files = Listing(currentDirectory)
    /\ \A c \in calls :
         c.op = "ls" /\ c.state = "done" /\ c.ok /\ c.id = lastLs /\ unseen = {} =>
             c.rows = Listing(c.key)

SeenInv == Batches /\ Unloaded /\ Current

\* At rest there is no request that could still show a change.
LEMMA SeenIs == IInv /\ SeenInv => QuietShowsTheTree
<1> SUFFICES ASSUME IInv, SeenInv, calls = {}, shownLs = lastLs, lost = 0, Balanced
             PROVE  unseen \subseteq {"edit"} /\ (unseen = {} => files = Listing(currentDirectory))
  BY DEF QuietShowsTheTree, Balanced
<1>1. dialog # "running"
  BY DEF IInv, Waits, HasBatch
<1> QED
  BY <1>1 DEF SeenInv, Unloaded, Current

\* Requests are made or given up, but none that is done, unless a batch goes on.
LEMMA SeenStays ==
    ASSUME SeenInv, sent \in Nat, sent' \in Nat, sent <= sent',
           UNCHANGED <<tree, nav, quiet, uploads, lost>>,
           \A d \in calls' : d \in calls \/ (d.state = "sent" /\ d.op # "upload"),
           dialog = "running" => dialog' = "running",
           dialog' = "running" \/ \A c \in calls : Redo(c) => c \in calls'
    PROVE  SeenInv'
<1>1. \A d : Listing(d)' = Listing(d)
  BY DEF Listing
<1>2. UNCHANGED <<currentDirectory, files, shownLs, lastLs, unseen>>
  BY DEF nav, quiet
<1>3. Batches'
  BY DEF SeenInv, Batches
<1>4. Unloaded'
  BY <1>2 DEF SeenInv, Unloaded, Balanced, Redo
<1>5. Current'
  BY <1>1, <1>2 DEF SeenInv, Current
<1> QED
  BY <1>3, <1>4, <1>5 DEF SeenInv

\* Loading: nothing is unseen then, and no answer is one to the new list.
LEMMA SeenLoads ==
    ASSUME IInv, SeenInv, Loading, sent' = sent + 1, Batches', UNCHANGED nav,
           \A d \in calls' : d \in calls \/ d.state = "sent"
    PROVE  SeenInv'
<1>1. sent \in Nat /\ lastLs' = sent + 1 /\ unseen' = {} /\ shownLs' = shownLs
  BY DEF IInv, Requests, Loading, nav
<1>2. \A c \in calls : c.id \in 1..sent
  BY DEF IInv, Requests
<1>3. shownLs' # lastLs' /\ shownLs' \in 0..sent' /\ lastLs' \in 0..sent'
  BY <1>1 DEF SeenInv, Current
<1>4. Unloaded'
  BY <1>1 DEF Unloaded
<1>5. ASSUME NEW c \in calls', c.state = "done", c.id = lastLs' PROVE FALSE
  BY <1>1, <1>2, <1>5
<1>6. Current'
  BY <1>3, <1>5 DEF Current
<1> QED
  BY <1>4, <1>6 DEF SeenInv

\* The requests of the user are sent, and no upload.
LEMMA SeenSent ==
    ASSUME SeenInv, Requests, NEW d, d.state = "sent", d.op # "upload", Send({d}),
           UNCHANGED <<tree, nav, quiet, uploads, lost>>,
           dialog = "running" => dialog' = "running"
    PROVE  SeenInv'
<1>1. calls' = calls \cup {d} /\ sent' = sent + 1 /\ sent \in Nat
  BY FS_Singleton DEF Send, Requests
<1> QED
  BY <1>1, SeenStays

\* Rm, Ls: a request as it is made.
LEMMA SentState ==
    ASSUME NEW k
    PROVE  /\ Ls(k).state = "sent" /\ Ls(k).op = "ls"
           /\ Rm(k).state = "sent" /\ Rm(k).op = "rm"
           /\ \A d : d = [Rm(k) EXCEPT !.batch = 1] => d.state = "sent" /\ d.op = "rm"
<1>1. IsCall(Rm(k)) /\ Rm(k).state = "sent" /\ Rm(k).op = "rm"
  BY CallIs DEF Rm
<1>2. ASSUME NEW d, d = [Rm(k) EXCEPT !.batch = 1] PROVE d.state = "sent" /\ d.op = "rm"
  <2>1. d = OfBatch(Rm(k), 1)
    BY <1>2 DEF OfBatch
  <2> QED
    BY <1>1, <2>1, OfBatchIs
<1>3. Ls(k).state = "sent" /\ Ls(k).op = "ls"
  BY CallIs DEF Ls
<1> QED
  BY <1>1, <1>2, <1>3

\* The user's steps, uploads aside.
LEMMA UserSeen ==
    ASSUME IInv, SeenInv, User, \A u \in Chosen : ~UploadFiles(u.names, u.sub)
    PROVE  SeenInv'
<1>1. sent \in Nat /\ Requests
  BY DEF IInv, Requests
<1>2. ASSUME NEW d, LoadFiles(d) PROVE SeenInv'
  <2>1. /\ calls' = calls \cup {Ls(d)} /\ sent' = sent + 1 /\ Loading
        /\ UNCHANGED <<nav, uploads>>
    BY <1>2, FS_Singleton DEF LoadFiles, Send
  <2>2. Ls(d).state = "sent" /\ Ls(d).op = "ls"
    BY SentState
  <2>3. Batches'
    BY <2>1, <2>2 DEF SeenInv, Batches
  <2> QED
    BY <2>1, <2>2, <2>3, SeenLoads
<1>3. CASE \/ \E d \in {Parent(currentDirectory)} \cup {r.key : r \in files} : OpenRow(d)
           \/ \E d \in Typed : PressEnter(d)
           \/ RefreshPressed
  BY <1>2, <1>3 DEF OpenRow, PressEnter, RefreshPressed
<1>4. CASE \/ \E keys \in SUBSET {r.key : r \in files} : Select(keys)
           \/ ShowMkdir \/ CancelMkdir \/ CancelRename \/ HideEditor
           \/ (\E r \in files : ShowRename(r)) \/ (\E text \in Texts : Type(text))
           \/ AskDelete \/ CancelDelete
  <2>1. /\ UNCHANGED <<tree, nav, quiet, uploads, lost, calls, sent>>
        /\ dialog = "running" => dialog' = "running"
    BY <1>4 DEF Select, ShowMkdir, CancelMkdir, CancelRename, HideEditor, ShowRename, Type,
                AskDelete, CancelDelete, Operate, OperateOn, Cancel, Unmasked, bounds, batch
  <2> QED
    BY <1>1, <2>1, SeenStays
<1>5. ASSUME NEW name \in Names, Mkdir(name) PROVE SeenInv'
  <2> DEFINE d == Call(sent + 1, "mkdir", Append(currentDirectory, name))
  <2>1. /\ UNCHANGED <<tree, nav, quiet, uploads, lost, dialog>> /\ Send({d})
    BY <1>5 DEF Mkdir, Cancel, bounds, batch
  <2>2. d.state = "sent" /\ d.op = "mkdir"
    BY CallIs
  <2> HIDE DEF d
  <2> QED
    BY <1>1, <2>1, <2>2, SeenSent
<1>6. ASSUME NEW name \in Names, Rename(name) PROVE SeenInv'
  <2> DEFINE a == Call(sent + 1, "rename", currentFileKey)
             d == OfTo(a, Append(currentDirectory, name))
  <2>1. /\ UNCHANGED <<tree, nav, quiet, uploads, lost, dialog>>
        /\ Send({d}) \/ UNCHANGED <<calls, sent>>
    BY <1>6 DEF Rename, Cancel, bounds, batch, OfTo
  <2>2. IsCall(a) /\ a.state = "sent" /\ a.op = "rename"
    BY CallIs
  <2> HIDE DEF a
  <2>3. d.state = "sent" /\ d.op = "rename"
    BY <2>2, OfToIs
  <2> HIDE DEF d
  <2>4. CASE Send({d})
    BY <1>1, <2>1, <2>3, <2>4, SeenSent
  <2>5. CASE UNCHANGED <<calls, sent>>
    BY <1>1, <2>1, <2>5, SeenStays
  <2> QED
    BY <2>1, <2>4, <2>5
<1>7. CASE Edit
  <2> DEFINE a == Call(sent + 1, "edit", currentFileKey)
             d == OfText(a, fileContent)
  <2>1. /\ UNCHANGED <<tree, nav, quiet, uploads, lost, dialog>> /\ Send({d})
    BY <1>7 DEF Edit, Cancel, bounds, batch, OfText
  <2>2. IsCall(a) /\ a.state = "sent" /\ a.op = "edit"
    BY CallIs
  <2> HIDE DEF a
  <2>3. d.state = "sent" /\ d.op = "edit"
    BY <2>2, OfTextIs
  <2> HIDE DEF d
  <2> QED
    BY <1>1, <2>1, <2>3, SeenSent
<1>8. ASSUME NEW r \in files, ShowEditor(r) PROVE SeenInv'
  <2> DEFINE d == Call(sent + 1, "download", r.key)
  <2>1. /\ UNCHANGED <<tree, nav, quiet, uploads, lost, dialog>> /\ Send({d})
    BY <1>8 DEF ShowEditor, Operate, OperateOn, batch
  <2>2. d.state = "sent" /\ d.op = "download"
    BY CallIs
  <2> HIDE DEF d
  <2> QED
    BY <1>1, <2>1, <2>2, SeenSent
<1>9. ASSUME NEW r \in files, DeleteRow(r) PROVE SeenInv'
  <2>1. /\ UNCHANGED <<tree, nav, quiet, uploads, lost, dialog>> /\ Send({Rm(r.key)})
    BY <1>9 DEF DeleteRow, Operate, OperateOn
  <2>2. Rm(r.key).state = "sent" /\ Rm(r.key).op = "rm"
    BY SentState
  <2> QED
    BY <1>1, <2>1, <2>2, SeenSent
<1>10. CASE ConfirmDelete
  <2>1. /\ UNCHANGED <<tree, nav, quiet, uploads, lost>> /\ dialog' = "running"
    BY <1>10 DEF ConfirmDelete, Cancel, bounds
  <2>2. PICK k \in rowKeys : Send({[Rm(k) EXCEPT !.batch = 1]})
    BY <1>10 DEF ConfirmDelete, Remaining
  <2> DEFINE d == [Rm(k) EXCEPT !.batch = 1]
  <2>3. d.state = "sent" /\ d.op = "rm" /\ Send({d})
    BY <2>2, SentState
  <2> HIDE DEF d
  <2> QED
    BY <1>1, <2>1, <2>3, SeenSent
<1> QED
  BY <1>3, <1>4, <1>5, <1>6, <1>7, <1>8, <1>9, <1>10 DEF User

\* UploadFiles: a batch of which nothing has arrived.
LEMMA UploadsSeen ==
    ASSUME IInv, SeenInv, NEW u \in Chosen, UploadFiles(u.names, u.sub)
    PROVE  SeenInv'
<1> DEFINE new == [size |-> Cardinality(u.names), ended |-> 0]
<1>1. PICK n \in Nat, more \in SUBSET calls' :
        /\ OperateOn(n) /\ calls' = calls \cup more /\ sent' = sent + n
        /\ \A d \in more :
             /\ Good(d) /\ d.id \in (sent + 1)..(sent + n)
             /\ d.op = "upload" /\ d.state = "sent" /\ d.batch = Len(uploads) + 1
  BY UploadsAre
<1>2. /\ UNCHANGED <<tree, nav, quiet, lost, dialog>>
      /\ uploads' = Append(uploads, new)
  BY DEF UploadFiles, OperateOn, batch
<1>3. new \in [size : Nat, ended : Nat]
  BY StartAssumption, OrderIs
<1> HIDE DEF new
<1>4. uploads \in Seq([size : Nat, ended : Nat])
  BY DEF SeenInv, Batches
<1>5. /\ uploads' \in Seq([size : Nat, ended : Nat])
      /\ Len(uploads') = Len(uploads) + 1 /\ Len(uploads) \in Nat
      /\ \A i \in 1..Len(uploads) : uploads'[i] = uploads[i]
  BY <1>2, <1>3, <1>4, AppendProperties, LenProperties
<1>6. Batches'
  BY <1>1, <1>5 DEF SeenInv, Batches
<1>7. Unloaded'
  <2>1. ~Balanced => ~Balanced'
    <3> SUFFICES ASSUME NEW b \in 1..Len(uploads), uploads[b].ended # uploads[b].size
                 PROVE  ~Balanced'
      BY DEF Balanced
    <3>1. b \in 1..Len(uploads') /\ uploads'[b].ended # uploads'[b].size
      BY <1>5
    <3> QED
      BY <3>1 DEF Balanced
  <2> QED
    BY <1>1, <1>2, <2>1 DEF SeenInv, Unloaded, quiet
<1>8. Current'
  <2>1. \A d : Listing(d)' = Listing(d)
    BY <1>2 DEF Listing
  <2>2. sent \in Nat /\ sent <= sent' /\ sent' \in Nat
    BY <1>1 DEF IInv, Requests
  <2> QED
    BY <1>1, <1>2, <2>1, <2>2 DEF SeenInv, Current, nav, quiet
<1> QED
  BY <1>6, <1>7, <1>8 DEF SeenInv

\* A request goes on at the server, and may change the storage.
LEMMA SeenServed ==
    ASSUME IInv, SeenInv, UNCHANGED Client, NEW c \in calls, c.state # "done", NEW d,
           d.id = c.id, d.op = c.op, d.key = c.key, d.batch = c.batch,
           calls' = (calls \ {c}) \cup {d},
           \/ UNCHANGED <<tree, unseen>>
           \/ c.op # "ls" /\ unseen' = unseen \cup {c.op} /\ (c.op = "edit" \/ Redo(d)),
           d.op = "ls" /\ d.state = "done" /\ d.ok => d.rows = Listing(c.key)
    PROVE  SeenInv'
<1>1. UNCHANGED <<currentDirectory, files, shownLs, lastLs, uploads, sent, dialog, lost>>
  BY DEF Client, nav, batch, bounds
<1>2. Batches'
  BY <1>1 DEF SeenInv, Batches
<1>3. ~Redo(c)
  BY DEF Redo
<1>4. Unloaded'
  BY <1>1, <1>3 DEF SeenInv, Unloaded, Balanced
<1>5. CASE UNCHANGED <<tree, unseen>>
  <2>1. \A p : Listing(p)' = Listing(p)
    BY <1>5 DEF Listing
  <2>2. Current'
    BY <1>1, <1>5, <2>1 DEF SeenInv, Current
  <2> QED
    BY <1>2, <1>4, <2>2 DEF SeenInv
<1>6. CASE unseen' = unseen \cup {c.op}
  <2>1. unseen' # {}
    BY <1>6
  <2>2. Current'
    BY <1>1, <2>1 DEF SeenInv, Current
  <2> QED
    BY <1>2, <1>4, <2>2 DEF SeenInv
<1> QED
  BY <1>5, <1>6

\* Answered: what becomes of the request.
LEMMA AnsweredIs ==
    ASSUME NEW c, IsCall(c), NEW good, NEW rs, NEW t, Answered(c, good, rs, t)
    PROVE  \E d : /\ d.id = c.id /\ d.op = c.op /\ d.key = c.key /\ d.batch = c.batch
                  /\ d.rows = rs /\ d.state = "done" /\ d.ok = good
                  /\ calls' = (calls \ {c}) \cup {d}
<1> DEFINE d == OfAnswer(c, good, rs, t)
<1>1. calls' = (calls \ {c}) \cup {d}
  BY DEF Answered, OfAnswer
<1>2. /\ d.id = c.id /\ d.op = c.op /\ d.key = c.key /\ d.batch = c.batch
      /\ d.rows = rs /\ d.state = "done" /\ d.ok = good
  BY OfAnswerIs
<1> HIDE DEF d
<1> QED
  BY <1>1, <1>2

\* The server's steps.
LEMMA ServerSeen ==
    ASSUME IInv, SeenInv, NEW c \in calls, Server(c)
    PROVE  SeenInv'
<1>1. IsCall(c)
  BY DEF IInv, Requests, Good
<1>2. ASSUME NEW good, NEW rs, NEW t, Answered(c, good, rs, t), c.state # "done",
             UNCHANGED Client,
             \/ UNCHANGED <<tree, unseen>>
             \/ /\ c.op \in {"rm", "mkdir", "rename", "edit", "upload"} /\ good = TRUE
                /\ unseen' = unseen \cup {c.op},
             c.op = "ls" => good = IsDirectory(c.key) /\ (IsDirectory(c.key) => rs = Listing(c.key))
      PROVE  SeenInv'
  <2>1. PICK d : /\ d.id = c.id /\ d.op = c.op /\ d.key = c.key /\ d.batch = c.batch
                 /\ d.rows = rs /\ d.state = "done" /\ d.ok = good
                 /\ calls' = (calls \ {c}) \cup {d}
    BY <1>1, <1>2, AnsweredIs
  <2>2. \/ UNCHANGED <<tree, unseen>>
        \/ c.op # "ls" /\ unseen' = unseen \cup {c.op} /\ (c.op = "edit" \/ Redo(d))
    BY <1>2, <2>1 DEF Redo
  <2>3. d.op = "ls" /\ d.state = "done" /\ d.ok => d.rows = Listing(c.key)
    BY <1>2, <2>1
  <2> QED
    BY <1>2, <2>1, <2>2, <2>3, SeenServed
<1>3. CASE ServeLs(c)
  <2> DEFINE good == IsDirectory(c.key)
             rs == IF IsDirectory(c.key) THEN Listing(c.key) ELSE {}
  <2>1. /\ c.state # "done" /\ UNCHANGED Client /\ UNCHANGED <<tree, unseen>>
        /\ Answered(c, good, rs, "")
    BY <1>3 DEF ServeLs
  <2>2. good = IsDirectory(c.key) /\ (IsDirectory(c.key) => rs = Listing(c.key))
    OBVIOUS
  <2> HIDE DEF good, rs
  <2> QED
    BY <1>2, <2>1, <2>2
<1>4. CASE ServeDownload(c)
  <2> DEFINE good == Permitted(c.op) /\ c.key \in DOMAIN tree /\ ~IsDirectory(c.key)
             text == IF good THEN tree[c.key] ELSE "[object Object]"
  <2>1. /\ c.op = "download" /\ c.state # "done" /\ UNCHANGED Client
        /\ UNCHANGED <<tree, unseen>>
        /\ Answered(c, good, {}, text) \/ calls' = calls \ {c}
    BY <1>4 DEF ServeDownload
  <2> HIDE DEF good, text
  <2>2. CASE Answered(c, good, {}, text)
    BY <1>2, <2>1, <2>2
  <2>3. CASE calls' = calls \ {c}
    <3>1. /\ sent \in Nat /\ sent' = sent
          /\ UNCHANGED <<tree, nav, quiet, uploads, lost, dialog>>
      BY <2>1 DEF IInv, Requests, Client, nav, quiet, batch, bounds
    <3>2. \A d \in calls : Redo(d) => d \in calls'
      BY <2>1, <2>3 DEF Redo
    <3> QED
      BY <2>3, <3>1, <3>2, SeenStays
  <2> QED
    BY <2>1, <2>2, <2>3
<1>5. CASE CheckLimit(c)
  <2>1. /\ c.op = "upload" /\ c.state = "sent" /\ UNCHANGED Client
        /\ UNCHANGED <<tree, unseen>>
        /\ \/ \E good : Answered(c, good, {}, "")
           \/ calls' = (calls \ {c}) \cup {OfState(c, "checked")}
    BY <1>5 DEF CheckLimit, OfState
  <2>2. CASE \E good : Answered(c, good, {}, "")
    BY <1>2, <2>1, <2>2
  <2>3. CASE calls' = (calls \ {c}) \cup {OfState(c, "checked")}
    <3> DEFINE d == OfState(c, "checked")
    <3>1. /\ d.id = c.id /\ d.op = c.op /\ d.key = c.key /\ d.batch = c.batch
          /\ calls' = (calls \ {c}) \cup {d}
      BY <1>1, <2>3, OfStateIs
    <3> HIDE DEF d
    <3> QED
      BY <2>1, <3>1, SeenServed
  <2> QED
    BY <2>1, <2>2, <2>3
<1>6. CASE Serve(c)
  <2>1. /\ c.op \in {"rm", "mkdir", "rename", "edit", "upload"} /\ c.state # "done"
        /\ UNCHANGED Client
    BY <1>6 DEF Serve
  <2>2. \E good : /\ Answered(c, good, {}, "")
                  /\ \/ UNCHANGED <<tree, unseen>>
                     \/ good = TRUE /\ unseen' = unseen \cup {c.op}
    <3>1. CASE tree' \in Results(c) /\ Answered(c, TRUE, {}, "")
               /\ unseen' = IF tree' = tree THEN unseen ELSE unseen \cup {c.op}
      BY <3>1
    <3>2. CASE Answered(c, FALSE, {}, "") /\ UNCHANGED <<tree, unseen>>
      BY <3>2
    <3> QED
      BY <1>6, <3>1, <3>2 DEF Serve
  <2> QED
    BY <1>2, <2>1, <2>2
<1> QED
  BY <1>3, <1>4, <1>5, <1>6 DEF Server

\* LsAnswer: what is shown is what the list was.
LEMMA LsAnswerSeen ==
    ASSUME IInv, SeenInv, NEW c \in calls, LsAnswer(c)
    PROVE  SeenInv'
<1>1. /\ c.op = "ls" /\ c.state = "done" /\ GoOn(c, {})
      /\ UNCHANGED <<tree, lost, lastLs, unseen, dialog, uploads>>
      /\ \/ c.ok /\ files' = c.rows /\ currentDirectory' = c.key /\ shownLs' = c.id
         \/ UNCHANGED <<files, currentDirectory, shownLs>>
  BY DEF LsAnswer, Handle, nav, bounds, batch
<1>2. sent \in Nat /\ c.id \in 1..sent
  BY DEF IInv, Requests
<1>3. calls' = calls \ {c} /\ sent' = sent
  BY <1>1, <1>2, FS_EmptySet DEF GoOn
<1>4. \A d : Listing(d)' = Listing(d)
  BY <1>1 DEF Listing
<1>5. Batches'
  BY <1>1, <1>3 DEF SeenInv, Batches
<1>6. Unloaded'
  BY <1>1, <1>3 DEF SeenInv, Unloaded, Redo, Balanced
<1>7. unseen' = {} /\ shownLs' = lastLs' => files' = Listing(currentDirectory)'
  <2>1. CASE c.ok /\ files' = c.rows /\ currentDirectory' = c.key /\ shownLs' = c.id
    <3>1. unseen' = {} /\ shownLs' = lastLs' => c.rows = Listing(c.key)
      BY <1>1, <2>1 DEF SeenInv, Current
    <3>2. Listing(currentDirectory)' = Listing(c.key)
      BY <1>1, <2>1 DEF Listing
    <3> QED
      BY <2>1, <3>1, <3>2
  <2>2. CASE UNCHANGED <<files, currentDirectory, shownLs>>
    <3>1. Listing(currentDirectory)' = Listing(currentDirectory)
      BY <1>1, <2>2 DEF Listing
    <3> QED
      BY <1>1, <2>2, <3>1 DEF SeenInv, Current
  <2> QED
    BY <1>1, <2>1, <2>2
<1>8. Current'
  BY <1>1, <1>2, <1>3, <1>4, <1>7 DEF SeenInv, Current
<1> QED
  BY <1>5, <1>6, <1>8 DEF SeenInv

\* The files are loaded after an answer, or there was nothing to load them for.
LEMMA AnswerSeen ==
    ASSUME IInv, SeenInv, NEW c \in calls,
           UNCHANGED <<tree, nav, lost>>, uploads' = uploads,
           Refresh(c) \/ (NoRefresh(c) /\ ~Redo(c) /\ UNCHANGED dialog)
    PROVE  SeenInv'
<1>1. sent \in Nat
  BY DEF IInv, Requests
<1>2. CASE Refresh(c)
  <2>1. /\ calls' = (calls \ {c}) \cup {Ls(currentDirectory)} /\ sent' = sent + 1 /\ Loading
    BY <1>2, FS_Singleton DEF Refresh, GoOn
  <2>2. Ls(currentDirectory).state = "sent" /\ Ls(currentDirectory).op = "ls"
    BY SentState
  <2>3. Batches'
    BY <2>1, <2>2 DEF SeenInv, Batches
  <2> QED
    BY <2>1, <2>2, <2>3, SeenLoads
<1>3. CASE NoRefresh(c) /\ ~Redo(c) /\ UNCHANGED dialog
  <2>1. calls' = calls \ {c} /\ sent' = sent /\ UNCHANGED quiet
    BY <1>1, <1>3, FS_EmptySet DEF NoRefresh, NotLoading, GoOn, quiet
  <2> QED
    BY <1>1, <1>3, <2>1, SeenStays
<1> QED
  BY <1>2, <1>3

\* BatchRmAnswer: the batch goes on, or ends with a list.
LEMMA BatchRmSeen ==
    ASSUME IInv, SeenInv, NEW c \in calls, BatchRmAnswer(c)
    PROVE  SeenInv'
<1>1. UNCHANGED <<tree, nav, lost, uploads>> /\ InBatch(c) /\ sent \in Nat
  BY DEF BatchRmAnswer, Handle, bounds, InBatch, IInv, Requests
<1>2. dialog = "running"
  BY <1>1 DEF IInv, Waits, HasBatch
<1>3. CASE Refresh(c)
  BY <1>1, <1>3, AnswerSeen
<1>4. ASSUME NEW k \in Remaining, GoOn(c, {[Rm(k) EXCEPT !.batch = 1]}), NotLoading,
             UNCHANGED dialog
      PROVE  SeenInv'
  <2> DEFINE d == [Rm(k) EXCEPT !.batch = 1]
  <2>1. d.state = "sent" /\ d.op = "rm" /\ GoOn(c, {d})
    BY <1>4, SentState
  <2> HIDE DEF d
  <2>2. calls' = (calls \ {c}) \cup {d} /\ sent' = sent + 1
    BY <2>1, FS_Singleton DEF GoOn
  <2>3. UNCHANGED quiet
    BY <1>4 DEF NotLoading, quiet
  <2> QED
    BY <1>1, <1>2, <1>4, <2>1, <2>2, <2>3, SeenStays
<1> QED
  BY <1>3, <1>4 DEF BatchRmAnswer

\* UploadAnswer: the batch has not arrived yet, or the files are loaded.
LEMMA UploadSeen ==
    ASSUME IInv, SeenInv, NEW c \in calls, UploadAnswer(c)
    PROVE  SeenInv'
<1> DEFINE b == c.batch
           ended == uploads[b].ended + 1
           more == [uploads[b] EXCEPT !.ended = ended]
<1>1. /\ UNCHANGED <<tree, nav, lost, dialog>> /\ c.op = "upload"
      /\ uploads' = [uploads EXCEPT ![b].ended = ended]
      /\ IF ended = uploads[b].size THEN Refresh(c) ELSE NoRefresh(c)
  BY DEF UploadAnswer, Handle, bounds, batch
<1>2. /\ uploads \in Seq([size : Nat, ended : Nat]) /\ b \in 1..Len(uploads)
      /\ sent \in Nat
  BY <1>1 DEF SeenInv, Batches, IInv, Requests
<1>3. uploads[b] \in [size : Nat, ended : Nat]
  BY <1>2, ElementOfSeq
<1>4. more \in [size : Nat, ended : Nat] /\ more.ended = ended /\ more.size = uploads[b].size
  BY <1>3
<1>5. uploads' = [uploads EXCEPT ![b] = more]
  BY <1>1
<1> HIDE DEF more
<1>6. /\ uploads' \in Seq([size : Nat, ended : Nat]) /\ Len(uploads') = Len(uploads)
      /\ uploads'[b] = more
  BY <1>2, <1>4, <1>5, ExceptSeq
<1>7. CASE ended = uploads[b].size
  <2>1. /\ calls' = (calls \ {c}) \cup {Ls(currentDirectory)} /\ sent' = sent + 1 /\ Loading
    BY <1>1, <1>7, FS_Singleton DEF Refresh, GoOn
  <2>2. Ls(currentDirectory).state = "sent" /\ Ls(currentDirectory).op = "ls"
    BY SentState
  <2>3. Batches'
    BY <1>6, <2>1, <2>2 DEF SeenInv, Batches
  <2> QED
    BY <1>1, <2>1, <2>2, <2>3, SeenLoads
<1>8. CASE ended # uploads[b].size
  <2>1. calls' = calls \ {c} /\ sent' = sent /\ UNCHANGED quiet
    BY <1>1, <1>2, <1>8, FS_EmptySet DEF NoRefresh, NotLoading, GoOn, quiet
  <2>2. Batches'
    BY <1>6, <2>1 DEF SeenInv, Batches
  <2>3. b \in 1..Len(uploads') /\ uploads'[b].ended # uploads'[b].size
    BY <1>2, <1>4, <1>6, <1>8
  <2>4. ~Balanced'
    BY <2>3 DEF Balanced
  <2>5. Unloaded'
    BY <2>4 DEF Unloaded
  <2>6. \A d : Listing(d)' = Listing(d)
    BY <1>1 DEF Listing
  <2>7. Current'
    BY <1>1, <2>1, <2>6 DEF SeenInv, Current, nav, quiet
  <2> QED
    BY <2>2, <2>5, <2>7 DEF SeenInv
<1> QED
  BY <1>7, <1>8
\* The other answers.
LEMMA AnswersSeen ==
    ASSUME IInv, SeenInv, NEW c \in calls, Answer(c)
    PROVE  SeenInv'
<1>1. CASE MkdirAnswer(c) \/ RenameAnswer(c)
  <2>1. /\ UNCHANGED <<tree, nav, lost, uploads, dialog>>
        /\ IF c.ok THEN Refresh(c) ELSE NoRefresh(c)
    BY <1>1 DEF MkdirAnswer, RenameAnswer, Handle, bounds, batch
  <2> QED
    BY <2>1, AnswerSeen DEF Redo
<1>2. CASE DownloadAnswer(c) \/ EditAnswer(c)
  <2>1. /\ UNCHANGED <<tree, nav, lost, uploads, dialog>>
        /\ NoRefresh(c) /\ c.op \in {"download", "edit"}
    BY <1>2 DEF DownloadAnswer, EditAnswer, Handle, bounds, batch
  <2>2. ~Redo(c)
    BY <2>1 DEF Redo
  <2> QED
    BY <2>1, <2>2, AnswerSeen
<1>3. CASE RmAnswer(c)
  <2>1. UNCHANGED <<tree, nav, lost, uploads>> /\ Refresh(c)
    BY <1>3 DEF RmAnswer, Handle, bounds
  <2> QED
    BY <2>1, AnswerSeen
<1> QED
  BY <1>1, <1>2, <1>3, LsAnswerSeen, BatchRmSeen, UploadSeen DEF Answer

\* AbortUpload, Lose: what is gone was not done, or is lost.
LEMMA GoneSeen ==
    ASSUME IInv, SeenInv, NEW c \in calls, AbortUpload(c) \/ Lose(c)
    PROVE  SeenInv'
<1>1. /\ UNCHANGED <<tree, nav, quiet, uploads, sent, dialog>> /\ calls' = calls \ {c}
      /\ (c.state # "done" /\ lost' = lost) \/ lost' = lost + 1
  BY DEF AbortUpload, Lose, Operate, OperateOn, batch
<1>2. sent \in Nat /\ lost \in Nat
  BY BoundsAssumption DEF IInv, Requests, Types
<1>3. CASE c.state # "done" /\ lost' = lost
  <2>1. ~Redo(c)
    BY <1>3 DEF Redo
  <2> QED
    BY <1>1, <1>2, <1>3, <2>1, SeenStays
<1>4. CASE lost' = lost + 1
  <2>1. Batches'
    BY <1>1 DEF SeenInv, Batches
  <2>2. Unloaded'
    BY <1>2, <1>4 DEF Unloaded
  <2>3. \A d : Listing(d)' = Listing(d)
    BY <1>1 DEF Listing
  <2>4. Current'
    BY <1>1, <2>3 DEF SeenInv, Current, nav, quiet
  <2> QED
    BY <2>1, <2>2, <2>4 DEF SeenInv
<1> QED
  BY <1>1, <1>3, <1>4

\* Init: the first list is under way.
LEMMA InitSeen == Init => SeenInv
<1> SUFFICES ASSUME Init PROVE SeenInv
  OBVIOUS
<1> DEFINE d == Call(1, "ls", Root)
<1>1. calls = {d} /\ sent = 1 /\ uploads = <<>> /\ unseen = {} /\ lastLs = 1 /\ shownLs = 0
  BY DEF Init
<1>2. d.op = "ls" /\ d.state = "sent"
  BY CallIs
<1> HIDE DEF d
<1>3. Batches
  BY <1>1, <1>2, EmptySeq DEF Batches
<1>4. Unloaded /\ Current
  BY <1>1, <1>2 DEF Unloaded, Current
<1> QED
  BY <1>3, <1>4 DEF SeenInv

\* Every step, and a step that changes nothing, keeps what is seen at rest.
LEMMA NextSeen == IInv /\ SeenInv /\ [Next]_vars => SeenInv'
<1> SUFFICES ASSUME IInv, SeenInv, [Next]_vars PROVE SeenInv'
  OBVIOUS
<1>1. CASE UNCHANGED vars
  <2>1. UNCHANGED <<tree, nav, quiet, uploads, lost, calls, sent, dialog>> /\ sent \in Nat
    BY <1>1 DEF vars, quiet, bounds, batch, IInv, Requests
  <2> QED
    BY <2>1, SeenStays
<1>2. CASE User
  <2>1. CASE \A u \in Chosen : ~UploadFiles(u.names, u.sub)
    BY <1>2, <2>1, UserSeen
  <2>2. CASE \E u \in Chosen : UploadFiles(u.names, u.sub)
    BY <2>2, UploadsSeen
  <2> QED
    BY <2>1, <2>2
<1>3. ASSUME NEW c \in calls, Server(c) PROVE SeenInv'
  BY <1>3, ServerSeen
<1>4. ASSUME NEW c \in calls, Answer(c) PROVE SeenInv'
  BY <1>4, AnswersSeen
<1>5. ASSUME NEW c \in calls, AbortUpload(c) \/ Lose(c) PROVE SeenInv'
  BY <1>5, GoneSeen
<1> QED
  BY <1>1, <1>2, <1>3, <1>4, <1>5 DEF Next

\* At rest the screen shows the storage: every change that was granted is
\* followed by a list, whatever overtakes what, except for edits, and the
\* answer of a list is shown with what has not changed since.
THEOREM QuietScreenIsTrue == Spec => []QuietShowsTheTree
<1>1. Init => IInv /\ SeenInv
  BY InitKeeps, InitSeen
<1>2. IInv /\ SeenInv /\ [Next]_vars => (IInv /\ SeenInv)'
  BY NextKeeps, NextSeen
<1>3. IInv /\ SeenInv => QuietShowsTheTree
  BY SeenIs
<1> QED
  BY <1>1, <1>2, <1>3, PTL DEF Spec
=============================================================================
