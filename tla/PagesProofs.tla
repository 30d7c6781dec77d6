----------------------------- MODULE PagesProofs -----------------------------
(* What a page holds and what it sends, for any pages, rows, bounds and      *)
(* orders of answers.                                                       *)
EXTENDS Pages, FiniteSetTheorems, SequenceTheorems, TLAPS

-----------------------------------------------------------------------------
(* The calls are a sequence, of records nothing is assumed of.              *)

Elements(s) == {s[i] : i \in DOMAIN s}

IsSeq(s) == s \in Seq(Elements(s))

\* Calls: a function over 1..n is a sequence of its values.
LEMMA SeqIs ==
    ASSUME NEW n \in Nat, NEW s, s = [i \in 1..n |-> s[i]]
    PROVE  IsSeq(s) /\ DOMAIN s = 1..n /\ Len(s) = n
<1>1. DOMAIN s = 1..n
  OBVIOUS
<1>2. s \in [1..n -> Elements(s)]
  BY <1>1 DEF Elements
<1>3. s \in Seq(Elements(s))
  BY <1>2
<1> QED
  BY <1>1, <1>3 DEF IsSeq

\* Calls: a sequence has a length.
LEMMA SeqHas ==
    ASSUME NEW s, IsSeq(s)
    PROVE  /\ Len(s) \in Nat /\ DOMAIN s = 1..Len(s)
           /\ s = [i \in 1..Len(s) |-> s[i]]
           /\ \A T : Elements(s) \subseteq T => s \in Seq(T)
<1>1. s \in Seq(Elements(s))
  BY DEF IsSeq
<1>2. Len(s) \in Nat /\ DOMAIN s = 1..Len(s) /\ s = [i \in 1..Len(s) |-> s[i]]
  BY <1>1
<1>3. ASSUME NEW T, Elements(s) \subseteq T PROVE s \in Seq(T)
  <2>1. \A i \in 1..Len(s) : s[i] \in T
    BY <1>2, <1>3 DEF Elements
  <2>2. s \in [1..Len(s) -> T]
    BY <1>2, <2>1
  <2> QED
    BY <1>2, <2>2
<1> QED
  BY <1>2, <1>3

\* Calls: a sequence over any set is one.
LEMMA OverAny ==
    ASSUME NEW T, NEW s \in Seq(T)
    PROVE  IsSeq(s)
<1>1. Len(s) \in Nat /\ s \in [1..Len(s) -> T]
  BY LenProperties
<1>2. s = [i \in 1..Len(s) |-> s[i]]
  BY <1>1
<1> QED
  BY <1>1, <1>2, SeqIs

\* Calls: a sequence and the one that follows it.
LEMMA JoinIs ==
    ASSUME NEW s, NEW t, IsSeq(s), IsSeq(t)
    PROVE  /\ IsSeq(s \o t) /\ DOMAIN (s \o t) = 1..(Len(s) + Len(t))
           /\ Len(s \o t) = Len(s) + Len(t)
           /\ \A k \in 1..(Len(s) + Len(t)) :
                (s \o t)[k] = IF k <= Len(s) THEN s[k] ELSE t[k - Len(s)]
<1> DEFINE T == Elements(s) \cup Elements(t)
<1>1. s \in Seq(T) /\ t \in Seq(T)
  BY SeqHas
<1> HIDE DEF T
<1>2. /\ s \o t \in Seq(T) /\ Len(s \o t) = Len(s) + Len(t)
      /\ DOMAIN (s \o t) = 1..(Len(s) + Len(t))
      /\ \A k \in 1..(Len(s) + Len(t)) :
           (s \o t)[k] = IF k <= Len(s) THEN s[k] ELSE t[k - Len(s)]
  BY <1>1
<1> QED
  BY <1>2, OverAny

\* Calls: a sequence of one call.
LEMMA OneIs ==
    ASSUME NEW c
    PROVE  IsSeq(<<c>>) /\ DOMAIN <<c>> = 1..1 /\ Len(<<c>>) = 1 /\ <<c>>[1] = c
<1>1. <<c>> = [i \in 1..1 |-> <<c>>[i]] /\ <<c>>[1] = c
  OBVIOUS
<1> QED
  BY <1>1, SeqIs

\* Calls: the empty sequence.
LEMMA NoneIs == IsSeq(<<>>) /\ DOMAIN <<>> = {} /\ Len(<<>>) = 0
<1>1. <<>> \in Seq(Elements(<<>>)) /\ DOMAIN <<>> = {} /\ Len(<<>>) = 0
  OBVIOUS
<1> QED
  BY <1>1 DEF IsSeq

\* Calls: a call at the end.
LEMMA AppendIs ==
    ASSUME NEW s, NEW c, IsSeq(s)
    PROVE  Append(s, c) = s \o <<c>>
<1>1. s \in Seq(Elements(s) \cup {c})
  BY SeqHas
<1> QED
  BY <1>1

\* Calls: without the call at i, the later ones move up.
LEMMA RestIs ==
    ASSUME NEW s, IsSeq(s), NEW i \in DOMAIN s
    PROVE  /\ IsSeq(Rest(s, i)) /\ DOMAIN Rest(s, i) = 1..(Len(s) - 1)
           /\ \A k \in 1..(Len(s) - 1) : Rest(s, i)[k] = IF k < i THEN s[k] ELSE s[k + 1]
<1> DEFINE T == Elements(s)
           a == SubSeq(s, 1, i - 1)
           b == SubSeq(s, i + 1, Len(s))
           n == Len(s)
<1>1. s \in Seq(T) /\ n \in Nat /\ i \in 1..n
  BY SeqHas DEF IsSeq
<1> HIDE DEF T
<1>2. /\ a \in Seq(T) /\ Len(a) = i - 1 /\ \A k \in 1..(i - 1) : a[k] = s[k]
      /\ b \in Seq(T) /\ Len(b) = n - i /\ \A k \in 1..(n - i) : b[k] = s[i + k]
  BY <1>1
<1> HIDE DEF a, b, n
<1>3. /\ IsSeq(a \o b) /\ DOMAIN (a \o b) = 1..((i - 1) + (n - i))
      /\ \A k \in 1..((i - 1) + (n - i)) :
           (a \o b)[k] = IF k <= i - 1 THEN a[k] ELSE b[k - (i - 1)]
  <2>1. IsSeq(a) /\ IsSeq(b) /\ Len(a) = i - 1 /\ Len(b) = n - i
    BY <1>2, OverAny
  <2> QED
    BY <2>1, JoinIs
<1>4. /\ IsSeq(a \o b) /\ DOMAIN (a \o b) = 1..(n - 1)
      /\ \A k \in 1..(n - 1) : (a \o b)[k] = IF k < i THEN s[k] ELSE s[k + 1]
  <2>1. (i - 1) + (n - i) = n - 1
    BY <1>1
  <2>2. ASSUME NEW k \in 1..(n - 1), k < i PROVE (a \o b)[k] = s[k]
    <3>1. k \in 1..(i - 1) /\ k <= i - 1
      BY <1>1, <2>2
    <3> QED
      BY <1>2, <1>3, <2>1, <3>1
  <2>3. ASSUME NEW k \in 1..(n - 1), ~(k < i) PROVE (a \o b)[k] = s[k + 1]
    <3>1. k - (i - 1) \in 1..(n - i) /\ ~(k <= i - 1) /\ i + (k - (i - 1)) = k + 1
      BY <1>1, <2>3
    <3>2. (a \o b)[k] = b[k - (i - 1)]
      BY <1>3, <2>1, <3>1
    <3> QED
      BY <1>2, <3>1, <3>2
  <2> QED
    BY <1>3, <2>1, <2>2, <2>3
<1>5. Rest(s, i) = a \o b
  BY DEF Rest, RemoveAt, a, b, n
<1> QED
  BY <1>4, <1>5 DEF n

-----------------------------------------------------------------------------
(* The invariant.                                                          *)

\* The values of a row, and where its answer may leave some out, of others too.
Owns(f) == f.id \in f.of /\ (P.modal.partial \/ f.of = {f.id})

\* A form has the values of the row of its id, or of none.
Marks(f) ==
    /\ f \in Forms
    /\ IF f.id = 0 THEN f.of = {} ELSE Owns(f)
    /\ f.preset => P.modal.presets \/ P.modal.hidden = "defaults"

\* What may be saved.
Sound(b) ==
    /\ b \in Forms
    /\ b.id # 0 => Owns(b)
    /\ b.id = 0 /\ b.of # {} => P.copy # {}
    /\ b.preset => P.modal.presets \/ P.modal.hidden = "defaults"

\* A record with the fields of a call.
Fields == {"op", "paths", "row", "rows", "effect", "then", "body", "state", "ok", "seen"}

IsCall(c) == DOMAIN c = Fields /\ c = [f \in DOMAIN c |-> c[f]]

Good(c) ==
    /\ IsCall(c)
    /\ (c.op = "get" => c.row \in Rows) /\ DOMAIN c.seen \subseteq Rows
    /\ c.body \in Forms
    /\ c.op = "save" => Sound(c.body)

AllGood(cs) == IsSeq(cs) /\ \A i \in DOMAIN cs : Good(cs[i])

Has(cs, op) == \E i \in DOMAIN cs : cs[i].op = op

\* A form that waits has sent one request at most.
OneSave(cs) == \A i, j \in DOMAIN cs : cs[i].op = "save" /\ cs[j].op = "save" => i = j

IsDialog(d) == /\ d = [state |-> d.state, batch |-> d.batch, keys |-> d.keys]
               /\ d.state \in {"closed", "open", "running"} /\ d.keys \subseteq Rows

Types ==
    /\ page \in Shown /\ user \in Users
    /\ DOMAIN rows \subseteq Rows /\ DOMAIN table \subseteq Rows
    /\ selectedRowKey \in Rows \cup {0} /\ selectedRowKeys \subseteq Rows
    /\ visible \in BOOLEAN /\ copied \in BOOLEAN /\ confirmLoading \in BOOLEAN
    /\ IsDialog(dialog)
    /\ ops \in 0..MaxOps(page, user) /\ lost \in 0..MaxLost

Waits ==
    lost = 0 /\ left = {} =>
      /\ confirmLoading <=> P.awaited /\ Has(calls, "save")
      /\ dialog.state = "running" => Has(calls, "batch")
      /\ P.awaited => OneSave(calls)

IInv ==
    /\ Types
    /\ Marks(form) /\ (copied => P.copy # {})
    /\ AllGood(calls)
    /\ Waits

\* The invariant holds what the properties say.
LEMMA IInvIs == IInv => PagesInv
<1> SUFFICES ASSUME IInv PROVE PagesInv
  OBVIOUS
<1>1. TypeOK
  BY DEF IInv, Types, Marks, AllGood, Good, IsDialog, TypeOK
<1>2. RowsDoNotMix
  BY DEF IInv, AllGood, Good, Sound, Owns, RowsDoNotMix
<1>3. BusyHasAReason
  <2> SUFFICES ASSUME lost = 0, left = {}
               PROVE  /\ confirmLoading <=> /\ P.awaited
                                           /\ \E i \in DOMAIN calls : calls[i].op = "save"
                      /\ dialog.state = "running" => \E i \in DOMAIN calls : calls[i].op = "batch"
    BY DEF BusyHasAReason
  <2> QED
    BY DEF IInv, Waits, Has
<1> QED
  BY <1>1, <1>2, <1>3 DEF PagesInv

-----------------------------------------------------------------------------
(* The records of the calls.                                               *)

\* The requests of a form, of a button, of a test, of a batch; a request that was served.
OfForm(c, b, r) == [c EXCEPT !.body = b, !.row = r]
OfButton(c, r, rs, e, t, s) ==
  [c EXCEPT !.row = r, !.rows = rs, !.effect = e, !.then = t, !.seen = s]
OfTest(c, r, rs, t, s) == [c EXCEPT !.row = r, !.rows = rs, !.then = t, !.seen = s]
OfBatch(c, rs, e, t) == [c EXCEPT !.rows = rs, !.effect = e, !.then = t]
OfAnswer(c, v, good, s) == [c EXCEPT !.state = v, !.ok = good, !.seen = s]

\* Calls: a record with one field changed.
LEMMA FieldSet ==
    ASSUME NEW c, IsCall(c), NEW f \in Fields, NEW v
    PROVE  /\ IsCall([c EXCEPT ![f] = v]) /\ [c EXCEPT ![f] = v][f] = v
           /\ \A g \in Fields \ {f} : [c EXCEPT ![f] = v][g] = c[g]
<1> DEFINE d == [c EXCEPT ![f] = v]
<1>1. d = [g \in DOMAIN c |-> IF g = f THEN v ELSE c[g]]
  BY DEF IsCall
<1>2. DOMAIN d = Fields
  BY <1>1 DEF IsCall
<1>3. d = [g \in DOMAIN d |-> d[g]]
  BY <1>1
<1>4. d[f] = v /\ \A g \in Fields \ {f} : d[g] = c[g]
  BY <1>1 DEF IsCall
<1> HIDE DEF d
<1>5. IsCall(d)
  BY <1>2, <1>3 DEF IsCall
<1> QED
  BY <1>4, <1>5 DEF d

\* Call: a request as it is made.
LEMMA CallIs ==
    ASSUME NEW op, NEW paths, NEW d, d = Call(op, paths)
    PROVE  /\ IsCall(d) /\ d.op = op /\ d.paths = paths
           /\ d.row = 0 /\ DOMAIN d.seen = {} /\ d.body = Blank
           /\ Blank \in Forms /\ Blank.id = 0 /\ Blank.of = {} /\ ~Blank.preset
<1>1. d = [f \in DOMAIN d |-> d[f]]
  BY Zenon DEF Call
<1>2. DOMAIN d = Fields
  BY DEF Fields, Call
<1>3. d.op = op /\ d.paths = paths /\ d.row = 0 /\ d.seen = <<>> /\ d.body = Blank
  BY DEF Call
<1>4. Blank \in Forms /\ Blank.id = 0 /\ Blank.of = {} /\ ~Blank.preset
  BY DEF Blank, Forms
<1> QED
  BY <1>1, <1>2, <1>3, <1>4, NoneIs DEF IsCall

\* Get: a request for a row.
LEMMA ForRow ==
    ASSUME NEW c, IsCall(c), NEW r, NEW d,
           d = [c EXCEPT !.row = r]
    PROVE  IsCall(d) /\ d.op = c.op /\ d.paths = c.paths
           /\ d.row = r /\ d.seen = c.seen /\ d.body = c.body
<1> DEFINE a1 == [c EXCEPT !["row"] = r]
<1>1. d = a1
  OBVIOUS
<1>2. {"body", "op", "paths", "row", "seen"} \subseteq Fields
  BY DEF Fields
<1>3. IsCall(a1) /\ a1["op"] = c["op"] /\ a1["paths"] = c["paths"]
      /\ a1["row"] = r /\ a1["seen"] = c["seen"]
      /\ a1["body"] = c["body"]
  BY <1>2, FieldSet
<1> HIDE DEF a1
<1> QED
  BY <1>1, <1>3

\* Ok: a request with the values of a form.
LEMMA ForForm ==
    ASSUME NEW c, IsCall(c), NEW b, NEW r, NEW d, d = OfForm(c, b, r)
    PROVE  IsCall(d) /\ d.op = c.op /\ d.paths = c.paths
           /\ d.row = r /\ d.seen = c.seen /\ d.body = b
<1> DEFINE a1 == [c EXCEPT !["body"] = b]
           a2 == [a1 EXCEPT !["row"] = r]
<1>1. d = a2
  BY DEF OfForm
<1>2. {"body", "op", "paths", "row", "seen"} \subseteq Fields
  BY DEF Fields
<1>3. IsCall(a1) /\ a1["op"] = c["op"] /\ a1["paths"] = c["paths"]
      /\ a1["row"] = c["row"] /\ a1["seen"] = c["seen"]
      /\ a1["body"] = b
  BY <1>2, FieldSet
<1> HIDE DEF a1
<1>4. IsCall(a2) /\ a2["op"] = c["op"] /\ a2["paths"] = c["paths"]
      /\ a2["row"] = r /\ a2["seen"] = c["seen"] /\ a2["body"] = b
  BY <1>2, <1>3, FieldSet
<1> HIDE DEF a2
<1> QED
  BY <1>1, <1>4

\* ActOn: the request of a button of a row.
LEMMA ForButton ==
    ASSUME NEW c, IsCall(c), NEW r, NEW rs, NEW e, NEW t, NEW s, NEW d,
           d = OfButton(c, r, rs, e, t, s)
    PROVE  IsCall(d) /\ d.op = c.op /\ d.paths = c.paths
           /\ d.row = r /\ d.seen = s /\ d.body = c.body
           /\ d.effect = e /\ d.then = t
<1> DEFINE a1 == [c EXCEPT !["row"] = r]
           a2 == [a1 EXCEPT !["rows"] = rs]
           a3 == [a2 EXCEPT !["effect"] = e]
           a4 == [a3 EXCEPT !["then"] = t]
           a5 == [a4 EXCEPT !["seen"] = s]
<1>1. d = a5
  BY DEF OfButton
<1>2. {"body", "effect", "op", "paths", "row", "rows", "seen", "then"} \subseteq Fields
  BY DEF Fields
<1>3. IsCall(a1) /\ a1["op"] = c["op"] /\ a1["paths"] = c["paths"]
      /\ a1["row"] = r /\ a1["seen"] = c["seen"]
      /\ a1["body"] = c["body"]
      /\ a1["effect"] = c["effect"] /\ a1["then"] = c["then"]
  BY <1>2, FieldSet
<1> HIDE DEF a1
<1>4. IsCall(a2) /\ a2["op"] = c["op"] /\ a2["paths"] = c["paths"]
      /\ a2["row"] = r /\ a2["seen"] = c["seen"]
      /\ a2["body"] = c["body"]
      /\ a2["effect"] = c["effect"] /\ a2["then"] = c["then"]
  BY <1>2, <1>3, FieldSet
<1> HIDE DEF a2
<1>5. IsCall(a3) /\ a3["op"] = c["op"] /\ a3["paths"] = c["paths"]
      /\ a3["row"] = r /\ a3["seen"] = c["seen"]
      /\ a3["body"] = c["body"]
      /\ a3["effect"] = e /\ a3["then"] = c["then"]
  BY <1>2, <1>4, FieldSet
<1> HIDE DEF a3
<1>6. IsCall(a4) /\ a4["op"] = c["op"] /\ a4["paths"] = c["paths"]
      /\ a4["row"] = r /\ a4["seen"] = c["seen"]
      /\ a4["body"] = c["body"]
      /\ a4["effect"] = e /\ a4["then"] = t
  BY <1>2, <1>5, FieldSet
<1> HIDE DEF a4
<1>7. IsCall(a5) /\ a5["op"] = c["op"] /\ a5["paths"] = c["paths"]
      /\ a5["row"] = r /\ a5["seen"] = s /\ a5["body"] = c["body"]
      /\ a5["effect"] = e /\ a5["then"] = t
  BY <1>2, <1>6, FieldSet
<1> HIDE DEF a5
<1> QED
  BY <1>1, <1>7

\* StartBatch: the test of one row.
LEMMA ForTest ==
    ASSUME NEW c, IsCall(c), NEW r, NEW rs, NEW t, NEW s, NEW d, d = OfTest(c, r, rs, t, s)
    PROVE  IsCall(d) /\ d.op = c.op /\ d.paths = c.paths
           /\ d.row = r /\ d.seen = s /\ d.body = c.body
<1> DEFINE a1 == [c EXCEPT !["row"] = r]
           a2 == [a1 EXCEPT !["rows"] = rs]
           a3 == [a2 EXCEPT !["then"] = t]
           a4 == [a3 EXCEPT !["seen"] = s]
<1>1. d = a4
  BY DEF OfTest
<1>2. {"body", "op", "paths", "row", "rows", "seen", "then"} \subseteq Fields
  BY DEF Fields
<1>3. IsCall(a1) /\ a1["op"] = c["op"] /\ a1["paths"] = c["paths"]
      /\ a1["row"] = r /\ a1["seen"] = c["seen"]
      /\ a1["body"] = c["body"]
  BY <1>2, FieldSet
<1> HIDE DEF a1
<1>4. IsCall(a2) /\ a2["op"] = c["op"] /\ a2["paths"] = c["paths"]
      /\ a2["row"] = r /\ a2["seen"] = c["seen"]
      /\ a2["body"] = c["body"]
  BY <1>2, <1>3, FieldSet
<1> HIDE DEF a2
<1>5. IsCall(a3) /\ a3["op"] = c["op"] /\ a3["paths"] = c["paths"]
      /\ a3["row"] = r /\ a3["seen"] = c["seen"]
      /\ a3["body"] = c["body"]
  BY <1>2, <1>4, FieldSet
<1> HIDE DEF a3
<1>6. IsCall(a4) /\ a4["op"] = c["op"] /\ a4["paths"] = c["paths"]
      /\ a4["row"] = r /\ a4["seen"] = s /\ a4["body"] = c["body"]
  BY <1>2, <1>5, FieldSet
<1> HIDE DEF a4
<1> QED
  BY <1>1, <1>6

\* BatchCall: the request of a batch.
LEMMA ForBatch ==
    ASSUME NEW c, IsCall(c), NEW rs, NEW e, NEW t, NEW d, d = OfBatch(c, rs, e, t)
    PROVE  IsCall(d) /\ d.op = c.op /\ d.paths = c.paths
           /\ d.row = c.row /\ d.seen = c.seen /\ d.body = c.body
           /\ d.effect = e /\ d.then = t
<1> DEFINE a1 == [c EXCEPT !["rows"] = rs]
           a2 == [a1 EXCEPT !["effect"] = e]
           a3 == [a2 EXCEPT !["then"] = t]
<1>1. d = a3
  BY DEF OfBatch
<1>2. {"body", "effect", "op", "paths", "row", "rows", "seen", "then"} \subseteq Fields
  BY DEF Fields
<1>3. IsCall(a1) /\ a1["op"] = c["op"] /\ a1["paths"] = c["paths"]
      /\ a1["row"] = c["row"] /\ a1["seen"] = c["seen"]
      /\ a1["body"] = c["body"]
      /\ a1["effect"] = c["effect"]
      /\ a1["then"] = c["then"]
  BY <1>2, FieldSet
<1> HIDE DEF a1
<1>4. IsCall(a2) /\ a2["op"] = c["op"] /\ a2["paths"] = c["paths"]
      /\ a2["row"] = c["row"] /\ a2["seen"] = c["seen"]
      /\ a2["body"] = c["body"]
      /\ a2["effect"] = e /\ a2["then"] = c["then"]
  BY <1>2, <1>3, FieldSet
<1> HIDE DEF a2
<1>5. IsCall(a3) /\ a3["op"] = c["op"] /\ a3["paths"] = c["paths"]
      /\ a3["row"] = c["row"] /\ a3["seen"] = c["seen"]
      /\ a3["body"] = c["body"]
      /\ a3["effect"] = e /\ a3["then"] = t
  BY <1>2, <1>4, FieldSet
<1> HIDE DEF a3
<1> QED
  BY <1>1, <1>5

\* Answered: a request that was served.
LEMMA ForAnswer ==
    ASSUME NEW c, IsCall(c), NEW v, NEW good, NEW s, NEW d, d = OfAnswer(c, v, good, s)
    PROVE  IsCall(d) /\ d.op = c.op /\ d.paths = c.paths
           /\ d.row = c.row /\ d.seen = s /\ d.body = c.body
           /\ d.state = v /\ d.ok = good /\ d.effect = c.effect /\ d.then = c.then
<1> DEFINE a1 == [c EXCEPT !["state"] = v]
           a2 == [a1 EXCEPT !["ok"] = good]
           a3 == [a2 EXCEPT !["seen"] = s]
<1>1. d = a3
  BY DEF OfAnswer
<1>2. {"body", "effect", "ok", "op", "paths", "row", "seen", "state", "then"} \subseteq Fields
  BY DEF Fields
<1>3. IsCall(a1) /\ a1["op"] = c["op"] /\ a1["paths"] = c["paths"]
      /\ a1["row"] = c["row"] /\ a1["seen"] = c["seen"]
      /\ a1["body"] = c["body"]
      /\ a1["state"] = v /\ a1["ok"] = c["ok"] /\ a1["effect"] = c["effect"]
      /\ a1["then"] = c["then"]
  BY <1>2, FieldSet
<1> HIDE DEF a1
<1>4. IsCall(a2) /\ a2["op"] = c["op"] /\ a2["paths"] = c["paths"]
      /\ a2["row"] = c["row"] /\ a2["seen"] = c["seen"]
      /\ a2["body"] = c["body"]
      /\ a2["state"] = v /\ a2["ok"] = good /\ a2["effect"] = c["effect"] /\ a2["then"] = c["then"]
  BY <1>2, <1>3, FieldSet
<1> HIDE DEF a2
<1>5. IsCall(a3) /\ a3["op"] = c["op"] /\ a3["paths"] = c["paths"]
      /\ a3["row"] = c["row"] /\ a3["seen"] = s
      /\ a3["body"] = c["body"]
      /\ a3["state"] = v /\ a3["ok"] = good /\ a3["effect"] = c["effect"] /\ a3["then"] = c["then"]
  BY <1>2, <1>4, FieldSet
<1> HIDE DEF a3
<1> QED
  BY <1>1, <1>5

-----------------------------------------------------------------------------
(* What the operators on the calls keep.                                   *)

\* Calls: each call of the whole is one of its parts', and the other way round.
LEMMA JoinAt ==
    ASSUME NEW s, NEW t, IsSeq(s), IsSeq(t)
    PROVE  /\ \A k \in DOMAIN (s \o t) :
                \/ k \in DOMAIN s /\ (s \o t)[k] = s[k]
                \/ k - Len(s) \in DOMAIN t /\ (s \o t)[k] = t[k - Len(s)] /\ k \notin DOMAIN s
           /\ \A k \in DOMAIN s : k \in DOMAIN (s \o t) /\ (s \o t)[k] = s[k]
           /\ \A k \in DOMAIN t : Len(s) + k \in DOMAIN (s \o t) /\ (s \o t)[Len(s) + k] = t[k]
<1> DEFINE n == Len(s)
           m == Len(t)
           u == s \o t
<1>1. /\ n \in Nat /\ DOMAIN s = 1..n /\ m \in Nat /\ DOMAIN t = 1..m
      /\ IsSeq(u) /\ DOMAIN u = 1..(n + m)
      /\ \A k \in 1..(n + m) : u[k] = IF k <= n THEN s[k] ELSE t[k - n]
  BY SeqHas, JoinIs
<1> HIDE DEF n, m, u
<1>2. ASSUME NEW k \in DOMAIN u
      PROVE  \/ k \in DOMAIN s /\ u[k] = s[k]
             \/ k - n \in DOMAIN t /\ u[k] = t[k - n] /\ k \notin DOMAIN s
  BY <1>1
<1>3. \A k \in DOMAIN s : k \in DOMAIN u /\ u[k] = s[k]
  BY <1>1
<1>4. ASSUME NEW k \in DOMAIN t PROVE n + k \in DOMAIN u /\ u[n + k] = t[k]
  <2>1. k \in Int /\ n + k \in 1..(n + m) /\ ~(n + k <= n) /\ (n + k) - n = k
    BY <1>1
  <2> QED
    BY <1>1, <2>1
<1> QED
  BY <1>2, <1>3, <1>4 DEF n, u

\* Calls: what is good of the parts is good of the whole.
LEMMA JoinKeeps ==
    ASSUME NEW s, NEW t, AllGood(s), AllGood(t)
    PROVE  /\ AllGood(s \o t)
           /\ \A op : Has(s \o t, op) <=> Has(s, op) \/ Has(t, op)
           /\ OneSave(s) /\ ~Has(t, "save") => OneSave(s \o t)
           /\ ~Has(s, "save") /\ OneSave(t) => OneSave(s \o t)
<1> DEFINE n == Len(s)
           u == s \o t
<1>1. n \in Nat /\ DOMAIN s = 1..n /\ DOMAIN t \subseteq Nat /\ IsSeq(u) /\ DOMAIN u \subseteq Nat
  <2>1. n \in Nat /\ DOMAIN s = 1..n /\ Len(t) \in Nat /\ DOMAIN t = 1..Len(t)
    BY SeqHas DEF AllGood
  <2>2. IsSeq(u) /\ DOMAIN u = 1..(n + Len(t))
    BY JoinIs DEF AllGood
  <2> QED
    BY <2>1, <2>2
<1>2. /\ \A k \in DOMAIN u : \/ k \in DOMAIN s /\ u[k] = s[k]
                             \/ k - n \in DOMAIN t /\ u[k] = t[k - n] /\ k \notin DOMAIN s
      /\ \A k \in DOMAIN s : k \in DOMAIN u /\ u[k] = s[k]
      /\ \A k \in DOMAIN t : n + k \in DOMAIN u /\ u[n + k] = t[k]
  BY JoinAt DEF AllGood
<1> HIDE DEF n, u
<1>3. AllGood(u)
  BY <1>1, <1>2 DEF AllGood
<1>4. \A op : Has(u, op) <=> Has(s, op) \/ Has(t, op)
  BY <1>2 DEF Has
<1>5. ASSUME OneSave(s), ~Has(t, "save") PROVE OneSave(u)
  BY <1>2, <1>5 DEF OneSave, Has
<1>6. ASSUME ~Has(s, "save"), OneSave(t) PROVE OneSave(u)
  <2> SUFFICES ASSUME NEW i \in DOMAIN u, NEW j \in DOMAIN u, u[i].op = "save", u[j].op = "save"
               PROVE  i = j
    BY DEF OneSave
  <2>1. i - n \in DOMAIN t /\ j - n \in DOMAIN t /\ t[i - n].op = "save" /\ t[j - n].op = "save"
    BY <1>2, <1>6 DEF Has
  <2>2. i - n = j - n
    BY <1>6, <2>1 DEF OneSave
  <2> QED
    BY <1>1, <2>2
<1> QED
  BY <1>3, <1>4, <1>5, <1>6 DEF u

\* Calls: one of them alone.
LEMMA OneKeeps ==
    ASSUME NEW c, Good(c)
    PROVE  AllGood(<<c>>) /\ OneSave(<<c>>) /\ \A op : Has(<<c>>, op) <=> c.op = op
<1> HIDE DEF Good
<1> QED
  BY OneIs DEF AllGood, OneSave, Has

\* Calls: none.
LEMMA NoneKeeps == AllGood(<<>>) /\ OneSave(<<>>) /\ \A op : ~Has(<<>>, op)
  BY NoneIs DEF AllGood, OneSave, Has

\* Calls: one more, at the end.
LEMMA AppendKeeps ==
    ASSUME NEW s, NEW c, AllGood(s), Good(c)
    PROVE  /\ AllGood(Append(s, c))
           /\ \A op : Has(Append(s, c), op) <=> Has(s, op) \/ c.op = op
           /\ OneSave(s) /\ (Has(s, "save") => c.op # "save") => OneSave(Append(s, c))
<1>1. Append(s, c) = s \o <<c>>
  BY AppendIs DEF AllGood
<1>2. /\ AllGood(s \o <<c>>)
      /\ \A op : Has(s \o <<c>>, op) <=> Has(s, op) \/ c.op = op
      /\ OneSave(s) /\ c.op # "save" => OneSave(s \o <<c>>)
      /\ ~Has(s, "save") => OneSave(s \o <<c>>)
  BY JoinKeeps, OneKeeps
<1> QED
  BY <1>1, <1>2

\* Calls: where the calls that are left come from when the one at i is taken.
From(i, k) == IF k < i THEN k ELSE k + 1

\* Calls: those that are left are the others.
LEMMA RestAt ==
    ASSUME NEW s, IsSeq(s), NEW i \in DOMAIN s
    PROVE  /\ \A k \in DOMAIN Rest(s, i) :
                From(i, k) \in DOMAIN s /\ From(i, k) # i /\ Rest(s, i)[k] = s[From(i, k)]
           /\ \A k, l \in DOMAIN Rest(s, i) : From(i, k) = From(i, l) => k = l
           /\ \A j \in DOMAIN s : j # i => \E k \in DOMAIN Rest(s, i) : Rest(s, i)[k] = s[j]
<1> DEFINE n == Len(s)
           r == Rest(s, i)
<1>1. /\ n \in Nat /\ DOMAIN s = 1..n /\ DOMAIN r = 1..(n - 1)
      /\ \A k \in 1..(n - 1) : r[k] = IF k < i THEN s[k] ELSE s[k + 1]
  BY SeqHas, RestIs
<1> HIDE DEF n, r
<1>2. \A k \in DOMAIN r : From(i, k) \in DOMAIN s /\ From(i, k) # i /\ r[k] = s[From(i, k)]
  BY <1>1 DEF From
<1>3. \A k, l \in DOMAIN r : From(i, k) = From(i, l) => k = l
  BY <1>1 DEF From
<1>4. ASSUME NEW j \in DOMAIN s, j # i PROVE \E k \in DOMAIN r : r[k] = s[j]
  <2>1. CASE j < i
    <3>1. j \in DOMAIN r /\ r[j] = s[j]
      BY <1>1, <2>1
    <3> QED
      BY <3>1
  <2>2. CASE ~(j < i)
    <3>1. j - 1 \in DOMAIN r /\ ~(j - 1 < i) /\ (j - 1) + 1 = j
      BY <1>1, <1>4, <2>2
    <3>2. r[j - 1] = s[j]
      BY <1>1, <3>1
    <3> QED
      BY <3>1, <3>2
  <2> QED
    BY <2>1, <2>2
<1> QED
  BY <1>2, <1>3, <1>4 DEF r

\* Calls: one less.
LEMMA RestKeeps ==
    ASSUME NEW s, AllGood(s), NEW i \in DOMAIN s
    PROVE  /\ AllGood(Rest(s, i))
           /\ \A op : Has(Rest(s, i), op) => Has(s, op)
           /\ \A op : s[i].op # op => (Has(Rest(s, i), op) <=> Has(s, op))
           /\ OneSave(s) => OneSave(Rest(s, i))
           /\ OneSave(s) /\ s[i].op = "save" => ~Has(Rest(s, i), "save")
<1> DEFINE r == Rest(s, i)
<1>1. IsSeq(r)
  BY RestIs DEF AllGood
<1>2. /\ \A k \in DOMAIN r : From(i, k) \in DOMAIN s /\ From(i, k) # i /\ r[k] = s[From(i, k)]
      /\ \A k, l \in DOMAIN r : From(i, k) = From(i, l) => k = l
      /\ \A j \in DOMAIN s : j # i => \E k \in DOMAIN r : r[k] = s[j]
  BY RestAt DEF AllGood
<1> HIDE DEF r
<1>3. AllGood(r)
  BY <1>1, <1>2 DEF AllGood
<1>4. \A op : Has(r, op) => Has(s, op)
  BY <1>2 DEF Has
<1>5. ASSUME NEW op, s[i].op # op, Has(s, op) PROVE Has(r, op)
  <2>1. PICK j \in DOMAIN s : s[j].op = op
    BY <1>5 DEF Has
  <2>2. PICK k \in DOMAIN r : r[k] = s[j]
    BY <1>2, <1>5, <2>1
  <2> QED
    BY <2>1, <2>2 DEF Has
<1>6. OneSave(s) => OneSave(r)
  BY <1>2 DEF OneSave
<1>7. OneSave(s) /\ s[i].op = "save" => ~Has(r, "save")
  BY <1>2 DEF OneSave, Has
<1> QED
  BY <1>3, <1>4, <1>5, <1>6, <1>7 DEF r

\* Calls: those of a query for what a form or a page offers.
LEMMA FetchKeeps ==
    ASSUME NEW paths
    PROVE  /\ AllGood(Fetch(paths)) /\ ~Has(Fetch(paths), "save") /\ ~Has(Fetch(paths), "batch")
           /\ OneSave(Fetch(paths))
<1>1. Good(Call("fetch", paths)) /\ Call("fetch", paths).op = "fetch"
  BY CallIs DEF Good
<1> HIDE DEF Call
<1>2. CASE paths = {}
  BY <1>2, NoneKeeps DEF Fetch
<1>3. CASE paths # {}
  <2>1. Fetch(paths) = <<Call("fetch", paths)>>
    BY <1>3 DEF Fetch
  <2> QED
    BY <1>1, <2>1, OneKeeps
<1> QED
  BY <1>2, <1>3

\* Calls: a reload drops at most a list and adds one.
LEMMA ReloadedKeeps ==
    ASSUME NEW s, AllGood(s)
    PROVE  /\ AllGood(Reloaded(s))
           /\ Has(Reloaded(s), "save") <=> Has(s, "save")
           /\ Has(Reloaded(s), "batch") <=> Has(s, "batch")
           /\ OneSave(s) => OneSave(Reloaded(s))
<1> DEFINE lists == {i \in DOMAIN s : s[i].op = "list"}
           rest == IF P.own \/ lists = {} THEN s ELSE Rest(s, CHOOSE i \in lists : TRUE)
<1>1. Good(List) /\ List.op = "list"
  BY CallIs DEF Good, List
<1>2. /\ AllGood(rest)
      /\ Has(rest, "save") <=> Has(s, "save")
      /\ Has(rest, "batch") <=> Has(s, "batch")
      /\ OneSave(s) => OneSave(rest)
  <2>1. CASE P.own \/ lists = {}
    BY <2>1
  <2>2. CASE ~(P.own \/ lists = {})
    <3>1. PICK i \in lists : i = CHOOSE j \in lists : TRUE
      BY <2>2
    <3>2. rest = Rest(s, i) /\ i \in DOMAIN s /\ s[i].op = "list"
      BY <2>2, <3>1
    <3> HIDE DEF rest
    <3> QED
      BY <3>2, RestKeeps
  <2> QED
    BY <2>1, <2>2
<1>3. Reloaded(s) = Append(rest, List)
  BY DEF Reloaded
<1> HIDE DEF rest
<1> QED
  BY <1>1, <1>2, <1>3, AppendKeeps

-----------------------------------------------------------------------------
(* The steps.                                                              *)

\* What a step must leave, with the page as it was.
LEMMA StepIs ==
    ASSUME UNCHANGED <<page, user>>, Types', Marks(form'), copied' => P.copy # {},
           AllGood(calls'),
           lost' = 0 /\ left' = {} =>
             /\ confirmLoading' <=> P.awaited /\ Has(calls', "save")
             /\ dialog'.state = "running" => Has(calls', "batch")
             /\ P.awaited => OneSave(calls')
    PROVE  IInv'
<1>1. P' = P
  BY DEF P
<1>2. Marks(form)' /\ (copied => P.copy # {})'
  BY <1>1 DEF Marks, Owns, Forms
<1>3. AllGood(calls)'
  BY <1>1 DEF AllGood, Good, Sound, Owns, IsCall, IsSeq, Elements, Forms
<1>4. Waits'
  BY <1>1 DEF Waits, Has, OneSave
<1> QED
  BY <1>2, <1>3, <1>4 DEF IInv

\* A step that leaves the form alone and saves nothing.
LEMMA Elsewhere ==
    ASSUME IInv, UNCHANGED <<page, user, formVars>>, Types', AllGood(calls'),
           lost' = 0 /\ left' = {} =>
             /\ lost = 0 /\ left = {}
             /\ Has(calls', "save") <=> Has(calls, "save")
             /\ OneSave(calls) => OneSave(calls')
             /\ dialog'.state = "running" => Has(calls', "batch")
    PROVE  IInv'
<1>1. Marks(form') /\ (copied' => P.copy # {})
  BY DEF IInv, formVars
<1>2. lost' = 0 /\ left' = {} =>
        /\ confirmLoading' <=> P.awaited /\ Has(calls', "save")
        /\ dialog'.state = "running" => Has(calls', "batch")
        /\ P.awaited => OneSave(calls')
  BY DEF IInv, Waits, formVars
<1> QED
  BY <1>1, <1>2, StepIs

\* Press, MoreOps: the bound holds.
LEMMA Pressed ==
    ASSUME IInv, NEW gate, Press(gate)
    PROVE  /\ UNCHANGED <<page, user, rows, table, left, lost>>
           /\ ops' \in 0..MaxOps(page', user') /\ lost' \in 0..MaxLost
<1>1. ops \in Nat /\ lost \in Nat /\ MaxOps(page, user) \in Nat
  BY PagesAssumption DEF IInv, Types, Users
<1>2. ops + 1 \in 0..MaxOps(page, user)
  BY <1>1 DEF Press, MoreOps
<1> QED
  BY <1>2 DEF Press, IInv, Types

\* Get: the request for a row is well formed.
LEMMA GetIs ==
    ASSUME NEW r \in Rows
    PROVE  Good(Get(r)) /\ Get(r).op = "get" /\ Get(r).paths = {P.fetch}
<1> DEFINE c == Call("get", {P.fetch})
           d == [c EXCEPT !.row = r]
<1>1. /\ IsCall(c) /\ c.op = "get" /\ c.paths = {P.fetch} /\ DOMAIN c.seen = {}
      /\ c.body = Blank /\ Blank \in Forms
  BY CallIs
<1> HIDE DEF c
<1>2. /\ IsCall(d) /\ d.op = "get" /\ d.paths = {P.fetch} /\ d.row = r /\ DOMAIN d.seen = {}
      /\ d.body \in Forms
  BY <1>1, ForRow
<1>3. Get(r) = d
  BY DEF Get, c
<1> HIDE DEF d
<1> QED
  BY <1>2, <1>3 DEF Good

\* Hidden, a form has the values it had or none.
LEMMA HiddenIs ==
    ASSUME NEW f, Marks(f)
    PROVE  Marks(Hidden(f)) /\ Marks(Blank) /\ Marks(Hidden(Blank))
<1>1. Marks(Blank)
  BY DEF Marks, Blank, Forms
<1>2. ASSUME NEW g, Marks(g), P.modal.hidden = "defaults" PROVE Marks(Preset(g))
  <2>1. Preset(g) = [id |-> g.id, of |-> g.of, preset |-> g.of # {}]
    BY <1>2 DEF Preset, Marks, Forms
  <2> QED
    BY <1>2, <2>1 DEF Marks, Owns, Forms
<1>3. ASSUME NEW g, Marks(g) PROVE Marks(Hidden(g))
  BY <1>1, <1>2, <1>3 DEF Hidden
<1> QED
  BY <1>1, <1>3

\* ShowModal, whatever was pressed: the form keeps what it holds.
LEMMA ShowModalKeeps ==
    ASSUME IInv, NEW key \in Rows \cup {0}, NEW copy \in BOOLEAN, ShowModal(key, copy),
           copy => P.copy # {}, NEW gate, Press(gate)
    PROVE  IInv'
<1> DEFINE fields == Fetch(P.modal.fields)
           asks == key # 0 /\ P.fetch # <<>>
           known == P.modal.ask = "query" /\ \E i \in DOMAIN calls : calls[i].op = "get"
           get == IF asks /\ ~known THEN <<Get(key)>> ELSE <<>>
<1>1. Types'
  <2>1. 0 \in Rows \cup {0}
    OBVIOUS
  <2> QED
    BY Pressed DEF IInv, Types, ShowModal, IsDialog
<1>2. Marks(form')
  <2>1. CASE key = 0 /\ P.modal.presets
    <3>1. Marks(Preset(form))
      <4>1. Preset(form) = [id |-> form.id, of |-> form.of, preset |-> form.of # {}]
        BY DEF Preset, IInv, Marks, Forms
      <4> QED
        BY <2>1, <4>1 DEF IInv, Marks, Owns, Forms
    <3> QED
      BY <2>1, <3>1 DEF ShowModal
  <2>2. CASE ~(key = 0 /\ P.modal.presets)
    <3>1. form' = form
      BY <2>2 DEF ShowModal
    <3> QED
      BY <3>1 DEF IInv
  <2> QED
    BY <2>1, <2>2
<1>3. /\ AllGood(get) /\ ~Has(get, "save") /\ ~Has(get, "batch")
  <2>1. asks => key \in Rows
    OBVIOUS
  <2> QED
    BY <2>1, GetIs, OneKeeps, NoneKeeps
<1>4. /\ AllGood(fields) /\ ~Has(fields, "save") /\ ~Has(fields, "batch")
  BY FetchKeeps
<1>5. calls' = (calls \o fields) \o get /\ copied' = copy
  BY DEF ShowModal
<1>6. confirmLoading' = confirmLoading /\ dialog' = dialog
  BY DEF ShowModal
<1> HIDE DEF fields, get
<1>7. /\ AllGood(calls')
      /\ Has(calls', "save") <=> Has(calls, "save")
      /\ Has(calls', "batch") <=> Has(calls, "batch")
      /\ OneSave(calls) => OneSave(calls')
  <2>1. AllGood(calls)
    BY DEF IInv
  <2>2. /\ AllGood(calls \o fields)
        /\ Has(calls \o fields, "save") <=> Has(calls, "save")
        /\ Has(calls \o fields, "batch") <=> Has(calls, "batch")
        /\ OneSave(calls) => OneSave(calls \o fields)
    BY <1>4, <2>1, JoinKeeps
  <2> QED
    BY <1>3, <1>5, <2>2, JoinKeeps
<1>8. UNCHANGED <<page, user, left, lost>>
  BY Pressed
<1>9. lost' = 0 /\ left' = {} =>
        /\ confirmLoading' <=> P.awaited /\ Has(calls', "save")
        /\ dialog'.state = "running" => Has(calls', "batch")
        /\ P.awaited => OneSave(calls')
  BY <1>6, <1>7, <1>8 DEF IInv, Waits
<1> QED
  BY <1>1, <1>2, <1>5, <1>7, <1>8, <1>9, StepIs

\* The buttons that show the form, a copy only where there is one to make.
LEMMA ShowKeeps ==
    ASSUME IInv, New \/ \E r \in Rows : Edit(r) \/ Copy(r)
    PROVE  IInv'
<1>1. selectedRowKey \in Rows \cup {0} /\ copied \in BOOLEAN /\ (copied => P.copy # {})
  BY DEF IInv, Types
<1>2. CASE New
  BY <1>1, <1>2, ShowModalKeeps DEF New
<1>3. ASSUME NEW r \in Rows, Edit(r) PROVE IInv'
  BY <1>1, <1>3, ShowModalKeeps DEF Edit
<1>4. ASSUME NEW r \in Rows, Copy(r) PROVE IInv'
  <2>1. Shows(menus, P.copy)
    BY <1>4 DEF Copy, Press
  <2>2. P.copy # {}
    BY <2>1 DEF Shows, Anyone, hasMenu
  <2> QED
    BY <1>4, <2>2, ShowModalKeeps DEF Copy
<1> QED
  BY <1>2, <1>3, <1>4

\* Free leaves the types of what it leaves alone.
LEMMA FreeTypes ==
    ASSUME IInv, Free, visible' \in BOOLEAN, copied' \in BOOLEAN, confirmLoading' \in BOOLEAN,
           selectedRowKey' \in Rows \cup {0}, selectedRowKeys' \subseteq Rows, IsDialog(dialog')
    PROVE  /\ Types' /\ UNCHANGED <<page, user, left, lost>> /\ left = {}
  BY DEF IInv, Types, Free, IsDialog

\* Press leaves the types of what it leaves alone.
LEMMA PressTypes ==
    ASSUME IInv, NEW gate, Press(gate), UNCHANGED formVars,
           selectedRowKeys' \subseteq Rows, IsDialog(dialog')
    PROVE  /\ Types' /\ UNCHANGED <<page, user, left, lost>>
  BY Pressed DEF IInv, Types, formVars, IsDialog

\* Choose, Refocus: one more request for what the form shows.
LEMMA FillKeeps ==
    ASSUME IInv, Refocus \/ \E path \in P.modal.choices : Choose(path)
    PROVE  IInv'
<1>1. AllGood(calls) /\ IsDialog(dialog) /\ selectedRowKeys \subseteq Rows
  BY DEF IInv, Types
<1>2. ASSUME NEW path, Choose(path) PROVE IInv'
  <2>1. Good(Call("fetch", {path})) /\ Call("fetch", {path}).op = "fetch"
    BY CallIs DEF Good
  <2>2. /\ calls' = Append(calls, Call("fetch", {path}))
        /\ UNCHANGED <<selectedRowKeys, formVars, dialog>>
    BY <1>2 DEF Choose
  <2>3. Types' /\ UNCHANGED <<page, user, left, lost>>
    BY <1>1, <1>2, <2>2, FreeTypes DEF IInv, Types, Choose, formVars
  <2>4. /\ AllGood(calls')
        /\ Has(calls', "save") <=> Has(calls, "save")
        /\ Has(calls', "batch") <=> Has(calls, "batch")
        /\ OneSave(calls) => OneSave(calls')
    BY <1>1, <2>1, <2>2, AppendKeeps
  <2> QED
    BY <2>2, <2>3, <2>4, Elsewhere DEF IInv, Waits
<1>3. CASE Refocus
  <2>1. Good(Get(selectedRowKey)) /\ Get(selectedRowKey).op = "get"
    BY <1>3, GetIs DEF IInv, Types, Refocus
  <2>2. /\ calls' = Append(calls, Get(selectedRowKey))
        /\ UNCHANGED <<selectedRowKeys, formVars, dialog>>
    BY <1>3 DEF Refocus
  <2>3. Types' /\ UNCHANGED <<page, user, left, lost>>
    BY <1>1, <1>3, <2>2, PressTypes DEF Refocus
  <2>4. /\ AllGood(calls')
        /\ Has(calls', "save") <=> Has(calls, "save")
        /\ Has(calls', "batch") <=> Has(calls, "batch")
        /\ OneSave(calls) => OneSave(calls')
    BY <1>1, <2>1, <2>2, AppendKeeps
  <2> QED
    BY <2>2, <2>3, <2>4, Elsewhere DEF IInv, Waits
<1> QED
  BY <1>2, <1>3

\* Ok: what it takes from the form, and the request it sends.
Body == [form EXCEPT !.id = IF copied THEN 0 ELSE @]
Save == [Call("save", {IF Body.id # 0 THEN P.update ELSE P.create}) EXCEPT
           !.body = Body, !.row = Body.id]

\* Ok: what is saved is the row of the form, or a new one.
LEMMA SaveIs ==
    ASSUME IInv
    PROVE  /\ Good(Save) /\ Save.op = "save"
           /\ Save.paths = {IF Body.id # 0 THEN P.update ELSE P.create}
           /\ Body.id # 0 => form.id # 0
<1>1. Marks(form) /\ (copied => P.copy # {})
  BY DEF IInv
<1>2. Sound(Body) /\ (Body.id # 0 => form.id # 0)
  <2>1. Body = [id |-> IF copied THEN 0 ELSE form.id, of |-> form.of, preset |-> form.preset]
    BY <1>1 DEF Marks, Forms, Body
  <2>2. IF copied THEN Body.id = 0 /\ P.copy # {} ELSE Body.id = form.id
    BY <1>1, <2>1
  <2>3. Body \in Forms /\ Body.of = form.of /\ Body.preset = form.preset
    BY <1>1, <2>1 DEF Marks, Forms
  <2> QED
    BY <1>1, <2>2, <2>3 DEF Sound, Marks, Owns
<1> DEFINE paths == {IF Body.id # 0 THEN P.update ELSE P.create}
           c == Call("save", paths)
<1>3. IsCall(c) /\ c.op = "save" /\ c.paths = paths /\ DOMAIN c.seen = {}
  BY CallIs
<1> HIDE DEF c
<1>4. Save = OfForm(c, Body, Body.id)
  BY DEF c, OfForm, Save
<1>5. /\ IsCall(Save) /\ Save.op = c.op /\ Save.paths = c.paths /\ Save.seen = c.seen
      /\ Save.body = Body
  BY <1>3, <1>4, ForForm
<1> QED
  BY <1>2, <1>3, <1>5 DEF Good, Sound

\* Ok: the first answer is the only one the form waits for.
LEMMA OkKeeps ==
    ASSUME IInv, Ok
    PROVE  IInv'
<1>1. Marks(form) /\ (copied => P.copy # {}) /\ AllGood(calls)
  BY DEF IInv
<1>2. Good(Save) /\ Save.op = "save"
  BY SaveIs
<1>3. /\ Free /\ ~confirmLoading
      /\ UNCHANGED <<selectedRowKey, selectedRowKeys, copied, dialog>>
      /\ \/ /\ P.awaited
            /\ confirmLoading' = TRUE
            /\ form' = IF P.modal.resetsFirst THEN Blank ELSE form
            /\ calls' = Append(calls, Save)
            /\ UNCHANGED visible
         \/ /\ ~P.awaited
            /\ visible' = FALSE /\ form' = Hidden(form)
            /\ calls' = Reloaded(Append(calls, Save))
            /\ UNCHANGED confirmLoading
  BY DEF Ok, Save, Body
<1>4. Types' /\ UNCHANGED <<page, user, left, lost>> /\ left = {}
  BY <1>3, FreeTypes DEF IInv, Types
<1>5. /\ AllGood(Append(calls, Save)) /\ Has(Append(calls, Save), "save")
      /\ Has(Append(calls, Save), "batch") <=> Has(calls, "batch")
      /\ OneSave(calls) /\ ~Has(calls, "save") => OneSave(Append(calls, Save))
  BY <1>1, <1>2, AppendKeeps
<1>6. CASE P.awaited
  <2>1. /\ confirmLoading' = TRUE /\ calls' = Append(calls, Save) /\ dialog' = dialog
        /\ Marks(form') /\ copied' = copied
    BY <1>1, <1>3, <1>6, HiddenIs
  <2>2. lost' = 0 /\ left' = {} =>
          /\ Has(calls', "save") /\ OneSave(calls')
          /\ dialog'.state = "running" => Has(calls', "batch")
    BY <1>3, <1>4, <1>5, <1>6, <2>1 DEF IInv, Waits
  <2>3. lost' = 0 /\ left' = {} =>
          /\ confirmLoading' <=> P.awaited /\ Has(calls', "save")
          /\ dialog'.state = "running" => Has(calls', "batch")
          /\ P.awaited => OneSave(calls')
    BY <1>6, <2>1, <2>2, Zenon
  <2> QED
    BY <1>1, <1>4, <1>5, <2>1, <2>3, StepIs
<1>7. CASE ~P.awaited
  <2>1. /\ confirmLoading' = confirmLoading /\ calls' = Reloaded(Append(calls, Save))
        /\ dialog' = dialog /\ Marks(form') /\ copied' = copied
    BY <1>1, <1>3, <1>7, HiddenIs
  <2>2. AllGood(calls') /\ (Has(calls', "batch") <=> Has(calls, "batch"))
    BY <1>5, <2>1, ReloadedKeeps
  <2>3. lost' = 0 /\ left' = {} =>
          /\ confirmLoading' <=> P.awaited /\ Has(calls', "save")
          /\ dialog'.state = "running" => Has(calls', "batch")
          /\ P.awaited => OneSave(calls')
    BY <1>3, <1>4, <1>7, <2>1, <2>2 DEF IInv, Waits
  <2> QED
    BY <1>1, <1>4, <2>1, <2>2, <2>3, StepIs
<1> QED
  BY <1>6, <1>7

\* Cancel: the form is hidden and forgets its row.
LEMMA CancelKeeps ==
    ASSUME IInv, Cancel
    PROVE  IInv'
<1>1. /\ Free /\ visible' = FALSE /\ form' = Hidden(Blank) /\ selectedRowKey' = 0 /\ copied' = FALSE
      /\ UNCHANGED <<selectedRowKeys, confirmLoading, dialog, calls>>
  BY DEF Cancel
<1>2. Types' /\ UNCHANGED <<page, user, left, lost>> /\ left = {}
  BY <1>1, FreeTypes DEF IInv, Types
<1>3. Marks(form')
  BY <1>1, HiddenIs DEF IInv
<1>4. lost' = 0 /\ left' = {} =>
        /\ confirmLoading' <=> P.awaited /\ Has(calls', "save")
        /\ dialog'.state = "running" => Has(calls', "batch")
        /\ P.awaited => OneSave(calls')
  BY <1>1, <1>2 DEF IInv, Waits
<1>5. AllGood(calls')
  BY <1>1 DEF IInv
<1> QED
  BY <1>1, <1>2, <1>3, <1>4, <1>5, StepIs

\* ActOn: the request it sends.
Button(act, r) ==
  [Call("act", {act.path}) EXCEPT !.row = r, !.rows = {r}, !.effect = act.effect, !.then = act.then,
                                  !.seen = IF act.then = "rows" THEN table ELSE <<>>]

\* ActOn: a test takes the rows along that are shown.
LEMMA ButtonIs ==
    ASSUME IInv, NEW act, NEW r
    PROVE  LET d == Button(act, r) IN
           /\ Good(d) /\ d.op = "act" /\ d.paths = {act.path}
           /\ d.effect = act.effect /\ d.then = act.then
<1> DEFINE c == Call("act", {act.path})
           seen == IF act.then = "rows" THEN table ELSE <<>>
           d == Button(act, r)
<1>1. IsCall(c) /\ c.op = "act" /\ c.paths = {act.path} /\ c.body \in Forms
  BY CallIs
<1>2. DOMAIN seen \subseteq Rows
  BY NoneIs DEF IInv, Types
<1>3. d = OfButton(c, r, {r}, act.effect, act.then, seen)
  BY DEF OfButton, Button
<1> HIDE DEF c, d, seen
<1>4. /\ IsCall(d) /\ d.op = c.op /\ d.paths = c.paths
      /\ d.row = r /\ d.seen = seen /\ d.body = c.body
      /\ d.effect = act.effect /\ d.then = act.then
  BY <1>1, <1>3, ForButton
<1>5. Good(d)
  BY <1>1, <1>2, <1>4 DEF Good
<1> QED
  BY <1>1, <1>4, <1>5 DEF d

\* ActOn, Refresh: one more request beside the form.
LEMMA RowKeeps ==
    ASSUME IInv, Refresh \/ \E r \in Rows : \E act \in P.acts : ActOn(act, r)
    PROVE  IInv'
<1>1. AllGood(calls) /\ IsDialog(dialog) /\ selectedRowKeys \subseteq Rows
  BY DEF IInv, Types
<1>2. ASSUME NEW r \in Rows, NEW act \in P.acts, ActOn(act, r) PROVE IInv'
  <2>1. Good(Button(act, r)) /\ Button(act, r).op = "act"
    BY ButtonIs
  <2>2. calls' = Append(calls, Button(act, r)) /\ UNCHANGED <<selectedRowKeys, formVars, dialog>>
    BY <1>2 DEF ActOn, Button
  <2>3. Types' /\ UNCHANGED <<page, user, left, lost>>
    BY <1>1, <1>2, <2>2, PressTypes DEF ActOn
  <2>4. /\ AllGood(calls')
        /\ Has(calls', "save") <=> Has(calls, "save")
        /\ Has(calls', "batch") <=> Has(calls, "batch")
        /\ OneSave(calls) => OneSave(calls')
    BY <1>1, <2>1, <2>2, AppendKeeps
  <2> QED
    BY <2>2, <2>3, <2>4, Elsewhere DEF IInv, Waits
<1>3. CASE Refresh
  <2>1. calls' = Reloaded(calls) /\ UNCHANGED <<selectedRowKeys, formVars, dialog>>
    BY <1>3 DEF Refresh
  <2>2. Types' /\ UNCHANGED <<page, user, left, lost>>
    BY <1>1, <1>3, <2>1, PressTypes DEF Refresh
  <2> QED
    BY <1>1, <2>1, <2>2, ReloadedKeeps, Elsewhere DEF IInv, Waits
<1> QED
  BY <1>2, <1>3

\* BatchCall: the request of a batch is well formed.
LEMMA BatchCallIs ==
    ASSUME NEW b, NEW keys
    PROVE  LET d == BatchCall(b, keys) IN
           /\ Good(d) /\ d.op = "batch" /\ d.paths = {b.path}
           /\ d.effect = b.effect /\ d.then = b.after
<1> DEFINE c == Call("batch", {b.path})
           d == [c EXCEPT !.rows = keys, !.effect = b.effect, !.then = b.after]
<1>1. IsCall(c) /\ c.op = "batch" /\ c.paths = {b.path} /\ DOMAIN c.seen = {} /\ c.body \in Forms
  BY CallIs
<1> HIDE DEF c
<1>2. /\ IsCall(d) /\ d.op = "batch" /\ d.paths = {b.path} /\ DOMAIN d.seen = {}
      /\ d.body \in Forms /\ d.effect = b.effect /\ d.then = b.after
  <2>1. IsCall(d) /\ d.op = c.op /\ d.paths = c.paths
        /\ d.row = c.row /\ d.seen = c.seen /\ d.body = c.body
        /\ d.effect = b.effect /\ d.then = b.after
    <3>1. d = OfBatch(c, keys, b.effect, b.after)
      BY DEF OfBatch
    <3> HIDE DEF d
    <3> QED
      BY <1>1, <3>1, ForBatch
  <2> HIDE DEF d
  <2> QED
    BY <1>1, <2>1
<1>3. BatchCall(b, keys) = d
  BY DEF BatchCall, c
<1> HIDE DEF d
<1> QED
  BY <1>2, <1>3 DEF Good

\* Over: a batch is over rows.
LEMMA OverIs ==
    ASSUME IInv, NEW b
    PROVE  Over(b) \subseteq Rows /\ Cardinality(Over(b)) \in Nat
<1>1. Over(b) \subseteq Rows
  BY DEF Over, IInv, Types
<1>2. IsFiniteSet(Over(b))
  BY <1>1, FS_Subset, PagesAssumption
<1> QED
  BY <1>1, <1>2, FS_CardinalityType

\* The selection, and the dialog of a batch until it is confirmed.
LEMMA DialogKeeps ==
    ASSUME IInv, \/ CancelBatch \/ ConfirmBatch
                 \/ \E keys \in SUBSET Rows : Select(keys)
                 \/ \E b \in P.batches : AskBatch(b)
    PROVE  IInv'
<1>1. AllGood(calls) /\ IsDialog(dialog) /\ selectedRowKeys \subseteq Rows
  BY DEF IInv, Types
<1>2. CASE CancelBatch
  <2>1. IsDialog(Closed) /\ Closed.state = "closed"
    BY DEF IsDialog, Closed
  <2>2. /\ Free /\ dialog' = Closed /\ UNCHANGED <<selectedRowKeys, formVars, calls>>
    BY <1>2 DEF CancelBatch
  <2>3. Types' /\ UNCHANGED <<page, user, left, lost>>
    BY <1>1, <2>1, <2>2, FreeTypes DEF IInv, Types, formVars
  <2> QED
    BY <1>1, <2>1, <2>2, <2>3, Elsewhere
<1>3. CASE ConfirmBatch
  <2> DEFINE c == BatchCall(dialog.batch, dialog.keys)
  <2>1. /\ Free /\ dialog' = [dialog EXCEPT !.state = "running"] /\ calls' = Append(calls, c)
        /\ UNCHANGED <<selectedRowKeys, formVars>>
    BY <1>3 DEF ConfirmBatch
  <2>2. IsDialog(dialog')
    <3>1. dialog' = [state |-> "running", batch |-> dialog.batch, keys |-> dialog.keys]
      BY <1>1, <2>1 DEF IsDialog
    <3> QED
      BY <1>1, <3>1 DEF IsDialog
  <2>3. Good(c) /\ c.op = "batch"
    BY BatchCallIs
  <2> HIDE DEF c
  <2>4. Types' /\ UNCHANGED <<page, user, left, lost>>
    BY <1>1, <2>1, <2>2, FreeTypes DEF IInv, Types, formVars
  <2>5. /\ AllGood(calls') /\ Has(calls', "batch")
        /\ Has(calls', "save") <=> Has(calls, "save")
        /\ OneSave(calls) => OneSave(calls')
    BY <1>1, <2>1, <2>3, AppendKeeps
  <2> QED
    BY <2>1, <2>4, <2>5, Elsewhere DEF Free
<1>4. ASSUME NEW keys \in SUBSET Rows, Select(keys) PROVE IInv'
  <2>1. /\ Free /\ selectedRowKeys' = keys /\ UNCHANGED <<formVars, dialog, calls>>
    BY <1>4 DEF Select
  <2>2. Types' /\ UNCHANGED <<page, user, left, lost>>
    BY <1>1, <2>1, FreeTypes DEF IInv, Types, formVars
  <2> QED
    BY <1>1, <2>1, <2>2, Elsewhere DEF IInv, Waits
<1>5. ASSUME NEW b \in P.batches, AskBatch(b) PROVE IInv'
  <2>1. /\ dialog' = [state |-> "open", batch |-> b, keys |-> Over(b)]
        /\ UNCHANGED <<selectedRowKeys, formVars, calls>> /\ Press(b.gate)
    BY <1>5 DEF AskBatch
  <2>2. IsDialog(dialog') /\ dialog'.state = "open"
    BY <2>1, OverIs DEF IsDialog
  <2>3. Types' /\ UNCHANGED <<page, user, left, lost>>
    BY <1>1, <2>1, <2>2, PressTypes
  <2> QED
    BY <1>1, <2>1, <2>2, <2>3, Elsewhere
<1> QED
  BY <1>2, <1>3, <1>4, <1>5

\* StartBatch: the test of one row.
RowTest(b, r) ==
  [Call("act", {b.path}) EXCEPT !.row = r, !.rows = {r}, !.then = "rows", !.seen = table]

\* StartBatch: a test takes the rows along that are shown.
LEMMA TestIs ==
    ASSUME IInv, NEW b, NEW r
    PROVE  LET d == RowTest(b, r) IN Good(d) /\ d.op = "act" /\ d.paths = {b.path}
<1> DEFINE c == Call("act", {b.path})
           d == RowTest(b, r)
<1>1. IsCall(c) /\ c.op = "act" /\ c.paths = {b.path} /\ c.body \in Forms
  BY CallIs
<1>2. d = OfTest(c, r, {r}, "rows", table)
  BY DEF OfTest, RowTest
<1> HIDE DEF c, d
<1>3. /\ IsCall(d) /\ d.op = c.op /\ d.paths = c.paths /\ d.row = r /\ d.seen = table
      /\ d.body = c.body
  BY <1>1, <1>2, ForTest
<1>4. DOMAIN table \subseteq Rows
  BY DEF IInv, Types
<1>5. Good(d)
  BY <1>1, <1>3, <1>4 DEF Good
<1> QED
  BY <1>1, <1>3, <1>5 DEF d

\* StartBatch: a request of the batch, or one for each row.
LEMMA StartBatchKeeps ==
    ASSUME IInv, NEW b \in P.batches, StartBatch(b)
    PROVE  IInv'
<1> DEFINE n == Cardinality(Over(b))
           tests == [i \in 1..n |-> RowTest(b, SetToSeq(Over(b))[i])]
           c == BatchCall(b, Over(b))
<1>1. /\ AllGood(calls) /\ IsDialog(dialog)
      /\ selectedRowKeys \subseteq Rows /\ DOMAIN table \subseteq Rows
  BY DEF IInv, Types
<1>2. \A r : Good(RowTest(b, r)) /\ RowTest(b, r).op = "act"
  BY TestIs
<1>3. n \in Nat
  BY OverIs
<1> HIDE DEF n
<1>4. AllGood(tests) /\ ~Has(tests, "save") /\ ~Has(tests, "batch")
  <2>1. tests = [i \in 1..n |-> tests[i]] /\ \A i \in 1..n : \E r : tests[i] = RowTest(b, r)
    OBVIOUS
  <2> HIDE DEF tests
  <2>2. IsSeq(tests) /\ DOMAIN tests = 1..n
    BY <1>3, <2>1, SeqIs
  <2>3. \A i \in 1..n : Good(tests[i]) /\ tests[i].op = "act"
    BY <1>2, <2>1
  <2> QED
    BY <2>2, <2>3 DEF AllGood, Has
<1>5. Good(c) /\ c.op = "batch"
  BY BatchCallIs
<1>6. /\ Press(b.gate) /\ UNCHANGED <<formVars, dialog>>
      /\ \/ calls' = calls \o tests /\ selectedRowKeys' = {}
         \/ calls' = Append(calls, c) /\ UNCHANGED selectedRowKeys
  BY DEF StartBatch, tests, RowTest, n
<1> HIDE DEF tests, c
<1>7. Types' /\ UNCHANGED <<page, user, left, lost>>
  BY <1>1, <1>6, PressTypes
<1>8. /\ AllGood(calls')
      /\ Has(calls', "save") <=> Has(calls, "save")
      /\ Has(calls, "batch") => Has(calls', "batch")
      /\ OneSave(calls) => OneSave(calls')
  <2>1. CASE calls' = calls \o tests
    BY <1>1, <1>4, <2>1, JoinKeeps
  <2>2. CASE calls' = Append(calls, c)
    BY <1>1, <1>5, <2>2, AppendKeeps
  <2> QED
    BY <1>6, <2>1, <2>2
<1> QED
  BY <1>6, <1>7, <1>8, Elsewhere DEF IInv, Waits

-----------------------------------------------------------------------------
(* The server.                                                             *)

\* Answered: a request that is served stays what it was, with an answer.
LEMMA AnsweredKeeps ==
    ASSUME AllGood(calls), NEW i \in DOMAIN calls, NEW good, NEW seen, DOMAIN seen \subseteq Rows,
           Answered(i, good, seen)
    PROVE  /\ AllGood(calls') /\ (OneSave(calls) => OneSave(calls'))
           /\ \A op : Has(calls', op) <=> Has(calls, op)
<1> DEFINE n == Len(calls)
           d == OfAnswer(calls[i], "done", good, seen)
<1>1. n \in Nat /\ DOMAIN calls = 1..n /\ calls = [k \in 1..n |-> calls[k]] /\ Good(calls[i])
  BY SeqHas DEF AllGood
<1>2. calls' = [calls EXCEPT ![i] = d]
  BY DEF Answered, OfAnswer
<1>3. d.op = calls[i].op /\ Good(d)
  <2>1. /\ IsCall(d) /\ d.op = calls[i].op /\ d.row = calls[i].row /\ d.seen = seen
        /\ d.body = calls[i].body
    BY <1>1, ForAnswer DEF Good
  <2> HIDE DEF d
  <2> QED
    BY <1>1, <2>1 DEF Good
<1> HIDE DEF d, n
<1>4. calls' = [k \in 1..n |-> IF k = i THEN d ELSE calls[k]]
  BY <1>1, <1>2
<1>5. calls' = [k \in 1..n |-> calls'[k]]
  BY <1>4
<1>6. IsSeq(calls') /\ DOMAIN calls' = 1..n
  BY <1>1, <1>5, SeqIs
<1>7. \A k \in 1..n : calls'[k].op = calls[k].op /\ (Good(calls[k]) => Good(calls'[k]))
  BY <1>1, <1>3, <1>4
<1> QED
  BY <1>1, <1>6, <1>7 DEF AllGood, Has, OneSave

\* Serve, Execute: an answer comes to be, with whatever rows.
LEMMA ServedKeeps ==
    ASSUME IInv, NEW i \in DOMAIN calls, NEW good, NEW seen, DOMAIN seen \subseteq Rows,
           Answered(i, good, seen), DOMAIN rows' \subseteq Rows, UNCHANGED <<left, Client>>
    PROVE  IInv'
<1>1. AllGood(calls)
  BY DEF IInv
<1>2. Types'
  BY DEF IInv, Types, Client, formVars, IsDialog
<1>3. /\ AllGood(calls') /\ (OneSave(calls) => OneSave(calls'))
      /\ \A op : Has(calls', op) <=> Has(calls, op)
  BY <1>1, AnsweredKeeps
<1>4. UNCHANGED <<page, user, formVars, dialog, left, lost>>
  BY DEF Client
<1> QED
  BY <1>2, <1>3, <1>4, Elsewhere DEF IInv, Waits

\* Results, Remnants: whatever a request makes of the rows, they are rows.
LEMMA ResultsAre ==
    ASSUME DOMAIN rows \subseteq Rows, NEW c, NEW s \in Results(c) \cup Remnants(c)
    PROVE  DOMAIN s \subseteq Rows
<1> DEFINE updated == {[r \in DOMAIN rows |-> rows[r] + IF r = c.row THEN 1 ELSE 0]}
           made    == {[t \in DOMAIN rows \cup {r} |-> IF t = r THEN 0 ELSE rows[t]] :
                         r \in Rows \ DOMAIN rows}
           deleted == {[r \in DOMAIN rows \ c.rows |-> rows[r]]}
           changed == {Changed(c)}
<1>1. \A t \in updated : DOMAIN t \subseteq Rows
  OBVIOUS
<1>2. \A t \in made : DOMAIN t \subseteq Rows
  OBVIOUS
<1>3. \A t \in deleted : DOMAIN t \subseteq Rows
  OBVIOUS
<1>4. \A t \in changed : DOMAIN t \subseteq Rows
  BY DEF Changed
<1>5. \A t \in {rows} : DOMAIN t \subseteq Rows
  OBVIOUS
<1>6. ASSUME s \in Remnants(c) PROVE DOMAIN s \subseteq Rows
  BY <1>6 DEF Remnants
<1>7. ASSUME s \in Results(c)
      PROVE  s \in updated \cup made \cup deleted \cup changed \cup {rows}
  <2>1. Results(c) = CASE c.op = "save" /\ c.row # 0 -> updated
                       [] (c.op = "save" /\ c.row = 0) \/ c.effect = "import" -> made
                       [] c.effect = "delete" -> deleted
                       [] c.effect = "change" -> changed
                       [] OTHER -> {rows}
    BY DEF Results
  <2> HIDE DEF updated, made, deleted, changed
  <2> QED
    BY <1>7, <2>1
<1> HIDE DEF updated, made, deleted, changed
<1> QED
  BY <1>1, <1>2, <1>3, <1>4, <1>5, <1>6, <1>7

\* Rest: a request is taken, which leaves the form alone.
LEMMA TakenKeeps ==
    ASSUME IInv, NEW i \in DOMAIN calls,
           calls' = Rest(calls, i) \/ calls' = Reloaded(Rest(calls, i)),
           UNCHANGED <<page, user, formVars>>, Types',
           lost' = 0 /\ left' = {} =>
             /\ lost = 0 /\ left = {} /\ calls[i].op # "save"
             /\ dialog'.state = "running" => dialog.state = "running" /\ calls[i].op # "batch"
    PROVE  IInv'
<1> DEFINE r == Rest(calls, i)
<1>1. AllGood(calls)
  BY DEF IInv
<1>2. /\ AllGood(r)
      /\ \A op : calls[i].op # op => (Has(r, op) <=> Has(calls, op))
      /\ OneSave(calls) => OneSave(r)
  BY <1>1, RestKeeps
<1> HIDE DEF r
<1>3. /\ AllGood(calls')
      /\ Has(calls', "save") <=> Has(r, "save")
      /\ Has(calls', "batch") <=> Has(r, "batch")
      /\ OneSave(r) => OneSave(calls')
  BY <1>2, ReloadedKeeps DEF r
<1> QED
  BY <1>2, <1>3, Elsewhere DEF IInv, Waits

\* The server answers, or sends the user away.
LEMMA ServerKeeps ==
    ASSUME IInv, NEW i \in DOMAIN calls, Server(i)
    PROVE  IInv'
<1>1. AllGood(calls) /\ DOMAIN rows \subseteq Rows /\ DOMAIN calls[i].seen \subseteq Rows
  BY DEF IInv, Types, AllGood, Good
<1>2. CASE Serve(i)
  <2> DEFINE seen == IF calls[i].op = "list" THEN rows ELSE calls[i].seen
             good == calls[i].op = "get" => calls[i].row \in DOMAIN rows
  <2>1. Answered(i, good, seen) /\ UNCHANGED <<rows, left, Client>>
    BY <1>2 DEF Serve
  <2>2. DOMAIN seen \subseteq Rows
    BY <1>1
  <2> HIDE DEF seen, good
  <2> QED
    BY <1>1, <2>1, <2>2, ServedKeeps
<1>3. CASE ServeFetch(i)
  <2>1. calls[i].op = "fetch" /\ calls' = Rest(calls, i) /\ UNCHANGED <<rows, left, Client>>
    BY <1>3 DEF ServeFetch
  <2>2. Types' /\ UNCHANGED <<page, user, formVars, dialog, left, lost>>
    BY <2>1 DEF IInv, Types, Client, formVars, IsDialog
  <2> QED
    BY <2>1, <2>2, TakenKeeps
<1>4. CASE Execute(i)
  <2>1. PICK good \in BOOLEAN : Answered(i, good, calls[i].seen)
    BY <1>4 DEF Execute
  <2>2. rows' \in Results(calls[i]) \cup Remnants(calls[i])
    BY <1>4 DEF Execute
  <2>3. DOMAIN rows' \subseteq Rows
    BY <1>1, <2>2, ResultsAre
  <2>4. UNCHANGED <<left, Client>>
    BY <1>4 DEF Execute
  <2> QED
    BY <1>1, <2>1, <2>3, <2>4, ServedKeeps
<1>5. CASE Deny(i)
  <2>1. left' # {} /\ calls' = <<>> /\ UNCHANGED <<rows, Client>>
    BY <1>5 DEF Deny
  <2>2. Types' /\ UNCHANGED <<page, user, formVars>>
    BY <2>1 DEF IInv, Types, Client, formVars, IsDialog
  <2> QED
    BY <2>1, <2>2, NoneKeeps, Elsewhere
<1> QED
  BY <1>2, <1>3, <1>4, <1>5 DEF Server

-----------------------------------------------------------------------------
(* The handlers.                                                           *)

\* GetAnswer: the form gets the row that was asked for.
LEMMA GetAnswerKeeps ==
    ASSUME IInv, NEW i \in DOMAIN calls, GetAnswer(i)
    PROVE  IInv'
<1>1. AllGood(calls) /\ Good(calls[i])
  BY DEF IInv, AllGood
<1>2. /\ calls[i].op = "get" /\ calls' = Rest(calls, i)
      /\ UNCHANGED <<page, user, rows, left, ops, lost>>
      /\ UNCHANGED <<table, selectedRowKeys, selectedRowKey, visible, copied, confirmLoading,
                     dialog>>
  BY DEF GetAnswer, Handle
<1>3. Types'
  BY <1>2 DEF IInv, Types, IsDialog
<1>4. Marks(form')
  <2>1. CASE calls[i].ok
    <3>1. form' \in Merged(form, calls[i].row) /\ calls[i].row \in Rows
      BY <1>1, <1>2, <2>1 DEF GetAnswer, Good
    <3>2. form.of \subseteq Rows /\ 0 \notin Rows
      BY PagesAssumption DEF IInv, Marks, Forms
    <3>3. PICK kept \in IF P.modal.partial THEN SUBSET form.of ELSE {{}} :
             form' = [id |-> calls[i].row, of |-> {calls[i].row} \cup kept, preset |-> FALSE]
      BY <3>1 DEF Merged
    <3> QED
      BY <3>1, <3>2, <3>3 DEF Marks, Owns, Forms
  <2>2. CASE ~calls[i].ok
    BY <2>2 DEF GetAnswer, IInv
  <2> QED
    BY <2>1, <2>2
<1>5. /\ AllGood(calls') /\ (OneSave(calls) => OneSave(calls'))
      /\ Has(calls', "save") <=> Has(calls, "save")
      /\ Has(calls', "batch") <=> Has(calls, "batch")
  BY <1>1, <1>2, RestKeeps
<1>6. lost' = 0 /\ left' = {} =>
        /\ confirmLoading' <=> P.awaited /\ Has(calls', "save")
        /\ dialog'.state = "running" => Has(calls', "batch")
        /\ P.awaited => OneSave(calls')
  BY <1>2, <1>5 DEF IInv, Waits
<1>7. copied' => P.copy # {}
  BY <1>2 DEF IInv
<1> QED
  BY <1>2, <1>3, <1>4, <1>5, <1>6, <1>7, StepIs

\* SaveAnswer: the button is given back when the only request it waits for is
\* answered.
LEMMA SaveAnswerKeeps ==
    ASSUME IInv, NEW i \in DOMAIN calls, SaveAnswer(i)
    PROVE  IInv'
<1> DEFINE r == Rest(calls, i)
<1>1. AllGood(calls) /\ Marks(form)
  BY DEF IInv
<1>2. /\ calls[i].op = "save" /\ P.awaited /\ calls' = Reloaded(r) /\ confirmLoading' = FALSE
      /\ UNCHANGED <<page, user, rows, left, ops, lost, table, selectedRowKeys, dialog>>
      /\ form' = form \/ form' = Hidden(form)
      /\ visible' \in {FALSE, visible} /\ selectedRowKey' \in {0, selectedRowKey}
      /\ copied' \in {FALSE, copied}
  BY DEF SaveAnswer, Handle
<1>3. Types'
  BY <1>2 DEF IInv, Types, IsDialog
<1>4. Marks(form') /\ (copied' => P.copy # {})
  <2>1. Marks(form')
    BY <1>1, <1>2, HiddenIs
  <2>2. copied' => copied
    BY <1>2, Zenon
  <2> QED
    BY <2>1, <2>2 DEF IInv
<1>5. /\ AllGood(r) /\ (Has(r, "batch") <=> Has(calls, "batch"))
      /\ OneSave(calls) => OneSave(r) /\ ~Has(r, "save")
  BY <1>1, <1>2, RestKeeps
<1> HIDE DEF r
<1>6. /\ AllGood(calls') /\ (OneSave(r) => OneSave(calls'))
      /\ Has(calls', "save") <=> Has(r, "save")
      /\ Has(calls', "batch") <=> Has(r, "batch")
  BY <1>2, <1>5, ReloadedKeeps
<1>7. lost' = 0 /\ left' = {} =>
        /\ confirmLoading' <=> P.awaited /\ Has(calls', "save")
        /\ dialog'.state = "running" => Has(calls', "batch")
        /\ P.awaited => OneSave(calls')
  BY <1>2, <1>5, <1>6 DEF IInv, Waits
<1> QED
  BY <1>2, <1>3, <1>4, <1>6, <1>7, StepIs

\* GrantAnswer: the form was not waiting.
LEMMA GrantAnswerKeeps ==
    ASSUME IInv, NEW i \in DOMAIN calls, GrantAnswer(i)
    PROVE  IInv'
<1>1. AllGood(calls)
  BY DEF IInv
<1>2. /\ calls[i].op = "save" /\ ~P.awaited /\ calls' = Rest(calls, i)
      /\ UNCHANGED <<page, user, rows, left, ops, lost, table, selectedRowKeys, formVars, dialog>>
  BY DEF GrantAnswer, Handle
<1>3. Types'
  BY <1>2 DEF IInv, Types, formVars, IsDialog
<1>4. AllGood(calls') /\ (Has(calls', "batch") <=> Has(calls, "batch"))
  BY <1>1, <1>2, RestKeeps
<1>5. lost' = 0 /\ left' = {} =>
        /\ confirmLoading' <=> P.awaited /\ Has(calls', "save")
        /\ dialog'.state = "running" => Has(calls', "batch")
        /\ P.awaited => OneSave(calls')
  BY <1>2, <1>4 DEF IInv, Waits, formVars
<1>6. Marks(form') /\ (copied' => P.copy # {})
  BY <1>2 DEF IInv, formVars
<1> QED
  BY <1>2, <1>3, <1>4, <1>5, <1>6, StepIs

\* The answers that leave the form alone.
LEMMA AnswerKeeps ==
    ASSUME IInv, NEW i \in DOMAIN calls, Answer(i)
    PROVE  IInv'
<1>1. DOMAIN calls[i].seen \subseteq Rows
  BY DEF IInv, AllGood, Good
<1>2. CASE ListAnswer(i)
  <2>1. /\ calls[i].op = "list" /\ calls' = Rest(calls, i) /\ table' = calls[i].seen
        /\ UNCHANGED <<page, user, rows, left, ops, lost, selectedRowKeys, formVars, dialog>>
    BY <1>2 DEF ListAnswer, Handle
  <2>2. Types'
    BY <1>1, <2>1 DEF IInv, Types, formVars, IsDialog
  <2> QED
    BY <2>1, <2>2, TakenKeeps
<1>3. CASE GetAnswer(i)
  BY <1>3, GetAnswerKeeps
<1>4. CASE SaveAnswer(i)
  BY <1>4, SaveAnswerKeeps
<1>5. CASE GrantAnswer(i)
  BY <1>5, GrantAnswerKeeps
<1>6. CASE ActAnswer(i)
  <2>1. /\ calls[i].op = "act" /\ (calls' = Rest(calls, i) \/ calls' = Reloaded(Rest(calls, i)))
        /\ table' = calls[i].seen \/ table' = table
        /\ UNCHANGED <<page, user, rows, left, ops, lost, selectedRowKeys, formVars, dialog>>
    BY <1>6 DEF ActAnswer, Handle
  <2>2. Types'
    BY <1>1, <2>1 DEF IInv, Types, formVars, IsDialog
  <2> QED
    BY <2>1, <2>2, TakenKeeps
<1>7. CASE BatchAnswer(i)
  <2>1. /\ calls[i].op = "batch" /\ (calls' = Rest(calls, i) \/ calls' = Reloaded(Rest(calls, i)))
        /\ selectedRowKeys' \in {{}, selectedRowKeys}
        /\ dialog' = IF dialog.state = "running" THEN Closed ELSE dialog
        /\ UNCHANGED <<page, user, rows, left, ops, lost, table, formVars>>
    BY <1>7 DEF BatchAnswer, Handle
  <2>2. IsDialog(dialog') /\ dialog'.state # "running"
    BY <2>1 DEF IInv, Types, IsDialog, Closed
  <2>3. Types'
    BY <2>1, <2>2 DEF IInv, Types, formVars
  <2> QED
    BY <2>1, <2>2, <2>3, TakenKeeps
<1> QED
  BY <1>2, <1>3, <1>4, <1>5, <1>6, <1>7 DEF Answer

\* Lose: something may wait for ever from now on.
LEMMA LoseKeeps ==
    ASSUME IInv, NEW i \in DOMAIN calls, Lose(i)
    PROVE  IInv'
<1>1. /\ lost' = lost + 1 /\ lost < MaxLost /\ calls' = Rest(calls, i)
      /\ UNCHANGED <<page, user, rows, table, selectedRowKeys, formVars, dialog, left, ops>>
  BY DEF Lose
<1>2. lost' \in 0..MaxLost /\ lost' # 0
  BY <1>1, PagesAssumption DEF IInv, Types
<1>3. Types'
  BY <1>1, <1>2 DEF IInv, Types, formVars, IsDialog
<1> QED
  BY <1>1, <1>2, <1>3, TakenKeeps

-----------------------------------------------------------------------------
(* The theorem.                                                            *)

\* The page opens with an empty form and asks for its rows.
LEMMA InitKeeps == Init => IInv
<1> SUFFICES ASSUME Init PROVE IInv
  OBVIOUS
<1>1. page \in Shown /\ user \in Users /\ MaxOps(page, user) \in Nat /\ MaxLost \in Nat
  BY PagesAssumption DEF Init, UsersOf, Users
<1>2. IsDialog(dialog) /\ dialog.state = "closed"
  BY DEF Init, Closed, IsDialog
<1>3. Types
  <2>1. DOMAIN rows \subseteq Rows
    BY PagesAssumption DEF Init
  <2>2. DOMAIN table \subseteq Rows
    BY NoneIs DEF Init
  <2>3. ops \in 0..MaxOps(page, user) /\ lost \in 0..MaxLost
    BY <1>1 DEF Init
  <2>4. visible \in BOOLEAN /\ copied \in BOOLEAN /\ confirmLoading \in BOOLEAN
    BY DEF Init
  <2>5. selectedRowKey \in Rows \cup {0} /\ selectedRowKeys \subseteq Rows
    BY DEF Init
  <2> QED
    BY <1>1, <1>2, <2>1, <2>2, <2>3, <2>4, <2>5 DEF Types
<1>4. Marks(form) /\ ~copied /\ ~confirmLoading
  BY DEF Init, Marks, Blank, Forms
<1>5. AllGood(calls) /\ ~Has(calls, "save") /\ OneSave(calls)
  <2>1. Good(List) /\ List.op = "list"
    BY CallIs DEF Good, List
  <2>2. calls = Append(Fetch(P.opening), List)
    BY DEF Init
  <2> QED
    BY <2>1, <2>2, FetchKeeps, AppendKeeps
<1>6. Waits
  BY <1>2, <1>4, <1>5 DEF Waits
<1> QED
  BY <1>3, <1>4, <1>5, <1>6 DEF IInv

\* Every step keeps the invariant.
LEMMA NextKeeps == IInv /\ [Next]_vars => IInv'
<1> SUFFICES ASSUME IInv, [Next]_vars PROVE IInv'
  OBVIOUS
<1>1. CASE Buttons
  BY <1>1, ShowKeeps, FillKeeps, OkKeeps, CancelKeeps, RowKeeps, DialogKeeps, StartBatchKeeps
  DEF Buttons
<1>2. ASSUME NEW i \in DOMAIN calls, Server(i) \/ Answer(i) \/ Lose(i) PROVE IInv'
  BY <1>2, ServerKeeps, AnswerKeeps, LoseKeeps
<1>3. CASE UNCHANGED vars
  <2>1. UNCHANGED <<page, user, form, copied, confirmLoading, calls, dialog, left, lost>> /\ Types'
    BY <1>3 DEF vars, formVars, IInv, Types, IsDialog
  <2> QED
    BY <2>1, StepIs DEF IInv, Waits
<1> QED
  BY <1>1, <1>2, <1>3 DEF Next

\* Whatever the page, the rows and the order in which requests are served and
\* answers come, no row is saved with the values of another one (the forms of assets
\* and jobs excepted, where a field a row comes without keeps what it held), a row is
\* made of the values of another one only as a copy, and a busy form or dialog has an
\* answer to come unless a request was lost (ShowModal, handleOk and handleCancel of
\* the pages of the web client).
THEOREM PagesAreSound == Spec => []PagesInv
<1>1. Spec => []IInv
  BY InitKeeps, NextKeeps, PTL DEF Spec
<1>2. IInv => PagesInv
  BY IInvIs
<1> QED
  BY <1>1, <1>2, PTL

-----------------------------------------------------------------------------
(* The table at rest.  A page that waits for its saves and does not keep    *)
(* the rows itself reloads after every request that changes some.           *)

\* The request makes the page reload, if it succeeds.
Again(c) ==
    \/ c.op = "save"
    \/ c.op = "act" /\ c.then \in {"reload", "success"}
    \/ c.op = "batch" /\ c.then \in {"clear", "reload", "success"}

\* It is answered, and the page will reload.
Lands(c) == Again(c) /\ c.state = "done" /\ (c.ok \/ c.then # "success")

\* A request of a button changes rows only if the page will reload, a refused batch
\* too, and brings none.
Fit(c) ==
    /\ c.op \in {"act", "batch"} /\ c.effect # "none" => Again(c)
    /\ c.op = "batch" /\ c.effect # "none" => c.then # "success"
    /\ c.op = "act" => c.then # "rows"

\* The list will bring the rows there are.
Brings(c, rs) == c.op = "list" /\ (c.state = "sent" \/ c.seen = rs)

\* A table waits for one list.
OneList(cs) == \A i, j \in DOMAIN cs : cs[i].op = "list" /\ cs[j].op = "list" => i = j

\* The table shows the rows, or is on the way to show them.
Fresh(cs, rs, t) ==
    \/ \E i \in DOMAIN cs : Lands(cs[i]) \/ Brings(cs[i], rs)
    \/ ~Has(cs, "list") /\ t = rs

Told(cs, rs, t) ==
    /\ \A i \in DOMAIN cs : Fit(cs[i])
    /\ OneList(cs) /\ Fresh(cs, rs, t)

\* The page is one of those the property is about.
Settled == P.awaited /\ ~P.own

Tracked ==
    Settled =>
      /\ dialog.state = "open" => dialog.batch \in P.batches
      /\ left = {} /\ lost = 0 => Told(calls, rows, table)

\* What the pages have to be for this.
Settles(p) ==
    p.awaited /\ ~p.own =>
      /\ \A act \in p.acts : /\ act.then \in {"reload", "success"} \/ act.effect = "none"
                             /\ act.then # "rows"
      /\ \A b \in p.batches : /\ b.after \in {"clear", "reload"} \/ b.effect = "none"
                              /\ b.after # "test"

\* PageTable: a page with a table only.
LEMMA TableIs ==
    ASSUME NEW menu, NEW list
    PROVE  /\ Table(menu, list).acts = {} /\ Table(menu, list).batches = {}
           /\ Settles(Table(menu, list))
  BY DEF Table, Settles

\* PageTable: a button of a row.
LEMMA ActIs ==
    ASSUME NEW gate, NEW path, NEW effect
    PROVE  Act(gate, path, effect).then = "reload"
  BY DEF Act

\* PageTable: a page with a form, and a button to delete a row.
LEMMA CrudIs ==
    ASSUME NEW menu, NEW group, NEW new, NEW edit, NEW del, NEW modal
    PROVE  LET p == Crud(menu, group, new, edit, del, modal) IN
           /\ p.acts = {Act(del, group \o <<Id>>, "delete")} /\ p.batches = {}
           /\ Settles(p)
<1> DEFINE p == Crud(menu, group, new, edit, del, modal)
<1>1. p.acts = {Act(del, group \o <<Id>>, "delete")} /\ p.batches = {}
  BY DEF Crud, Table
<1> HIDE DEF p
<1>2. Settles(p)
  BY <1>1, ActIs DEF Settles
<1> QED
  BY <1>1, <1>2 DEF p

\* The pages with a form, and those that have one and nothing else.
LEMMA CrudsSettle ==
    /\ Settles(AccessGateway) /\ Settles(Credential) /\ Settles(LoginPolicy) /\ Settles(MyCommand)
    /\ Settles(Role) /\ Settles(Security) /\ Settles(Storage) /\ Settles(Strategy)
    /\ Settles(UserGroup)
  BY CrudIs
  DEF AccessGateway, Credential, LoginPolicy, MyCommand, Role, Security, Storage, Strategy,
      UserGroup

\* The pages with a table and nothing else.
LEMMA TablesSettle ==
    /\ Settles(AssetInfo) /\ Settles(LoginPolicyInfo) /\ Settles(StrategyInfo) /\ Settles(UserInfo)
    /\ Settles(UserGroupInfo) /\ Settles(RoleInfo) /\ Settles(MyAsset) /\ Settles(SelectingAsset)
<1>1. /\ Settles(AssetInfo) /\ Settles(LoginPolicyInfo) /\ Settles(StrategyInfo)
      /\ Settles(UserInfo) /\ Settles(UserGroupInfo)
  BY TableIs DEF AssetInfo, LoginPolicyInfo, StrategyInfo, UserInfo, UserGroupInfo
<1>2. Settles(RoleInfo)
  BY DEF RoleInfo, Table, Settles
<1>3. Settles(MyAsset)
  BY DEF MyAsset, Table, Settles
<1>4. Settles(SelectingAsset)
  BY DEF SelectingAsset, Table, Settles
<1> QED
  BY <1>1, <1>2, <1>3, <1>4

\* The pages that keep the rows themselves, or do not wait.
LEMMA OthersSettle ==
    /\ Settles(AssetWithOwner) /\ Settles(AssetUser) /\ Settles(AssetUserGroup)
    /\ \A menu : Settles(UserAsset(menu))
<1>1. Settles(AssetWithOwner)
  <2>1. Asset.own = TRUE
    BY DEF Asset, Crud, Table
  <2>2. AssetWithOwner.own = Asset.own
    BY DEF AssetWithOwner, Asset, Crud, Table
  <2> QED
    BY <2>1, <2>2 DEF Settles
<1>2. ASSUME NEW menu, NEW kind, NEW new, NEW del, NEW modal
      PROVE  Settles(Grants(menu, kind, new, del, modal))
  <2>1. Grants(menu, kind, new, del, modal).awaited = FALSE
    BY DEF Grants, Table
  <2> QED
    BY <2>1 DEF Settles
<1> QED
  BY <1>1, <1>2 DEF AssetUser, AssetUserGroup, UserAsset

\* The pages with buttons of their own.
LEMMA ButtonsSettle ==
    /\ Settles(Command) /\ Settles(Job) /\ Settles(JobLog) /\ Settles(LoginLog)
    /\ Settles(LoginPolicyBind) /\ Settles(LoginPolicyUser) /\ Settles(OfflineSession)
    /\ Settles(OnlineSession) /\ Settles(User) /\ Settles(UserLoginPolicy)
<1>1. Settles(Command)
  BY DEF Command, Crud, Table, Settles, Act, ChangeOwner
<1>2. Settles(Job)
  BY DEF Job, JobActs, Crud, Table, Settles, Act
<1>3. Settles(JobLog)
  BY DEF JobLog, Table, Settles, Unasked, Batch
<1>4. Settles(LoginLog)
  BY DEF LoginLog, LogBatches, Table, Settles, Act, Batch
<1>5. Settles(LoginPolicyBind)
  BY DEF LoginPolicyBind, Table, Settles, Act
<1>6. Settles(LoginPolicyUser)
  BY DEF LoginPolicyUser, Table, Settles, Act
<1>7. Settles(OfflineSession)
  BY DEF OfflineSession, OfflineBatches, Table, Settles, Act, Batch
<1>8. Settles(OnlineSession)
  BY DEF OnlineSession, Table, Settles, Act
<1>9. Settles(User)
  BY DEF User, UserActs, UserBatches, Crud, Table, Settles, Act, Batch
<1>10. Settles(UserLoginPolicy)
  BY DEF UserLoginPolicy, Table, Settles, Act
<1> QED
  BY <1>1, <1>2, <1>3, <1>4, <1>5, <1>6, <1>7, <1>8, <1>9, <1>10

\* Every page is one of these.
LEMMA AllSettle == \A name \in PageNames : Settles(PageOf[name])
<1> SUFFICES ASSUME NEW name \in PageNames PROVE Settles(PageOf[name])
  OBVIOUS
<1>1. PageOf[name] \in {AccessGateway, Credential, LoginPolicy, MyCommand, Role, Security, Storage,
        Strategy, UserGroup, AssetInfo, LoginPolicyInfo, StrategyInfo, UserInfo, UserGroupInfo,
        RoleInfo, MyAsset, SelectingAsset, AssetWithOwner, AssetUser, AssetUserGroup,
        UserAsset(UserDetailPage.assets), UserAsset(UserGroupDetail.assets), Command, Job, JobLog,
        LoginLog, LoginPolicyBind, LoginPolicyUser, OfflineSession, OnlineSession, User,
        UserLoginPolicy}
  BY DEF PageNames, PageOf
<1> QED
  BY <1>1, CrudsSettle, TablesSettle, OthersSettle, ButtonsSettle

\* Page: the page the user is on.
LEMMA PageSettles ==
    ASSUME IInv
    PROVE  Settles(P)
<1>1. page \in PageNames
  BY PagesAssumption DEF IInv, Types
<1> QED
  BY <1>1, AllSettle DEF P

\* Calls: none of these is a list, and none changes rows unseen.
Plain(cs) == \A i \in DOMAIN cs : cs[i].op # "list" /\ Fit(cs[i])

\* Calls: more requests leave the table what it was on the way to.
LEMMA ToldJoin ==
    ASSUME NEW s, NEW t, AllGood(s), AllGood(t), Plain(t), NEW rs, NEW tb, Told(s, rs, tb)
    PROVE  Told(s \o t, rs, tb)
<1> DEFINE u == s \o t
<1>1. /\ \A k \in DOMAIN u : \/ k \in DOMAIN s /\ u[k] = s[k]
                             \/ k - Len(s) \in DOMAIN t /\ u[k] = t[k - Len(s)] /\ k \notin DOMAIN s
      /\ \A k \in DOMAIN s : k \in DOMAIN u /\ u[k] = s[k]
  BY JoinAt DEF AllGood
<1> HIDE DEF u
<1>2. \A k \in DOMAIN u : \/ k \in DOMAIN s /\ u[k] = s[k]
                          \/ u[k].op # "list" /\ Fit(u[k])
  BY <1>1 DEF Plain
<1>3. \A i \in DOMAIN u : Fit(u[i])
  BY <1>2 DEF Told
<1>4. OneList(u)
  BY <1>2 DEF Told, OneList
<1>5. Fresh(u, rs, tb)
  <2>1. CASE \E i \in DOMAIN s : Lands(s[i]) \/ Brings(s[i], rs)
    BY <1>1, <2>1 DEF Fresh
  <2>2. CASE ~Has(s, "list") /\ tb = rs
    BY <1>2, <2>2 DEF Fresh, Has
  <2> QED
    BY <2>1, <2>2 DEF Told, Fresh
<1> QED
  BY <1>3, <1>4, <1>5 DEF Told, u

\* Calls: the same of one request.
LEMMA ToldAppend ==
    ASSUME NEW s, NEW c, AllGood(s), Good(c), c.op # "list", Fit(c), NEW rs, NEW tb,
           Told(s, rs, tb)
    PROVE  Told(Append(s, c), rs, tb)
<1>1. Append(s, c) = s \o <<c>>
  BY AppendIs DEF AllGood
<1>2. AllGood(<<c>>)
  BY OneKeeps
<1>3. Plain(<<c>>)
  <2> HIDE DEF Fit
  <2> QED
    BY OneIs DEF Plain
<1> QED
  BY <1>1, <1>2, <1>3, ToldJoin

\* Calls: so does one that is taken, unless it brings rows or makes the page reload.
LEMMA ToldRest ==
    ASSUME NEW s, AllGood(s), NEW i \in DOMAIN s, s[i].op # "list", ~Lands(s[i]), NEW rs, NEW tb,
           Told(s, rs, tb)
    PROVE  Told(Rest(s, i), rs, tb)
<1> DEFINE r == Rest(s, i)
<1>1. /\ \A k \in DOMAIN r : From(i, k) \in DOMAIN s /\ From(i, k) # i /\ r[k] = s[From(i, k)]
      /\ \A k, l \in DOMAIN r : From(i, k) = From(i, l) => k = l
      /\ \A j \in DOMAIN s : j # i => \E k \in DOMAIN r : r[k] = s[j]
  BY RestAt DEF AllGood
<1> HIDE DEF r
<1>2. \A k \in DOMAIN r : Fit(r[k])
  BY <1>1 DEF Told
<1>3. OneList(r)
  BY <1>1 DEF Told, OneList
<1>4. Fresh(r, rs, tb)
  <2>1. ASSUME NEW j \in DOMAIN s, Lands(s[j]) \/ Brings(s[j], rs) PROVE Fresh(r, rs, tb)
    <3>1. j # i
      BY <2>1 DEF Brings
    <3>2. PICK k \in DOMAIN r : r[k] = s[j]
      BY <1>1, <3>1
    <3>3. Lands(r[k]) \/ Brings(r[k], rs)
      BY <2>1, <3>2
    <3> QED
      BY <3>3 DEF Fresh
  <2>2. CASE ~Has(s, "list") /\ tb = rs
    BY <1>1, <2>2 DEF Fresh, Has
  <2> QED
    BY <2>1, <2>2 DEF Told, Fresh
<1> QED
  BY <1>2, <1>3, <1>4 DEF Told, r

\* ListAnswer: the table shows what the only list has brought, if nothing is on
\* the way any more.
LEMMA ToldList ==
    ASSUME NEW s, AllGood(s), NEW i \in DOMAIN s, s[i].op = "list", s[i].state = "done",
           NEW rs, NEW tb, Told(s, rs, tb)
    PROVE  Told(Rest(s, i), rs, s[i].seen)
<1> DEFINE r == Rest(s, i)
<1>1. /\ \A k \in DOMAIN r : From(i, k) \in DOMAIN s /\ From(i, k) # i /\ r[k] = s[From(i, k)]
      /\ \A j \in DOMAIN s : j # i => \E k \in DOMAIN r : r[k] = s[j]
  BY RestAt DEF AllGood
<1> HIDE DEF r
<1>2. \A k \in DOMAIN r : Fit(r[k])
  BY <1>1 DEF Told
<1>3. ~Has(r, "list") /\ OneList(r)
  BY <1>1 DEF Told, OneList, Has
<1>4. Fresh(r, rs, s[i].seen)
  <2>1. ASSUME NEW j \in DOMAIN s, Lands(s[j]) PROVE Fresh(r, rs, s[i].seen)
    <3>1. j # i
      BY <2>1 DEF Lands, Again
    <3>2. PICK k \in DOMAIN r : r[k] = s[j]
      BY <1>1, <3>1
    <3>3. Lands(r[k])
      BY <2>1, <3>2
    <3> QED
      BY <3>3 DEF Fresh
  <2>2. ASSUME NEW j \in DOMAIN s, Brings(s[j], rs) PROVE Fresh(r, rs, s[i].seen)
    <3>1. j = i
      BY <2>2 DEF Told, OneList, Brings
    <3>2. s[i].seen = rs
      BY <2>2, <3>1 DEF Brings
    <3> QED
      BY <1>3, <3>2 DEF Fresh
  <2>3. Has(s, "list")
    BY DEF Has
  <2> QED
    BY <2>1, <2>2, <2>3 DEF Told, Fresh
<1> QED
  BY <1>2, <1>3, <1>4 DEF Told, r

\* List: a new list will bring the rows there are when it is served.
LEMMA ListIs == Good(List) /\ List.op = "list" /\ List.state = "sent" /\ Fit(List)
<1>1. Good(List) /\ List.op = "list"
  BY CallIs DEF Good, List
<1>2. List.state = "sent"
  BY DEF List, Call
<1> QED
  BY <1>1, <1>2 DEF Fit

\* Calls: with a new list among them, they are on the way to show the rows.
LEMMA ToldFresh ==
    ASSUME NEW s, AllGood(s), \A i \in DOMAIN s : s[i].op # "list" /\ Fit(s[i]), NEW rs, NEW tb
    PROVE  Told(Append(s, List), rs, tb)
<1> DEFINE u == s \o <<List>>
<1>1. Append(s, List) = u
  BY AppendIs DEF AllGood
<1>2. Good(List) /\ List.op = "list" /\ List.state = "sent" /\ Fit(List)
  BY ListIs
<1>3. IsSeq(<<List>>) /\ DOMAIN <<List>> = 1..1 /\ <<List>>[1] = List
  BY OneIs
<1>4. /\ \A k \in DOMAIN u : \/ k \in DOMAIN s /\ u[k] = s[k]
                             \/ k - Len(s) \in 1..1 /\ u[k] = <<List>>[k - Len(s)]
      /\ Len(s) + 1 \in DOMAIN u /\ u[Len(s) + 1] = List
  BY <1>3, JoinAt DEF AllGood
<1>5. Len(s) \in Nat /\ DOMAIN u \subseteq Nat
  <2>1. Len(s) \in Nat /\ DOMAIN u = 1..(Len(s) + Len(<<List>>)) /\ Len(<<List>>) = 1
    BY <1>3, OneIs, SeqHas, JoinIs DEF AllGood
  <2> QED
    BY <2>1
<1> HIDE DEF u, List
<1>6. \A k \in DOMAIN u : \/ k \in DOMAIN s /\ u[k] = s[k]
                          \/ k = Len(s) + 1 /\ u[k] = List
  BY <1>3, <1>4, <1>5
<1>7. \A k \in DOMAIN u : Fit(u[k])
  BY <1>2, <1>6
<1>8. OneList(u)
  BY <1>6 DEF OneList
<1>9. Fresh(u, rs, tb)
  BY <1>2, <1>4 DEF Fresh, Brings
<1> QED
  BY <1>1, <1>7, <1>8, <1>9 DEF Told

\* Reloaded: whatever the table waited for, it will show the rows.
LEMMA ToldReloaded ==
    ASSUME NEW s, AllGood(s), \A i \in DOMAIN s : Fit(s[i]), OneList(s), ~P.own, NEW rs, NEW tb
    PROVE  Told(Reloaded(s), rs, tb)
<1> DEFINE lists == {i \in DOMAIN s : s[i].op = "list"}
<1>1. CASE lists = {}
  <2>1. Reloaded(s) = Append(s, List)
    BY <1>1 DEF Reloaded
  <2>2. \A i \in DOMAIN s : s[i].op # "list"
    BY <1>1
  <2> QED
    BY <2>1, <2>2, ToldFresh
<1>2. CASE lists # {}
  <2>1. PICK i \in lists : i = CHOOSE j \in lists : TRUE
    BY <1>2
  <2>2. Reloaded(s) = Append(Rest(s, i), List)
    BY <1>2, <2>1 DEF Reloaded
  <2>3. i \in DOMAIN s /\ s[i].op = "list" /\ IsSeq(s)
    BY <2>1 DEF AllGood
  <2> HIDE DEF lists
  <2>4. AllGood(Rest(s, i))
    BY <2>3, RestKeeps
  <2>5. \A k \in DOMAIN Rest(s, i) :
          From(i, k) \in DOMAIN s /\ From(i, k) # i /\ Rest(s, i)[k] = s[From(i, k)]
    BY <2>3, RestAt
  <2>6. ASSUME NEW k \in DOMAIN Rest(s, i)
        PROVE  Rest(s, i)[k].op # "list" /\ Fit(Rest(s, i)[k])
    BY <2>3, <2>5 DEF OneList
  <2> QED
    BY <2>2, <2>4, <2>6, ToldFresh
<1> QED
  BY <1>1, <1>2

\* Answered: rows are changed only by a request that makes the page reload, and
\* a list brings the rows there are.
LEMMA ToldAnswered ==
    ASSUME AllGood(calls), NEW i \in DOMAIN calls, calls[i].state = "sent",
           NEW good \in BOOLEAN, NEW seen, Answered(i, good, seen),
           NEW rs, calls[i].op = "list" => seen = rs,
           rs # rows => Again(calls[i]) /\ (good \/ calls[i].then # "success"),
           Told(calls, rows, table)
    PROVE  Told(calls', rs, table)
<1> DEFINE n == Len(calls)
           d == OfAnswer(calls[i], "done", good, seen)
<1>1. n \in Nat /\ DOMAIN calls = 1..n /\ calls = [k \in 1..n |-> calls[k]] /\ Good(calls[i])
  BY SeqHas DEF AllGood
<1>2. calls' = [calls EXCEPT ![i] = d]
  BY DEF Answered, OfAnswer
<1>3. /\ d.op = calls[i].op /\ d.seen = seen /\ d.state = "done" /\ d.ok = good
      /\ d.effect = calls[i].effect /\ d.then = calls[i].then
  BY <1>1, ForAnswer DEF Good
<1> HIDE DEF d, n
<1>4. calls' = [k \in 1..n |-> IF k = i THEN d ELSE calls[k]]
  BY <1>1, <1>2
<1>5. DOMAIN calls' = DOMAIN calls /\ \A k \in DOMAIN calls : k # i => calls'[k] = calls[k]
  BY <1>1, <1>4
<1>6. calls'[i] = d
  BY <1>1, <1>4
<1>7. \A k \in DOMAIN calls : /\ calls'[k].op = calls[k].op /\ (Fit(calls[k]) => Fit(calls'[k]))
                              /\ Again(calls'[k]) <=> Again(calls[k])
  BY <1>3, <1>5, <1>6 DEF Fit, Again
<1>8. \A k \in DOMAIN calls' : Fit(calls'[k])
  BY <1>5, <1>7 DEF Told
<1>9. OneList(calls')
  BY <1>5, <1>7 DEF Told, OneList
<1>10. Fresh(calls', rs, table)
  <2>1. CASE rs # rows
    <3>1. Again(d) /\ d.state = "done" /\ (d.ok \/ d.then # "success")
      BY <1>3, <1>6, <1>7, <2>1
    <3> QED
      BY <1>5, <1>6, <3>1 DEF Fresh, Lands
  <2>2. CASE rs = rows
    <3>1. ASSUME NEW j \in DOMAIN calls, Lands(calls[j]) PROVE Fresh(calls', rs, table)
      <4>1. j # i
        BY <3>1 DEF Lands
      <4> QED
        BY <1>5, <3>1, <4>1 DEF Fresh
    <3>2. ASSUME NEW j \in DOMAIN calls, Brings(calls[j], rows) PROVE Fresh(calls', rs, table)
      <4>1. Brings(calls'[j], rs)
        BY <1>3, <1>5, <1>6, <2>2, <3>2 DEF Brings
      <4> QED
        BY <1>5, <4>1 DEF Fresh
    <3>3. CASE ~Has(calls, "list") /\ table = rows
      BY <1>5, <1>7, <2>2, <3>3 DEF Fresh, Has
    <3> QED
      BY <3>1, <3>2, <3>3 DEF Told, Fresh
  <2> QED
    BY <2>1, <2>2
<1> QED
  BY <1>8, <1>9, <1>10 DEF Told

\* Fetch, Call: what a form or a page asks besides is plain.
LEMMA AskedIs ==
    ASSUME NEW paths
    PROVE  /\ Plain(Fetch(paths))
           /\ Call("fetch", paths).op = "fetch" /\ Good(Call("fetch", paths))
           /\ Fit(Call("fetch", paths))
<1>1. Call("fetch", paths).op = "fetch" /\ Good(Call("fetch", paths))
  BY CallIs DEF Good
<1> HIDE DEF Call
<1>2. ASSUME paths = {} PROVE Plain(Fetch(paths))
  <2>1. Fetch(paths) = <<>>
    BY <1>2 DEF Fetch
  <2> QED
    BY <2>1, NoneIs DEF Plain
<1>3. ASSUME paths # {} PROVE Plain(Fetch(paths))
  <2>1. Fetch(paths) = <<Call("fetch", paths)>>
    BY <1>3 DEF Fetch
  <2> QED
    BY <1>1, <2>1, OneIs DEF Plain, Fit
<1> QED
  BY <1>1, <1>2, <1>3 DEF Fit

\* What a step must leave.
LEMMA TrackedIs ==
    ASSUME IInv, Tracked, UNCHANGED page,
           dialog'.state = "open" /\ Settled => dialog'.batch \in P.batches,
           left' = {} /\ lost' = 0 =>
             /\ left = {} /\ lost = 0
             /\ Settled /\ Told(calls, rows, table) => Told(calls', rows', table')
    PROVE  Tracked'
<1>1. P' = P /\ Settled' = Settled
  BY DEF P, Settled
<1>2. Told(calls, rows, table)' = Told(calls', rows', table')
  BY DEF Told, Fit, Again, OneList, Fresh, Lands, Brings, Has
<1> QED
  BY <1>1, <1>2 DEF Tracked

\* The buttons of the form: the row and the choices it asks for are no lists.
LEMMA FormTracked ==
    ASSUME IInv, Tracked,
           \/ New \/ Refocus \/ \E r \in Rows : Edit(r) \/ Copy(r)
           \/ \E path \in P.modal.choices : Choose(path)
    PROVE  Tracked'
<1>1. AllGood(calls) /\ selectedRowKey \in Rows \cup {0}
  BY DEF IInv, Types
<1>2. \A r \in Rows : Good(Get(r)) /\ Get(r).op = "get" /\ Fit(Get(r))
  BY GetIs DEF Fit
<1>3. ASSUME NEW key \in Rows \cup {0}, NEW copy, ShowModal(key, copy), NEW gate, Press(gate)
      PROVE  Tracked'
  <2> DEFINE fields == Fetch(P.modal.fields)
             asks == key # 0 /\ P.fetch # <<>>
             known == P.modal.ask = "query" /\ \E i \in DOMAIN calls : calls[i].op = "get"
             get == IF asks /\ ~known THEN <<Get(key)>> ELSE <<>>
  <2>1. calls' = (calls \o fields) \o get /\ dialog' = dialog
    BY <1>3 DEF ShowModal
  <2>2. AllGood(get) /\ Plain(get)
    <3>1. asks => AllGood(<<Get(key)>>) /\ Plain(<<Get(key)>>)
      <4>1. asks => key \in Rows
        OBVIOUS
      <4> QED
        BY <1>2, <4>1, OneKeeps, OneIs DEF Plain
    <3>2. AllGood(<<>>) /\ Plain(<<>>)
      BY NoneKeeps, NoneIs DEF Plain
    <3> QED
      BY <3>1, <3>2
  <2>3. AllGood(fields) /\ Plain(fields)
    BY FetchKeeps, AskedIs
  <2> HIDE DEF fields, get
  <2>4. ASSUME Told(calls, rows, table) PROVE Told(calls', rows, table)
    <3>1. AllGood(calls \o fields) /\ Told(calls \o fields, rows, table)
      BY <1>1, <2>3, <2>4, JoinKeeps, ToldJoin
    <3> QED
      BY <2>1, <2>2, <3>1, ToldJoin
  <2>5. UNCHANGED <<page, rows, table, left, lost>>
    BY <1>3 DEF Press
  <2> QED
    BY <2>1, <2>4, <2>5, TrackedIs DEF Tracked
<1>4. CASE New
  BY <1>1, <1>3, <1>4 DEF New
<1>5. ASSUME NEW r \in Rows, Edit(r) \/ Copy(r) PROVE Tracked'
  BY <1>3, <1>5 DEF Edit, Copy
<1>6. ASSUME NEW c, Good(c), Fit(c), c.op # "list", calls' = Append(calls, c),
             UNCHANGED <<page, rows, table, left, lost, dialog>>
      PROVE  Tracked'
  BY <1>1, <1>6, ToldAppend, TrackedIs DEF Tracked
<1>7. CASE Refocus
  <2>1. /\ calls' = Append(calls, Get(selectedRowKey))
        /\ UNCHANGED <<page, rows, table, left, lost, dialog>>
    BY <1>7 DEF Refocus, Press
  <2>2. /\ Good(Get(selectedRowKey)) /\ Fit(Get(selectedRowKey))
        /\ Get(selectedRowKey).op # "list"
    BY <1>1, <1>2, <1>7 DEF Refocus
  <2> QED
    BY <1>6, <2>1, <2>2
<1>8. ASSUME NEW path, Choose(path) PROVE Tracked'
  <2>1. /\ calls' = Append(calls, Call("fetch", {path}))
        /\ UNCHANGED <<page, rows, table, left, lost, dialog>>
    BY <1>8 DEF Choose, Free
  <2>2. /\ Good(Call("fetch", {path})) /\ Fit(Call("fetch", {path}))
        /\ Call("fetch", {path}).op # "list"
    BY AskedIs
  <2> QED
    BY <1>6, <2>1, <2>2
<1> QED
  BY <1>4, <1>5, <1>7, <1>8

\* Ok, the buttons of a row, the selection and the dialog: what is asked for is
\* no list, and what changes rows makes the page reload.
LEMMA ButtonsTracked ==
    ASSUME IInv, Tracked,
           \/ Ok \/ Cancel \/ CancelBatch \/ ConfirmBatch \/ Refresh
           \/ \E r \in Rows : \E act \in P.acts : ActOn(act, r)
           \/ \E keys \in SUBSET Rows : Select(keys)
           \/ \E b \in P.batches : AskBatch(b)
    PROVE  Tracked'
<1>1. AllGood(calls) /\ Settles(P)
  BY PageSettles DEF IInv
<1>2. ASSUME NEW c, Good(c), Settled => Fit(c), c.op # "list", calls' = Append(calls, c),
             UNCHANGED <<page, rows, table, left, lost>>, dialog'.batch = dialog.batch,
             dialog'.state = "open" => dialog.state = "open"
      PROVE  Tracked'
  BY <1>1, <1>2, ToldAppend, TrackedIs DEF Tracked
<1>3. CASE Ok
  <2>1. Good(Save) /\ Save.op = "save" /\ Fit(Save)
    BY SaveIs DEF Fit
  <2>2. P.awaited => calls' = Append(calls, Save)
    BY <1>3 DEF Ok, Save, Body
  <2>3. UNCHANGED <<page, rows, table, left, lost, dialog>>
    BY <1>3 DEF Ok, Free
  <2>4. CASE P.awaited
    BY <1>2, <2>1, <2>2, <2>3, <2>4
  <2>5. CASE ~P.awaited
    BY <2>3, <2>5, TrackedIs DEF Settled
  <2> QED
    BY <2>4, <2>5
<1>4. CASE Cancel
  BY <1>4, TrackedIs DEF Cancel, Free, Tracked
<1>5. CASE CancelBatch
  <2>1. dialog'.state # "open" /\ UNCHANGED <<page, rows, table, left, lost, calls>>
    BY <1>5 DEF CancelBatch, Free, Closed
  <2> QED
    BY <2>1, TrackedIs
<1>6. CASE ConfirmBatch
  <2> DEFINE c == BatchCall(dialog.batch, dialog.keys)
  <2>1. /\ dialog.state = "open" /\ calls' = Append(calls, c)
        /\ UNCHANGED <<page, rows, table, left, lost>>
        /\ dialog' = [dialog EXCEPT !.state = "running"]
    BY <1>6 DEF ConfirmBatch, Free
  <2>2. dialog'.state = "running" /\ dialog'.batch = dialog.batch
    BY <2>1 DEF IInv, Types, IsDialog
  <2>3. Good(c) /\ c.op = "batch" /\ c.effect = dialog.batch.effect /\ c.then = dialog.batch.after
    BY BatchCallIs
  <2> HIDE DEF c
  <2>4. ASSUME Settled PROVE Fit(c)
    <3>1. dialog.batch \in P.batches
      BY <2>1, <2>4 DEF Tracked
    <3> QED
      BY <1>1, <2>3, <2>4, <3>1 DEF Settles, Settled, Fit, Again
  <2> QED
    BY <1>2, <2>1, <2>2, <2>3, <2>4
<1>7. CASE Refresh
  <2>1. calls' = Reloaded(calls) /\ UNCHANGED <<page, rows, table, left, lost, dialog>>
    BY <1>7 DEF Refresh, Press
  <2>2. ASSUME Settled, Told(calls, rows, table) PROVE Told(calls', rows', table')
    BY <1>1, <2>1, <2>2, ToldReloaded DEF Settled, Told
  <2> QED
    BY <2>1, <2>2, TrackedIs DEF Tracked
<1>8. ASSUME NEW r \in Rows, NEW act \in P.acts, ActOn(act, r) PROVE Tracked'
  <2> DEFINE d == Button(act, r)
  <2>1. Good(d) /\ d.op = "act" /\ d.effect = act.effect /\ d.then = act.then
    BY ButtonIs
  <2>2. calls' = Append(calls, d) /\ UNCHANGED <<page, rows, table, left, lost, dialog>>
    BY <1>8 DEF ActOn, Button, Press
  <2> HIDE DEF d
  <2>3. Settled => Fit(d)
    BY <1>1, <2>1 DEF Settles, Settled, Fit, Again
  <2> QED
    BY <1>2, <2>1, <2>2, <2>3
<1>9. ASSUME NEW keys \in SUBSET Rows, Select(keys) PROVE Tracked'
  <2>1. UNCHANGED <<page, rows, table, left, lost, dialog, calls>>
    BY <1>9 DEF Select, Free
  <2> QED
    BY <2>1, TrackedIs DEF Tracked
<1>10. ASSUME NEW b \in P.batches, AskBatch(b) PROVE Tracked'
  <2>1. UNCHANGED <<page, rows, table, left, lost, calls>> /\ dialog'.batch = b
    BY <1>10 DEF AskBatch, Press
  <2> QED
    BY <2>1, TrackedIs
<1> QED
  BY <1>3, <1>4, <1>5, <1>6, <1>7, <1>8, <1>9, <1>10

\* StartBatch: no page this is about tests what is selected.
LEMMA StartTracked ==
    ASSUME IInv, Tracked, NEW b \in P.batches, StartBatch(b)
    PROVE  Tracked'
<1> DEFINE c == BatchCall(b, Over(b))
<1>1. AllGood(calls) /\ Settles(P)
  BY PageSettles DEF IInv
<1>2. UNCHANGED <<page, rows, table, left, lost, dialog>>
  BY DEF StartBatch, Press
<1>3. CASE ~Settled
  BY <1>2, <1>3, TrackedIs
<1>4. CASE Settled
  <2>1. b.after # "test" /\ (b.after \in {"clear", "reload"} \/ b.effect = "none")
    BY <1>1, <1>4 DEF Settles, Settled
  <2>2. calls' = Append(calls, c)
    BY <2>1 DEF StartBatch
  <2>3. Good(c) /\ c.op = "batch" /\ c.effect = b.effect /\ c.then = b.after
    BY BatchCallIs
  <2> HIDE DEF c
  <2>4. Fit(c)
    BY <2>1, <2>3 DEF Fit, Again
  <2>5. Told(calls, rows, table) => Told(calls', rows', table')
    BY <1>1, <1>2, <2>2, <2>3, <2>4, ToldAppend
  <2> QED
    BY <1>2, <2>5, TrackedIs DEF Tracked
<1> QED
  BY <1>3, <1>4

\* Results: a request changes rows only to make the page reload.
LEMMA ResultsFit ==
    ASSUME NEW c, c.op \in {"save", "act", "batch"}, Fit(c), NEW s \in Results(c), s # rows
    PROVE  Again(c)
<1>1. c.op = "save" \/ c.effect # "none"
  BY DEF Results
<1> QED
  BY <1>1 DEF Fit, Again

\* Remnants: a refused request changes rows only to make the page reload in any case.
LEMMA RemnantsFit ==
    ASSUME NEW c, Fit(c), NEW s \in Remnants(c), s # rows
    PROVE  Again(c) /\ c.then # "success"
<1>1. c.op = "batch" /\ c.effect # "none"
  BY DEF Remnants
<1> QED
  BY <1>1 DEF Fit

\* The server answers, or sends the user away.
LEMMA ServerTracked ==
    ASSUME IInv, Tracked, NEW i \in DOMAIN calls, Server(i)
    PROVE  Tracked'
<1>1. AllGood(calls) /\ UNCHANGED <<page, table, dialog, lost>> /\ left = {}
  BY DEF IInv, Server, Serve, ServeFetch, Execute, Deny, Client
<1>2. ASSUME left' = {}, Told(calls, rows, table) PROVE Told(calls', rows', table)
  <2>1. Fit(calls[i])
    BY <1>2 DEF Told
  <2>2. CASE Serve(i)
    <3> DEFINE seen == IF calls[i].op = "list" THEN rows ELSE calls[i].seen
               good == IF calls[i].op = "get" => calls[i].row \in DOMAIN rows THEN TRUE ELSE FALSE
    <3>1. /\ Answered(i, good, seen) /\ rows' = rows /\ calls[i].state = "sent"
          /\ calls[i].op = "list" => seen = rows
      BY <2>2 DEF Serve
    <3>2. good \in BOOLEAN
      OBVIOUS
    <3> HIDE DEF seen, good
    <3> QED
      BY <1>1, <1>2, <3>1, <3>2, ToldAnswered
  <2>3. CASE ServeFetch(i)
    <3>1. calls[i].op = "fetch" /\ calls' = Rest(calls, i) /\ rows' = rows
      BY <2>3 DEF ServeFetch
    <3> QED
      BY <1>1, <1>2, <3>1, ToldRest DEF Lands, Again
  <2>4. CASE Execute(i)
    <3>1. calls[i].op \in {"save", "act", "batch"} /\ calls[i].state = "sent"
      BY <2>4 DEF Execute
    <3>2. CASE rows' \in Results(calls[i]) /\ Answered(i, TRUE, calls[i].seen)
      <4>1. rows' # rows => Again(calls[i])
        BY <2>1, <3>1, <3>2, ResultsFit
      <4> QED
        BY <1>1, <1>2, <3>1, <3>2, <4>1, ToldAnswered
    <3>3. CASE rows' \in Remnants(calls[i]) /\ Answered(i, FALSE, calls[i].seen)
      <4>1. rows' # rows => Again(calls[i]) /\ calls[i].then # "success"
        BY <2>1, <3>1, <3>3, RemnantsFit
      <4> QED
        BY <1>1, <1>2, <3>1, <3>3, <4>1, ToldAnswered
    <3> QED
      BY <2>4, <3>2, <3>3 DEF Execute
  <2>5. CASE Deny(i)
    BY <1>2, <2>5 DEF Deny
  <2> QED
    BY <2>2, <2>3, <2>4, <2>5 DEF Server
<1> QED
  BY <1>1, <1>2, TrackedIs DEF Tracked

\* Rest, Reloaded: an answer is taken, and the page reloads if it has to.
LEMMA TakenTracked ==
    ASSUME IInv, Tracked, NEW i \in DOMAIN calls,
           UNCHANGED <<page, rows, left, lost>>, Settled => table' = table,
           dialog'.state = "open" => dialog' = dialog,
           calls[i].op # "list",
           \/ calls' = Rest(calls, i) /\ (Settled => ~Lands(calls[i]))
           \/ calls' = Reloaded(Rest(calls, i))
    PROVE  Tracked'
<1>1. AllGood(calls)
  BY DEF IInv
<1>2. ASSUME Settled, Told(calls, rows, table) PROVE Told(calls', rows', table')
  <2>1. CASE calls' = Rest(calls, i) /\ ~Lands(calls[i])
    BY <1>1, <1>2, <2>1, ToldRest
  <2>2. CASE calls' = Reloaded(Rest(calls, i))
    <3>1. AllGood(Rest(calls, i)) /\ ~P.own
      BY <1>1, <1>2, RestKeeps DEF Settled
    <3>2. /\ \A k \in DOMAIN Rest(calls, i) :
               /\ From(i, k) \in DOMAIN calls
               /\ Rest(calls, i)[k] = calls[From(i, k)]
          /\ \A k, l \in DOMAIN Rest(calls, i) : From(i, k) = From(i, l) => k = l
      BY <1>1, RestAt DEF AllGood
    <3>3. (\A k \in DOMAIN Rest(calls, i) : Fit(Rest(calls, i)[k])) /\ OneList(Rest(calls, i))
      BY <1>2, <3>2 DEF Told, OneList
    <3> QED
      BY <2>2, <3>1, <3>3, ToldReloaded
  <2> QED
    BY <1>2, <2>1, <2>2
<1> QED
  BY <1>2, TrackedIs DEF Tracked

\* The answers: the table shows what the only list has brought; what has changed
\* rows makes the page reload.
LEMMA AnswerTracked ==
    ASSUME IInv, Tracked, NEW i \in DOMAIN calls, Answer(i)
    PROVE  Tracked'
<1>1. AllGood(calls)
  BY DEF IInv
<1>2. UNCHANGED <<page, rows, left, lost>> /\ calls[i].state = "done" /\ left = {}
  BY DEF Answer, ListAnswer, GetAnswer, SaveAnswer, GrantAnswer, ActAnswer, BatchAnswer, Handle
<1>3. CASE ListAnswer(i)
  <2>1. /\ calls[i].op = "list" /\ calls' = Rest(calls, i) /\ table' = calls[i].seen
        /\ dialog' = dialog
    BY <1>3 DEF ListAnswer, Handle
  <2>2. Told(calls, rows, table) => Told(calls', rows', table')
    BY <1>1, <1>2, <2>1, ToldList
  <2> QED
    BY <1>2, <2>1, <2>2, TrackedIs DEF Tracked
<1>4. CASE GetAnswer(i)
  <2>1. calls[i].op = "get" /\ calls' = Rest(calls, i) /\ UNCHANGED <<table, dialog>>
    BY <1>4 DEF GetAnswer, Handle
  <2>2. ~Lands(calls[i])
    BY <2>1 DEF Lands, Again
  <2> QED
    BY <1>2, <2>1, <2>2, TakenTracked
<1>5. CASE SaveAnswer(i)
  <2>1. /\ calls[i].op = "save" /\ calls' = Reloaded(Rest(calls, i)) /\ UNCHANGED <<table, dialog>>
    BY <1>5 DEF SaveAnswer, Handle
  <2> QED
    BY <1>2, <2>1, TakenTracked
<1>6. CASE GrantAnswer(i)
  <2>1. /\ calls[i].op = "save" /\ calls' = Rest(calls, i) /\ ~Settled
        /\ UNCHANGED <<table, dialog>>
    BY <1>6 DEF GrantAnswer, Handle, Settled
  <2> QED
    BY <1>2, <2>1, TakenTracked
<1>7. CASE ActAnswer(i)
  <2>1. /\ calls[i].op = "act" /\ dialog' = dialog
        /\ calls' = IF calls[i].then = "reload" \/ (calls[i].then = "success" /\ calls[i].ok)
                    THEN Reloaded(Rest(calls, i)) ELSE Rest(calls, i)
        /\ table' = IF calls[i].then = "rows" THEN calls[i].seen ELSE table
    BY <1>7 DEF ActAnswer, Handle
  <2>2. \/ calls' = Rest(calls, i) /\ ~Lands(calls[i])
        \/ calls' = Reloaded(Rest(calls, i))
    BY <2>1 DEF Lands, Again
  <2>3. CASE calls[i].then # "rows"
    BY <1>2, <2>1, <2>2, <2>3, TakenTracked
  <2>4. CASE calls[i].then = "rows"
    <3>1. ~Told(calls, rows, table)
      BY <2>1, <2>4 DEF Told, Fit
    <3> QED
      BY <1>2, <2>1, <3>1, TrackedIs DEF Tracked
  <2> QED
    BY <2>3, <2>4
<1>8. CASE BatchAnswer(i)
  <2>1. /\ calls[i].op = "batch" /\ table' = table
        /\ calls' = IF \/ calls[i].then \in {"clear", "reload"}
                       \/ calls[i].then = "success" /\ calls[i].ok
                    THEN Reloaded(Rest(calls, i)) ELSE Rest(calls, i)
        /\ dialog' = IF dialog.state = "running" THEN Closed ELSE dialog
    BY <1>8 DEF BatchAnswer, Handle
  <2>2. \/ calls' = Rest(calls, i) /\ ~Lands(calls[i])
        \/ calls' = Reloaded(Rest(calls, i))
    BY <2>1 DEF Lands, Again
  <2>3. dialog'.state = "open" => dialog' = dialog
    BY <2>1 DEF Closed
  <2> QED
    BY <1>2, <2>1, <2>2, <2>3, TakenTracked
<1> QED
  BY <1>3, <1>4, <1>5, <1>6, <1>7, <1>8 DEF Answer

\* The page opens with one list.
LEMMA InitTracked == Init => Tracked
<1> SUFFICES ASSUME Init PROVE Tracked
  OBVIOUS
<1>1. dialog.state # "open"
  BY DEF Init, Closed
<1>2. calls = Append(Fetch(P.opening), List)
  BY DEF Init
<1>3. AllGood(Fetch(P.opening)) /\ Plain(Fetch(P.opening))
  BY FetchKeeps, AskedIs
<1>4. Told(calls, rows, table)
  BY <1>2, <1>3, ToldFresh DEF Plain
<1> QED
  BY <1>1, <1>4 DEF Tracked

\* Every step leaves the table on its way.
LEMMA NextTracked == IInv /\ Tracked /\ [Next]_vars => Tracked'
<1> SUFFICES ASSUME IInv, Tracked, [Next]_vars PROVE Tracked'
  OBVIOUS
<1>1. CASE Buttons
  BY <1>1, FormTracked, ButtonsTracked, StartTracked DEF Buttons
<1>2. ASSUME NEW i \in DOMAIN calls, Server(i) \/ Answer(i) PROVE Tracked'
  BY <1>2, ServerTracked, AnswerTracked
<1>3. ASSUME NEW i \in DOMAIN calls, Lose(i) PROVE Tracked'
  <2>1. lost' # 0 /\ UNCHANGED <<page, dialog>>
    BY <1>3 DEF Lose, IInv, Types
  <2> QED
    BY <2>1, TrackedIs DEF Tracked
<1>4. CASE UNCHANGED vars
  <2>1. UNCHANGED <<page, rows, table, calls, dialog, left, lost>>
    BY <1>4 DEF vars
  <2> QED
    BY <2>1, TrackedIs DEF Tracked
<1> QED
  BY <1>1, <1>2, <1>3, <1>4 DEF Next

\* Whatever the user does, in whatever order requests are served and answered, the
\* table of a page that waits for its saves shows the server's rows when nothing is
\* under way any more, unless a request was lost or the user was sent away (the
\* reloads after the answers of the pages, and the table's one request at a time).
THEOREM QuietTableIsTrue == Spec => []QuietTableShowsRows
<1>1. Init => IInv /\ Tracked
  BY InitKeeps, InitTracked
<1>2. IInv /\ Tracked /\ [Next]_vars => (IInv /\ Tracked)'
  BY NextKeeps, NextTracked
<1>3. Tracked => QuietTableShowsRows
  <2> SUFFICES ASSUME Tracked, calls = <<>>, left = {}, lost = 0, P.awaited, ~P.own
               PROVE  table = rows
    BY DEF QuietTableShowsRows
  <2>1. Fresh(calls, rows, table)
    BY DEF Tracked, Settled, Told
  <2> QED
    BY <2>1, NoneIs DEF Fresh, Has
<1> QED
  BY <1>1, <1>2, <1>3, PTL DEF Spec

-----------------------------------------------------------------------------
(* What the menus permit: the pages and the menus as they are, whatever is  *)
(* ticked.                                                                  *)

\* One menu lets its user ask for a path.
Lets(m, path) ==
    \/ Open(path)
    \/ m # "*" /\ \E d \in DefaultMenu : d.menu = m /\ \E p \in d.paths : Match(p, path)

\* A page may ask for a path on behalf of who has the menu, or it is a gap.
May(name, m, path) == Lets(m, path) \/ <<name, path>> \in Gaps

\* A page and what it shows ask for what its menu lets, or that of the button.
Provides(name, p) ==
    \A m \in p.menu :
      /\ \A path \in {p.list} \cup p.opening : May(name, m, path)
      /\ \A g \in p.new \cup p.edit \cup p.copy : \A path \in p.modal.fields \cup p.modal.choices :
           May(name, m, path) \/ May(name, g, path)
      /\ \A g \in p.new : May(name, m, p.create) \/ May(name, g, p.create)
      /\ \A g \in p.edit \cup p.copy : \A path \in {p.fetch, p.update} :
           May(name, m, path) \/ May(name, g, path)
      /\ \A b \in p.acts \cup p.batches : \A g \in b.gate :
           May(name, m, b.path) \/ May(name, g, b.path)

\* Shows, Auth: who is shown a page and its button may ask for what the menu of
\* one of them lets.
LEMMA ShownMay ==
    ASSUME NEW name, NEW M, NEW menu, NEW gate, NEW path, Shows(M, menu), Shows(M, gate),
           \A m \in menu : \A g \in gate : May(name, m, path) \/ May(name, g, path)
    PROVE  Auth(M, path) \/ <<name, path>> \in Gaps
<1>1. PICK m \in menu : m = "*" \/ m \in M
  BY DEF Shows, hasMenu, Anyone
<1>2. PICK g \in gate : g = "*" \/ g \in M
  BY DEF Shows, hasMenu, Anyone
<1>3. May(name, m, path) \/ May(name, g, path)
  OBVIOUS
<1>4. ASSUME NEW h, h = "*" \/ h \in M, May(name, h, path)
      PROVE  Auth(M, path) \/ <<name, path>> \in Gaps
  BY <1>4 DEF May, Lets, Auth
<1> QED
  BY <1>1, <1>2, <1>3, <1>4

\* PageTable: the paths of a group.
LEMMA PathIs == \A g, a : <<g>> \o <<a>> = <<g, a>>
<1> TAKE g, a
<1> DEFINE s == <<g>>
           t == <<a>>
           u == s \o t
<1>1. /\ IsSeq(s) /\ Len(s) = 1 /\ s[1] = g /\ IsSeq(t) /\ Len(t) = 1 /\ t[1] = a
  BY OneIs
<1> HIDE DEF s, t
<1>2. /\ IsSeq(u) /\ Len(u) = Len(s) + Len(t)
      /\ \A k \in 1..(Len(s) + Len(t)) : u[k] = IF k <= Len(s) THEN s[k] ELSE t[k - Len(s)]
  BY <1>1, JoinIs
<1> HIDE DEF u
<1>3. Len(u) = 2 /\ u[1] = g /\ u[2] = a
  BY <1>1, <1>2
<1>4. u = [i \in 1..2 |-> u[i]]
  BY <1>2, <1>3, SeqHas
<1>5. u = <<g, a>>
  BY <1>3, <1>4
<1> QED
  BY <1>5 DEF u, s, t

\* PageTable: the paths of a group of a user's own.
LEMMA PathsIs == \A h, g, a : <<h, g>> \o <<a>> = <<h, g, a>>
<1> TAKE h, g, a
<1> DEFINE s == <<h, g>>
           t == <<a>>
           u == s \o t
<1>1. s = [i \in 1..2 |-> s[i]] /\ s[1] = h /\ s[2] = g
  OBVIOUS
<1>2. IsSeq(t) /\ Len(t) = 1 /\ t[1] = a
  BY OneIs
<1> HIDE DEF s, t
<1>3. IsSeq(s) /\ Len(s) = 2
  BY <1>1, SeqIs
<1>4. /\ IsSeq(u) /\ Len(u) = Len(s) + Len(t)
      /\ \A k \in 1..(Len(s) + Len(t)) : u[k] = IF k <= Len(s) THEN s[k] ELSE t[k - Len(s)]
  BY <1>2, <1>3, JoinIs
<1> HIDE DEF u
<1>5. Len(u) = 3 /\ u[1] = h /\ u[2] = g /\ u[3] = a
  BY <1>1, <1>2, <1>3, <1>4
<1>6. u = [i \in 1..3 |-> u[i]]
  BY <1>4, <1>5, SeqHas
<1>7. u = <<h, g, a>>
  BY <1>5, <1>6
<1> QED
  BY <1>7 DEF u, s, t

\* PageTable: a page with a table only.
LEMMA TableMay ==
    ASSUME NEW name, NEW menu, NEW list, \A m \in menu : May(name, m, list)
    PROVE  Provides(name, Table(menu, list))
<1> DEFINE p == Table(menu, list)
<1>1. /\ p.menu = menu /\ p.list = list /\ p.opening = {} /\ p.new = {} /\ p.edit = {}
      /\ p.copy = {} /\ p.acts = {} /\ p.batches = {}
  BY DEF Table
<1> HIDE DEF p, May
<1>2. Provides(name, p)
  BY <1>1 DEF Provides
<1> QED
  BY <1>2 DEF p

\* PageTable: a page with a form, and a button to delete a row.
LEMMA CrudMay ==
    ASSUME NEW name, NEW menu, NEW g, NEW new, NEW edit, NEW del, NEW modal,
           May(name, menu, <<g, "paging">>), May(name, new, <<g>>),
           May(name, edit, <<g, Id>>), May(name, del, <<g, Id>>),
           \A path \in modal.fields \cup modal.choices : May(name, menu, path)
    PROVE  Provides(name, Crud({menu}, <<g>>, {new}, {edit}, {del}, modal))
<1> DEFINE p == Crud({menu}, <<g>>, {new}, {edit}, {del}, modal)
           a == Act({del}, <<g, Id>>, "delete")
<1>1. /\ p.menu = {menu} /\ p.list = <<g, "paging">> /\ p.opening = {} /\ p.new = {new}
      /\ p.edit = {edit} /\ p.copy = {} /\ p.modal = modal /\ p.create = <<g>>
      /\ p.fetch = <<g, Id>> /\ p.update = <<g, Id>> /\ p.acts = {a} /\ p.batches = {}
  BY PathIs DEF Crud, Table
<1>2. a.gate = {del} /\ a.path = <<g, Id>>
  BY DEF Act
<1> HIDE DEF p, a, May
<1>3. Provides(name, p)
  BY <1>1, <1>2 DEF Provides
<1> QED
  BY <1>3 DEF p

\* Match: a path and its pattern.
LEMMA MatchIs ==
    \A a, b, c, d :
      /\ Match(<<a>>, <<a>>)
      /\ Match(<<a, b>>, <<a, b>>) /\ Match(<<a, "*">>, <<a, b>>)
      /\ Match(<<a, b, c>>, <<a, b, c>>) /\ Match(<<a, "*", c>>, <<a, b, c>>)
      /\ Match(<<a, "*", c, d>>, <<a, b, c, d>>)
  BY DEF Match

\* Menus: a menu lists paths.
Listing(m, parent, paths) == \A p \in paths : \A path : Match(p, path) => Lets(m, path)

\* Menus: a menu lets its user ask for what it lists.
LEMMA MenuListing ==
    ASSUME NEW m, m # "*", NEW parent, NEW paths, Menu(m, parent, paths) \in DefaultMenu
    PROVE  Listing(m, parent, paths)
  BY DEF Listing, Lets, Menu

\* Menus: the requests for gateways, credentials and commands.
LEMMA ResourcesLet ==
    /\ Lets("access-gateway", <<"access-gateways", "paging">>)
    /\ Lets("access-gateway-add", <<"access-gateways">>)
    /\ Lets("access-gateway-edit", <<"access-gateways", Id>>)
    /\ Lets("access-gateway-del", <<"access-gateways", Id>>)
    /\ Lets("credential", <<"credentials", "paging">>)
    /\ Lets("credential-add", <<"credentials">>) /\ Lets("credential-edit", <<"credentials", Id>>)
    /\ Lets("credential-del", <<"credentials", Id>>) /\ Lets("command", <<"commands", "paging">>)
    /\ Lets("command-add", <<"commands">>) /\ Lets("command-edit", <<"commands", Id>>)
    /\ Lets("command-del", <<"commands", Id>>)
    /\ Lets("command-change-owner", <<"commands", Id, "change-owner">>)
    /\ Lets("command-exec", <<"assets", "paging">>) /\ Lets("command-exec", <<"tags">>)
<1>1. /\ Listing("access-gateway", "resource", {<<"access-gateways", "paging">>})
      /\ Listing("access-gateway-add", "access-gateway", {<<"access-gateways">>})
      /\ Listing("access-gateway-edit", "access-gateway", {<<"access-gateways", "*">>})
      /\ Listing("access-gateway-del", "access-gateway", {<<"access-gateways", "*">>})
      /\ Listing("credential", "resource", {<<"credentials", "paging">>})
      /\ Listing("credential-add", "credential", {<<"credentials">>})
      /\ Listing("credential-edit", "credential", {<<"credentials", "*">>})
      /\ Listing("credential-del", "credential", {<<"credentials", "*">>})
      /\ Listing("command", "resource", {<<"commands", "paging">>})
      /\ Listing("command-add", "command", {<<"commands">>})
      /\ Listing("command-edit", "command", {<<"commands", "*">>})
      /\ Listing("command-del", "command", {<<"commands", "*">>})
      /\ Listing("command-change-owner", "command", {<<"users">>,
             <<"commands", "*", "change-owner">>})
      /\ Listing("command-exec", "command", {<<"assets", "paging">>, <<"tags">>, <<"sessions">>,
             <<"term">>})
  BY MenuListing DEF DefaultMenu, ResourceMenus
<1> QED
  BY <1>1, MatchIs DEF Listing

\* Menus: the requests for assets.
LEMMA AssetsLet ==
    /\ Lets("asset", <<"assets", "paging">>) /\ Lets("asset", <<"tags">>)
    /\ Lets("asset-add", <<"assets">>) /\ Lets("asset-edit", <<"assets", Id>>)
    /\ Lets("asset-copy", <<"assets", Id>>) /\ Lets("asset-copy", <<"assets">>)
    /\ Lets("asset-del", <<"assets", Id>>) /\ Lets("asset-conn-test", <<"assets", Id, "tcping">>)
    /\ Lets("asset-import", <<"assets", "import">>)
    /\ Lets("asset-change-owner", <<"assets", Id, "change-owner">>)
    /\ Lets("asset-detail", <<"assets", Id>>)
<1>1. /\ Listing("asset", "resource", {<<"assets", "paging">>, <<"tags">>})
      /\ Listing("asset-add", "asset", {<<"assets">>, <<"access-gateways">>, <<"credentials">>})
      /\ Listing("asset-edit", "asset", {<<"assets", "*">>, <<"access-gateways">>,
             <<"credentials">>})
      /\ Listing("asset-copy", "asset", {<<"assets", "*">>, <<"assets">>})
      /\ Listing("asset-del", "asset", {<<"assets", "*">>})
      /\ Listing("asset-conn-test", "asset", {<<"assets", "*", "tcping">>})
      /\ Listing("asset-import", "asset", {<<"assets", "import">>})
      /\ Listing("asset-change-owner", "asset", {<<"users">>, <<"assets", "*", "change-owner">>})
      /\ Listing("asset-detail", "asset", {<<"assets", "*">>})
  BY MenuListing DEF DefaultMenu, ResourceMenus
<1> QED
  BY <1>1, MatchIs DEF Listing

\* Menus: the requests for the grants of an asset.
LEMMA GrantsLet ==
    /\ Lets("asset-authorised-user", <<"authorised", "users", "paging">>)
    /\ Lets("asset-authorised-user", <<"authorised", "users">>)
    /\ Lets("asset-authorised-user", <<"authorised", "selected">>)
    /\ Lets("asset-authorised-user", <<"users">>)
    /\ Lets("asset-authorised-user", <<"strategies">>)
    /\ Lets("asset-authorised-user-del", <<"authorised", Id>>)
    /\ Lets("asset-authorised-user-group", <<"authorised", "user-groups", "paging">>)
    /\ Lets("asset-authorised-user-group", <<"authorised", "user-groups">>)
    /\ Lets("asset-authorised-user-group", <<"authorised", "selected">>)
    /\ Lets("asset-authorised-user-group", <<"user-groups">>)
    /\ Lets("asset-authorised-user-group", <<"strategies">>)
    /\ Lets("asset-authorised-user-group-del", <<"authorised", Id>>)
<1>1. /\ Listing("asset-authorised-user", "asset-detail", {<<"authorised", "users", "paging">>,
             <<"authorised", "selected">>, <<"users">>, <<"strategies">>,
             <<"command-filters">>, <<"authorised", "users">>})
      /\ Listing("asset-authorised-user-del", "asset-authorised-user", {<<"authorised", "*">>})
      /\ Listing("asset-authorised-user-group", "asset-detail", {
             <<"authorised", "user-groups", "paging">>, <<"authorised", "selected">>,
             <<"user-groups">>, <<"strategies">>, <<"command-filters">>,
             <<"authorised", "user-groups">>})
      /\ Listing("asset-authorised-user-group-del", "asset-authorised-user-group", {
             <<"authorised", "*">>})
  BY MenuListing DEF DefaultMenu, ResourceMenus
<1> QED
  BY <1>1, MatchIs DEF Listing

\* Menus: the requests for sessions and logs.
LEMMA AuditLets ==
    /\ Lets("online-session", <<"sessions", "paging">>)
    /\ Lets("online-session-disconnect", <<"sessions", Id, "disconnect">>)
    /\ Lets("offline-session", <<"sessions", "paging">>)
    /\ Lets("offline-session-del", <<"sessions", Id>>)
    /\ Lets("offline-session-clear", <<"sessions", "clear">>)
    /\ Lets("login-log", <<"login-logs", "paging">>)
    /\ Lets("login-log-del", <<"login-logs", Id>>)
    /\ Lets("login-log-clear", <<"login-logs", "clear">>)
<1>1. /\ Listing("online-session", "session-audit", {<<"sessions", "paging">>})
      /\ Listing("online-session-disconnect", "online-session", {
             <<"sessions", "*", "disconnect">>})
      /\ Listing("offline-session", "session-audit", {<<"sessions", "paging">>})
      /\ Listing("offline-session-del", "offline-session", {<<"sessions", "*">>})
      /\ Listing("offline-session-clear", "offline-session", {<<"sessions", "clear">>})
      /\ Listing("login-log", "log-audit", {<<"login-logs", "paging">>})
      /\ Listing("login-log-del", "login-log", {<<"login-logs", "*">>})
      /\ Listing("login-log-clear", "login-log", {<<"login-logs", "clear">>})
  BY MenuListing DEF DefaultMenu, AuditMenus
<1> QED
  BY <1>1, MatchIs DEF Listing

\* Menus: the requests for jobs and storages.
LEMMA OpsLet ==
    /\ Lets("job", <<"jobs", "paging">>) /\ Lets("job-add", <<"jobs">>)
    /\ Lets("job-edit", <<"jobs", Id>>) /\ Lets("job-del", <<"jobs", Id>>)
    /\ Lets("job-run", <<"jobs", Id, "exec">>)
    /\ Lets("job-change-status", <<"jobs", Id, "change-status">>)
    /\ Lets("job-log", <<"jobs", Id, "logs", "paging">>)
    /\ Lets("storage", <<"storages", "paging">>) /\ Lets("storage-add", <<"storages">>)
    /\ Lets("storage-edit", <<"storages", Id>>) /\ Lets("storage-del", <<"storages", Id>>)
<1>1. /\ Listing("job", "ops", {<<"jobs", "paging">>})
      /\ Listing("job-add", "job", {<<"jobs">>, <<"assets", "paging">>})
      /\ Listing("job-edit", "job", {<<"jobs", "*">>, <<"assets", "paging">>})
      /\ Listing("job-del", "job", {<<"jobs", "*">>})
      /\ Listing("job-run", "job", {<<"jobs", "*", "exec">>})
      /\ Listing("job-change-status", "job", {<<"jobs", "*", "change-status">>})
      /\ Listing("job-log", "job", {<<"jobs", "*", "logs", "paging">>})
      /\ Listing("storage", "ops", {<<"storages", "paging">>})
      /\ Listing("storage-add", "storage", {<<"storages">>})
      /\ Listing("storage-edit", "storage", {<<"storages", "*">>})
      /\ Listing("storage-del", "storage", {<<"storages", "*">>})
  BY MenuListing DEF DefaultMenu, OpsMenus
<1> QED
  BY <1>1, MatchIs DEF Listing

\* Menus: the requests for rules and policies of access and of logins.
LEMMA SecurityLets ==
    /\ Lets("access-security", <<"securities", "paging">>)
    /\ Lets("access-security-add", <<"securities">>)
    /\ Lets("access-security-edit", <<"securities", Id>>)
    /\ Lets("access-security-del", <<"securities", Id>>)
    /\ Lets("login-policy", <<"login-policies", "paging">>)
    /\ Lets("login-policy-add", <<"login-policies">>)
    /\ Lets("login-policy-edit", <<"login-policies", Id>>)
    /\ Lets("login-policy-del", <<"login-policies", Id>>)
    /\ Lets("login-policy-detail", <<"login-policies", Id>>)
<1>1. /\ Listing("access-security", "security", {<<"securities", "paging">>})
      /\ Listing("access-security-add", "access-security", {<<"securities">>})
      /\ Listing("access-security-edit", "access-security", {<<"securities", "*">>})
      /\ Listing("access-security-del", "access-security", {<<"securities", "*">>})
      /\ Listing("login-policy", "security", {<<"login-policies", "paging">>})
      /\ Listing("login-policy-add", "login-policy", {<<"login-policies">>})
      /\ Listing("login-policy-edit", "login-policy", {<<"login-policies", "*">>})
      /\ Listing("login-policy-del", "login-policy", {<<"login-policies", "*">>})
      /\ Listing("login-policy-detail", "login-policy", {<<"login-policies", "*">>})
  BY MenuListing DEF DefaultMenu, SecurityMenus
<1> QED
  BY <1>1, MatchIs DEF Listing

\* Menus: the requests for users and what they may use.
LEMMA UsersLet ==
    /\ Lets("user", <<"users", "paging">>) /\ Lets("user", <<"roles">>)
    /\ Lets("user-add", <<"users">>) /\ Lets("user-edit", <<"users", Id>>)
    /\ Lets("user-del", <<"users", Id>>)
    /\ Lets("user-change-password", <<"users", Id, "change-password">>)
    /\ Lets("user-reset-totp", <<"users", Id, "reset-totp">>)
    /\ Lets("user-detail", <<"users", Id>>)
    /\ Lets("user-authorised-asset", <<"authorised", "assets", "paging">>)
    /\ Lets("user-bind-asset", <<"authorised", "selected">>)
    /\ Lets("user-bind-asset", <<"assets">>) /\ Lets("user-bind-asset", <<"strategies">>)
    /\ Lets("user-unbind-asset", <<"authorised", Id>>)
    /\ Lets("user-login-policy", <<"login-policies", "paging">>)
<1>1. /\ Listing("user", "identity", {<<"users", "paging">>, <<"roles">>})
      /\ Listing("user-add", "user", {<<"users">>})
      /\ Listing("user-edit", "user", {<<"users", "*">>})
      /\ Listing("user-del", "user", {<<"users", "*">>})
      /\ Listing("user-change-password", "user", {<<"users", "*", "change-password">>})
      /\ Listing("user-reset-totp", "user", {<<"users", "*", "reset-totp">>})
      /\ Listing("user-detail", "user", {<<"users", "*">>, <<"authorised", "assets", "paging">>})
      /\ Listing("user-authorised-asset", "user-detail", {<<"authorised", "assets", "paging">>})
      /\ Listing("user-bind-asset", "user-authorised-asset", {<<"authorised", "selected">>,
             <<"assets">>, <<"strategies">>, <<"command-filters">>})
      /\ Listing("user-unbind-asset", "user-authorised-asset", {<<"authorised", "*">>})
      /\ Listing("user-login-policy", "user-detail", {<<"login-policies", "paging">>})
  BY MenuListing DEF DefaultMenu, IdentityMenus
<1> QED
  BY <1>1, MatchIs DEF Listing

\* Menus: the requests for roles and groups.
LEMMA RolesLet ==
    /\ Lets("role", <<"roles", "paging">>) /\ Lets("role-add", <<"roles">>)
    /\ Lets("role-edit", <<"roles", Id>>) /\ Lets("role-del", <<"roles", Id>>)
    /\ Lets("role-detail", <<"roles", Id>>) /\ Lets("role-detail", <<"menus">>)
    /\ Lets("user-group", <<"user-groups", "paging">>)
    /\ Lets("user-group-add", <<"user-groups">>) /\ Lets("user-group-edit", <<"user-groups", Id>>)
    /\ Lets("user-group-detail", <<"user-groups", Id>>)
    /\ Lets("user-group-bind-asset", <<"authorised", "selected">>)
    /\ Lets("user-group-bind-asset", <<"assets">>)
    /\ Lets("user-group-bind-asset", <<"strategies">>)
    /\ Lets("user-group-unbind-asset", <<"authorised", Id>>)
<1>1. /\ Listing("role", "identity", {<<"roles", "paging">>})
      /\ Listing("role-add", "role", {<<"roles">>})
      /\ Listing("role-edit", "role", {<<"roles", "*">>})
      /\ Listing("role-del", "role", {<<"roles", "*">>})
      /\ Listing("role-detail", "role", {<<"roles", "*">>, <<"menus">>})
      /\ Listing("user-group", "identity", {<<"user-groups", "paging">>})
      /\ Listing("user-group-add", "user-group", {<<"user-groups">>})
      /\ Listing("user-group-edit", "user-group", {<<"user-groups", "*">>})
      /\ Listing("user-group-detail", "user-group", {<<"user-groups", "*">>})
      /\ Listing("user-group-bind-asset", "user-group-authorised-asset", {
             <<"authorised", "selected">>, <<"assets">>, <<"strategies">>,
             <<"command-filters">>})
      /\ Listing("user-group-unbind-asset", "user-group-authorised-asset", {
             <<"authorised", "*">>})
  BY MenuListing DEF DefaultMenu, IdentityMenus
<1> QED
  BY <1>1, MatchIs DEF Listing

\* Menus: the requests for strategies.
LEMMA StrategiesLet ==
    /\ Lets("strategy", <<"strategies", "paging">>) /\ Lets("strategy-add", <<"strategies">>)
    /\ Lets("strategy-edit", <<"strategies", Id>>) /\ Lets("strategy-del", <<"strategies", Id>>)
    /\ Lets("strategy-detail", <<"strategies", Id>>)
<1>1. /\ Listing("strategy", "authorised", {<<"strategies", "paging">>})
      /\ Listing("strategy-add", "strategy", {<<"strategies">>})
      /\ Listing("strategy-edit", "strategy", {<<"strategies", "*">>})
      /\ Listing("strategy-del", "strategy", {<<"strategies", "*">>})
      /\ Listing("strategy-detail", "strategy", {<<"strategies", "*">>})
  BY MenuListing DEF DefaultMenu, AuthorisedMenus
<1> QED
  BY <1>1, MatchIs DEF Listing

\* Auth: what every user may ask for.
LEMMA WorkersLet ==
    \A m : /\ Lets(m, <<"worker", "assets", "paging">>) /\ Lets(m, <<"worker", "assets", "tags">>)
           /\ Lets(m, <<"worker", "commands", "paging">>) /\ Lets(m, <<"worker", "commands">>)
           /\ Lets(m, <<"worker", "commands", Id>>)
  BY DEF Lets, Open

\* Gaps: what the menus leave out.
LEMMA GapsMay ==
    \A m :
      /\ May("Asset", m, <<"access-gateways">>) /\ May("Asset", m, <<"credentials">>)
      /\ May("Asset", m, <<"storages", "shares">>) /\ May("Job", m, <<"assets">>)
      /\ May("JobLog", m, <<"jobs", Id, "logs">>)
      /\ May("LoginPolicyBind", m, <<"login-policies", Id, "bind">>)
      /\ May("LoginPolicyBind", m, <<"login-policies", Id, "users", "id">>)
      /\ May("LoginPolicyBind", m, <<"users", "paging">>)
      /\ May("LoginPolicyUser", m, <<"login-policies", Id, "unbind">>)
      /\ May("LoginPolicyUser", m, <<"login-policies", Id, "users", "paging">>)
      /\ May("OfflineSession", m, <<"users">>) /\ May("OfflineSession", m, <<"assets">>)
      /\ May("OnlineSession", m, <<"users">>) /\ May("OnlineSession", m, <<"assets">>)
      /\ May("Role", m, <<"menus">>) /\ May("User", m, <<"users", Id, "status">>)
      /\ May("UserAsset", m, <<"authorised", "assets">>)
      /\ May("UserGroup", m, <<"user-groups", Id>>) /\ May("UserGroup", m, <<"users">>)
      /\ May("UserGroupAsset", m, <<"authorised", "assets">>)
      /\ May("UserGroupAsset", m, <<"authorised", "assets", "paging">>)
      /\ May("UserLoginPolicy", m, <<"login-policies", Id, "unbind">>)
  BY DEF May, Gaps

\* PageTable: a form that asks for nothing else.
AsksNothing(modal) == modal.fields = {} /\ modal.choices = {}

\* PageTable: these do not.
LEMMA FormsAskNothing ==
    /\ AsksNothing(CredentialModal) /\ AsksNothing(CommandModal) /\ AsksNothing(AccessGatewayModal)
    /\ AsksNothing(StorageModal) /\ AsksNothing(SecurityModal) /\ AsksNothing(LoginPolicyModal)
    /\ AsksNothing(StrategyModal) /\ AsksNothing(JobModal) /\ AsksNothing(UserModal)
<1>1. AsksNothing(CredentialModal) /\ AsksNothing(CommandModal) /\ AsksNothing(AccessGatewayModal)
  BY DEF AsksNothing, CredentialModal, CommandModal, AccessGatewayModal, Form
<1>2. AsksNothing(SecurityModal) /\ AsksNothing(LoginPolicyModal) /\ AsksNothing(StrategyModal)
  BY DEF AsksNothing, SecurityModal, LoginPolicyModal, StrategyModal, Form
<1>3. AsksNothing(StorageModal) /\ AsksNothing(UserModal)
  BY DEF AsksNothing, StorageModal, UserModal, QueryForm, Form
<1>4. AsksNothing(JobModal)
  BY DEF AsksNothing, JobModal, QueryForm, Form
<1> QED
  BY <1>1, <1>2, <1>3, <1>4

\* PageTable: a page with a form, whose four menus let it ask.
LEMMA FourMay ==
    ASSUME NEW name, NEW menu, NEW g, NEW new, NEW edit, NEW del, NEW modal, AsksNothing(modal),
           Lets(menu, <<g, "paging">>), Lets(new, <<g>>), Lets(edit, <<g, Id>>),
           Lets(del, <<g, Id>>)
    PROVE  Provides(name, Crud({menu}, <<g>>, {new}, {edit}, {del}, modal))
<1>1. /\ May(name, menu, <<g, "paging">>) /\ May(name, new, <<g>>)
      /\ May(name, edit, <<g, Id>>) /\ May(name, del, <<g, Id>>)
  BY DEF May
<1>2. \A path \in modal.fields \cup modal.choices : May(name, menu, path)
  BY DEF AsksNothing
<1> QED
  BY <1>1, <1>2, CrudMay

\* Gateways, credentials, storages, rules, policies and strategies.
LEMMA CrudsMay ==
    /\ Provides("AccessGateway", AccessGateway) /\ Provides("Credential", Credential)
    /\ Provides("Storage", Storage) /\ Provides("Security", Security)
    /\ Provides("LoginPolicy", LoginPolicy) /\ Provides("Strategy", Strategy)
<1>1. Provides("AccessGateway", AccessGateway)
  BY ResourcesLet, FourMay, FormsAskNothing DEF AccessGateway
<1>2. Provides("Credential", Credential)
  BY ResourcesLet, FourMay, FormsAskNothing DEF Credential
<1>3. Provides("Storage", Storage)
  BY OpsLet, FourMay, FormsAskNothing DEF Storage
<1>4. Provides("Security", Security)
  BY SecurityLets, FourMay, FormsAskNothing DEF Security
<1>5. Provides("LoginPolicy", LoginPolicy)
  BY SecurityLets, FourMay, FormsAskNothing DEF LoginPolicy
<1>6. Provides("Strategy", Strategy)
  BY StrategiesLet, FourMay, FormsAskNothing DEF Strategy
<1> QED
  BY <1>1, <1>2, <1>3, <1>4, <1>5, <1>6

\* The roles and the groups: their forms ask for what no menu of theirs lets, and
\* so does the button that removes a group.
LEMMA RolesMay == Provides("Role", Role) /\ Provides("UserGroup", UserGroup)
<1>1. Provides("Role", Role)
  <2>1. /\ May("Role", "role", <<"roles", "paging">>) /\ May("Role", "role-add", <<"roles">>)
        /\ May("Role", "role-edit", <<"roles", Id>>) /\ May("Role", "role-del", <<"roles", Id>>)
    BY RolesLet DEF May
  <2>2. RoleModal.fields = {<<"menus">>} /\ RoleModal.choices = {}
    BY DEF RoleModal, QueryForm, Form
  <2>3. \A path \in RoleModal.fields \cup RoleModal.choices : May("Role", "role", path)
    BY <2>2, GapsMay
  <2> QED
    BY <2>1, <2>3, CrudMay DEF Role
<1>2. Provides("UserGroup", UserGroup)
  <2>1. /\ May("UserGroup", "user-group", <<"user-groups", "paging">>)
        /\ May("UserGroup", "user-group-add", <<"user-groups">>)
    BY RolesLet DEF May
  <2>2. /\ May("UserGroup", "user-group-edit", <<"user-groups", Id>>)
        /\ May("UserGroup", "user-group-del", <<"user-groups", Id>>)
    BY GapsMay
  <2>3. UserGroupModal.fields = {<<"users">>} /\ UserGroupModal.choices = {}
    BY DEF UserGroupModal, QueryForm, Form
  <2>4. \A path \in UserGroupModal.fields \cup UserGroupModal.choices :
          May("UserGroup", "user-group", path)
    BY <2>3, GapsMay
  <2> QED
    BY <2>1, <2>2, <2>4, CrudMay DEF UserGroup
<1> QED
  BY <1>1, <1>2

\* The pages that show one record.
LEMMA InfosMay ==
    /\ Provides("AssetInfo", AssetInfo) /\ Provides("LoginPolicyInfo", LoginPolicyInfo)
    /\ Provides("StrategyInfo", StrategyInfo) /\ Provides("UserInfo", UserInfo)
    /\ Provides("UserGroupInfo", UserGroupInfo) /\ Provides("RoleInfo", RoleInfo)
<1>1. ASSUME NEW name, NEW m, NEW list, Lets(m, list) PROVE Provides(name, Table({m}, list))
  BY <1>1, TableMay DEF May
<1>2. Provides("AssetInfo", AssetInfo)
  BY <1>1, AssetsLet DEF AssetInfo, AssetDetail
<1>3. Provides("LoginPolicyInfo", LoginPolicyInfo)
  BY <1>1, SecurityLets DEF LoginPolicyInfo, LoginPolicyDetail
<1>4. Provides("StrategyInfo", StrategyInfo)
  BY <1>1, StrategiesLet DEF StrategyInfo
<1>5. Provides("UserInfo", UserInfo)
  BY <1>1, UsersLet DEF UserInfo, UserDetailPage
<1>6. Provides("UserGroupInfo", UserGroupInfo)
  BY <1>1, RolesLet DEF UserGroupInfo, UserGroupDetail
<1>7. Provides("RoleInfo", RoleInfo)
  <2>1. /\ May("RoleInfo", "role-detail", <<"roles", Id>>)
        /\ May("RoleInfo", "role-detail", <<"menus">>)
    BY RolesLet DEF May
  <2>2. /\ RoleInfo.menu = {"role-detail"} /\ RoleInfo.list = <<"roles", Id>>
        /\ RoleInfo.opening = {<<"menus">>} /\ RoleInfo.new = {} /\ RoleInfo.edit = {}
        /\ RoleInfo.copy = {} /\ RoleInfo.acts = {} /\ RoleInfo.batches = {}
    BY DEF RoleInfo, Table
  <2> QED
    BY <2>1, <2>2 DEF Provides
<1> QED
  BY <1>2, <1>3, <1>4, <1>5, <1>6, <1>7

\* PageTable: the pages of grants.
LEMMA GrantMay ==
    ASSUME NEW name, NEW menu, NEW kind, NEW new, NEW del, NEW fields,
           May(name, menu, <<"authorised", kind, "paging">>),
           May(name, menu, <<"authorised", kind>>),
           \A g \in new : \A path \in fields : May(name, menu, path) \/ May(name, g, path),
           \A g \in del : May(name, g, <<"authorised", Id>>)
    PROVE  Provides(name, Grants({menu}, kind, new, del, Form(fields)))
<1> DEFINE p == Grants({menu}, kind, new, del, Form(fields))
           a == Act(del, <<"authorised", Id>>, "delete")
<1>1. /\ p.menu = {menu} /\ p.list = <<"authorised", kind, "paging">> /\ p.opening = {}
      /\ p.new = new /\ p.edit = {} /\ p.copy = {} /\ p.modal = Form(fields)
      /\ p.create = <<"authorised", kind>> /\ p.acts = {a} /\ p.batches = {}
  BY DEF Grants, Table
<1>2. Form(fields).fields = fields /\ Form(fields).choices = {}
  BY DEF Form
<1>3. a.gate = del /\ a.path = <<"authorised", Id>>
  BY DEF Act
<1> HIDE DEF p, a
<1>4. Provides(name, p)
  BY <1>1, <1>2, <1>3 DEF Provides
<1> QED
  BY <1>4 DEF p

\* The grants of an asset.
LEMMA AssetGrantsMay ==
    Provides("AssetUser", AssetUser) /\ Provides("AssetUserGroup", AssetUserGroup)
<1>1. Provides("AssetUser", AssetUser)
  <2> DEFINE m == "asset-authorised-user"
             n == "AssetUser"
  <2>1. /\ May(n, m, <<"authorised", "users", "paging">>) /\ May(n, m, <<"authorised", "users">>)
        /\ May(n, "asset-authorised-user-del", <<"authorised", Id>>)
    BY GrantsLet DEF May
  <2>2. \A path \in {<<"authorised", "selected">>, <<"users">>, <<"strategies">>} : May(n, m, path)
    BY GrantsLet DEF May
  <2> QED
    BY <2>1, <2>2, GrantMay DEF AssetUser, AssetDetail, AssetUserBind
<1>2. Provides("AssetUserGroup", AssetUserGroup)
  <2> DEFINE m == "asset-authorised-user-group"
             n == "AssetUserGroup"
  <2>1. /\ May(n, m, <<"authorised", "user-groups", "paging">>)
        /\ May(n, m, <<"authorised", "user-groups">>)
        /\ May(n, "asset-authorised-user-group-del", <<"authorised", Id>>)
    BY GrantsLet DEF May
  <2>2. \A path \in {<<"authorised", "selected">>, <<"user-groups">>, <<"strategies">>} :
          May(n, m, path)
    BY GrantsLet DEF May
  <2> QED
    BY <2>1, <2>2, GrantMay DEF AssetUserGroup, AssetDetail, AssetUserGroupBind
<1> QED
  BY <1>1, <1>2

\* The grants of a user and of a group.
LEMMA UserGrantsMay ==
    /\ Provides("UserAsset", UserAsset(UserDetailPage.assets))
    /\ Provides("UserGroupAsset", UserAsset(UserGroupDetail.assets))
<1>1. \A n : \A g \in {"user-bind-asset", "user-group-bind-asset"} :
        \A path \in {<<"authorised", "selected">>, <<"assets">>, <<"strategies">>} : May(n, g, path)
  BY UsersLet, RolesLet DEF May
<1>2. \A n : \A g \in {"user-unbind-asset", "user-group-unbind-asset"} :
        May(n, g, <<"authorised", Id>>)
  BY UsersLet, RolesLet DEF May
<1>3. Provides("UserAsset", UserAsset(UserDetailPage.assets))
  <2>1. May("UserAsset", "user-authorised-asset", <<"authorised", "assets", "paging">>)
    BY UsersLet DEF May
  <2> QED
    BY <1>1, <1>2, <2>1, GapsMay, GrantMay DEF UserAsset, UserDetailPage, UserAuthorised
<1>4. Provides("UserGroupAsset", UserAsset(UserGroupDetail.assets))
  BY <1>1, <1>2, GapsMay, GrantMay DEF UserAsset, UserGroupDetail, UserAuthorised
<1> QED
  BY <1>3, <1>4

\* PageTable: where a button is and what it asks for.
Asks(b, gate, path) == b.gate = gate /\ b.path = path

\* PageTable: the buttons of rows and over rows.
LEMMA AsksIs ==
    ASSUME NEW gate, NEW path, NEW effect, NEW of, NEW after, NEW group
    PROVE  /\ Asks(Act(gate, path, effect), gate, path)
           /\ Asks([Act(gate, path, effect) EXCEPT !.then = after], gate, path)
           /\ Asks(ChangeOwner(gate, group), gate, <<group, Id, "change-owner">>)
           /\ Asks(Batch(gate, path, effect, of, after), gate, path)
           /\ Asks(Unasked(Batch(gate, path, effect, of, after)), gate, path)
  BY DEF Asks, Act, ChangeOwner, Batch, Unasked

\* PageTable: a button asks for what its own menu lets.
LEMMA ButtonMay ==
    ASSUME NEW name, NEW b, NEW gate, NEW path, Asks(b, gate, path),
           \A g \in gate : May(name, g, path)
    PROVE  \A g \in b.gate : May(name, g, b.path)
  BY DEF Asks

\* PageTable: a page with buttons and no form.
LEMMA FormlessMay ==
    ASSUME NEW name, NEW p, NEW m, p.menu = {m}, p.new = {}, p.edit = {}, p.copy = {},
           May(name, m, p.list), \A path \in p.opening : May(name, m, path),
           \A b \in p.acts \cup p.batches : \A g \in b.gate : May(name, g, b.path)
    PROVE  Provides(name, p)
  BY DEF Provides

\* The tables of policies, and the one a command is executed from.
LEMMA TablesMay ==
    /\ Provides("LoginPolicyBind", LoginPolicyBind) /\ Provides("LoginPolicyUser", LoginPolicyUser)
    /\ Provides("UserLoginPolicy", UserLoginPolicy) /\ Provides("SelectingAsset", SelectingAsset)
<1>1. Provides("LoginPolicyBind", LoginPolicyBind)
  <2> DEFINE a == Act(Anyone, <<"login-policies", Id, "bind">>, "none")
             p == LoginPolicyBind
  <2>1. /\ p.menu = {"login-policy-bind-user"} /\ p.list = <<"users", "paging">>
        /\ p.opening = {<<"login-policies", Id, "users", "id">>} /\ p.acts = {a}
        /\ p.batches = {} /\ p.new = {} /\ p.edit = {} /\ p.copy = {}
    BY DEF LoginPolicyBind, Table
  <2>2. Asks(a, Anyone, <<"login-policies", Id, "bind">>)
    BY AsksIs
  <2> HIDE DEF a, p
  <2>3. \A g \in a.gate : May("LoginPolicyBind", g, a.path)
    BY <2>2, GapsMay, ButtonMay
  <2>4. /\ May("LoginPolicyBind", "login-policy-bind-user", <<"users", "paging">>)
        /\ May("LoginPolicyBind", "login-policy-bind-user", <<"login-policies", Id, "users", "id">>)
    BY GapsMay
  <2>5. Provides("LoginPolicyBind", p)
    BY <2>1, <2>3, <2>4, FormlessMay
  <2> QED
    BY <2>5 DEF p
<1>2. Provides("LoginPolicyUser", LoginPolicyUser)
  <2> DEFINE a == Act({"login-policy-unbind-user"}, <<"login-policies", Id, "unbind">>, "delete")
             p == LoginPolicyUser
  <2>1. /\ p.menu = {"login-policy-detail"}
        /\ p.list = <<"login-policies", Id, "users", "paging">> /\ p.opening = {} /\ p.acts = {a}
        /\ p.batches = {} /\ p.new = {} /\ p.edit = {} /\ p.copy = {}
    BY DEF LoginPolicyUser, LoginPolicyDetail, Table
  <2>2. Asks(a, {"login-policy-unbind-user"}, <<"login-policies", Id, "unbind">>)
    BY AsksIs
  <2> HIDE DEF a, p
  <2>3. \A g \in a.gate : May("LoginPolicyUser", g, a.path)
    BY <2>2, GapsMay, ButtonMay
  <2>4. May("LoginPolicyUser", "login-policy-detail", <<"login-policies", Id, "users", "paging">>)
    BY GapsMay
  <2>5. Provides("LoginPolicyUser", p)
    BY <2>1, <2>3, <2>4, FormlessMay
  <2> QED
    BY <2>5 DEF p
<1>3. Provides("UserLoginPolicy", UserLoginPolicy)
  <2> DEFINE a == Act(Anyone, <<"login-policies", Id, "unbind">>, "delete")
             p == UserLoginPolicy
  <2>1. /\ p.menu = {"user-login-policy"}
        /\ p.list = <<"login-policies", "paging">> /\ p.opening = {} /\ p.acts = {a}
        /\ p.batches = {} /\ p.new = {} /\ p.edit = {} /\ p.copy = {}
    BY DEF UserLoginPolicy, UserDetailPage, Table
  <2>2. Asks(a, Anyone, <<"login-policies", Id, "unbind">>)
    BY AsksIs
  <2>3. May("UserLoginPolicy", "user-login-policy", <<"login-policies", "paging">>)
    BY UsersLet DEF May
  <2> HIDE DEF a, p
  <2>4. \A g \in a.gate : May("UserLoginPolicy", g, a.path)
    BY <2>2, GapsMay, ButtonMay
  <2>5. Provides("UserLoginPolicy", p)
    BY <2>1, <2>3, <2>4, FormlessMay
  <2> QED
    BY <2>5 DEF p
<1>4. Provides("SelectingAsset", SelectingAsset)
  <2> DEFINE p == SelectingAsset
  <2>1. /\ p.menu = {"command-exec"} /\ p.list = <<"assets", "paging">>
        /\ p.opening = {<<"tags">>} /\ p.acts = {} /\ p.batches = {}
        /\ p.new = {} /\ p.edit = {} /\ p.copy = {}
    BY DEF SelectingAsset, Table
  <2>2. /\ May("SelectingAsset", "command-exec", <<"assets", "paging">>)
        /\ May("SelectingAsset", "command-exec", <<"tags">>)
    BY ResourcesLet DEF May
  <2> HIDE DEF p
  <2>3. Provides("SelectingAsset", p)
    BY <2>1, <2>2, FormlessMay
  <2> QED
    BY <2>3 DEF p
<1> QED
  BY <1>1, <1>2, <1>3, <1>4

\* The sessions and the logs.
LEMMA AuditMay ==
    /\ Provides("OnlineSession", OnlineSession) /\ Provides("OfflineSession", OfflineSession)
    /\ Provides("LoginLog", LoginLog) /\ Provides("JobLog", JobLog)
<1>1. Provides("OnlineSession", OnlineSession)
  <2> DEFINE a == Act({"online-session-disconnect"}, <<"sessions", Id, "disconnect">>, "delete")
             p == OnlineSession
             n == "OnlineSession"
  <2>1. /\ p.menu = {"online-session"} /\ p.list = <<"sessions", "paging">>
        /\ p.opening = {<<"users">>, <<"assets">>} /\ p.acts = {a} /\ p.batches = {}
        /\ p.new = {} /\ p.edit = {} /\ p.copy = {}
    BY DEF OnlineSession, SessionQueries, Table
  <2>2. Asks(a, {"online-session-disconnect"}, <<"sessions", Id, "disconnect">>)
    BY AsksIs
  <2>3. /\ May(n, "online-session", <<"sessions", "paging">>)
        /\ May(n, "online-session-disconnect", <<"sessions", Id, "disconnect">>)
    BY AuditLets DEF May
  <2> HIDE DEF a, p
  <2>4. \A g \in a.gate : May(n, g, a.path)
    BY <2>2, <2>3 DEF Asks
  <2>5. \A path \in p.opening : May(n, "online-session", path)
    BY <2>1, GapsMay
  <2>6. Provides(n, p)
    BY <2>1, <2>3, <2>4, <2>5, FormlessMay
  <2> QED
    BY <2>6 DEF p
<1>2. Provides("OfflineSession", OfflineSession)
  <2> DEFINE a == Act({"offline-session-del"}, <<"sessions", Id>>, "delete")
             b == Batch({"offline-session-del"}, <<"sessions", Id>>, "delete", "selected", "clear")
             c == Batch({"offline-session-clear"}, <<"sessions", "clear">>, "delete", "all",
                        "clear")
             p == OfflineSession
             n == "OfflineSession"
  <2>1. /\ p.menu = {"offline-session"} /\ p.list = <<"sessions", "paging">>
        /\ p.opening = {<<"users">>, <<"assets">>} /\ p.acts = {a} /\ p.batches = {b, c}
        /\ p.new = {} /\ p.edit = {} /\ p.copy = {}
    BY DEF OfflineSession, OfflineBatches, SessionQueries, Table
  <2>2. /\ Asks(a, {"offline-session-del"}, <<"sessions", Id>>)
        /\ Asks(b, {"offline-session-del"}, <<"sessions", Id>>)
        /\ Asks(c, {"offline-session-clear"}, <<"sessions", "clear">>)
    BY AsksIs
  <2>3. /\ May(n, "offline-session", <<"sessions", "paging">>)
        /\ May(n, "offline-session-del", <<"sessions", Id>>)
        /\ May(n, "offline-session-clear", <<"sessions", "clear">>)
    BY AuditLets DEF May
  <2> HIDE DEF a, b, c, p
  <2>4. /\ \A g \in a.gate : May(n, g, a.path)
        /\ \A g \in b.gate : May(n, g, b.path)
        /\ \A g \in c.gate : May(n, g, c.path)
    BY <2>2, <2>3 DEF Asks
  <2>5. \A path \in p.opening : May(n, "offline-session", path)
    BY <2>1, GapsMay
  <2>6. Provides(n, p)
    BY <2>1, <2>3, <2>4, <2>5, FormlessMay
  <2> QED
    BY <2>6 DEF p
<1>3. Provides("LoginLog", LoginLog)
  <2> DEFINE a == Act({"login-log-del"}, <<"login-logs", Id>>, "delete")
             b == Batch({"login-log-del"}, <<"login-logs", Id>>, "delete", "selected", "clear")
             c == Batch({"login-log-clear"}, <<"login-logs", "clear">>, "delete", "shown", "reload")
             p == LoginLog
             n == "LoginLog"
  <2>1. /\ p.menu = {"login-log"} /\ p.list = <<"login-logs", "paging">>
        /\ p.opening = {} /\ p.acts = {a} /\ p.batches = {b, c}
        /\ p.new = {} /\ p.edit = {} /\ p.copy = {}
    BY DEF LoginLog, LogBatches, Table
  <2>2. /\ Asks(a, {"login-log-del"}, <<"login-logs", Id>>)
        /\ Asks(b, {"login-log-del"}, <<"login-logs", Id>>)
        /\ Asks(c, {"login-log-clear"}, <<"login-logs", "clear">>)
    BY AsksIs
  <2>3. /\ May(n, "login-log", <<"login-logs", "paging">>)
        /\ May(n, "login-log-del", <<"login-logs", Id>>)
        /\ May(n, "login-log-clear", <<"login-logs", "clear">>)
    BY AuditLets DEF May
  <2> HIDE DEF a, b, c, p
  <2>4. /\ \A g \in a.gate : May(n, g, a.path)
        /\ \A g \in b.gate : May(n, g, b.path)
        /\ \A g \in c.gate : May(n, g, c.path)
    BY <2>2, <2>3 DEF Asks
  <2>5. Provides(n, p)
    BY <2>1, <2>3, <2>4, FormlessMay
  <2> QED
    BY <2>5 DEF p
<1>4. Provides("JobLog", JobLog)
  <2> DEFINE b == Unasked(Batch(Anyone, <<"jobs", Id, "logs">>, "delete", "all", "reload"))
             p == JobLog
             n == "JobLog"
  <2>1. /\ p.menu = {"job-log"} /\ p.list = <<"jobs", Id, "logs", "paging">>
        /\ p.opening = {} /\ p.acts = {} /\ p.batches = {b}
        /\ p.new = {} /\ p.edit = {} /\ p.copy = {}
    BY DEF JobLog, Table
  <2>2. Asks(b, Anyone, <<"jobs", Id, "logs">>)
    BY AsksIs
  <2>3. May(n, "job-log", <<"jobs", Id, "logs", "paging">>)
    BY OpsLet DEF May
  <2> HIDE DEF b, p
  <2>4. \A g \in b.gate : May(n, g, b.path)
    BY <2>2, GapsMay, ButtonMay
  <2>5. Provides(n, p)
    BY <2>1, <2>3, <2>4, FormlessMay
  <2> QED
    BY <2>5 DEF p
<1> QED
  BY <1>1, <1>2, <1>3, <1>4

\* PageTable: a page with buttons and a form, whose fields the menu of the page lets ask.
LEMMA FormfulMay ==
    ASSUME NEW name, NEW p, NEW m, p.menu = {m},
           May(name, m, p.list), \A path \in p.opening : May(name, m, path),
           \A path \in p.modal.fields \cup p.modal.choices : May(name, m, path),
           \A g \in p.new : May(name, g, p.create),
           \A g \in p.edit \cup p.copy : May(name, g, p.fetch) /\ May(name, g, p.update),
           \A b \in p.acts \cup p.batches : \A g \in b.gate : May(name, g, b.path)
    PROVE  Provides(name, p)
  BY DEF Provides

\* The assets: their form asks for what only those who add or change one may have.
LEMMA AssetMay == Provides("Asset", AssetWithOwner)
<1> DEFINE p == AssetWithOwner
           n == "Asset"
           a == Act({"asset-del"}, <<"assets", Id>>, "delete")
           b == [Act({"asset-conn-test"}, <<"assets", Id, "tcping">>, "none") EXCEPT
                   !.then = "rows"]
           c == ChangeOwner({"asset-change-owner"}, "assets")
           d == Unasked(Batch({"asset-import"}, <<"assets", "import">>, "import", "none",
                              "success"))
           e == Batch({"asset-del"}, <<"assets", Id>>, "delete", "selected", "clear")
           f == Unasked(Batch({"asset-conn-test"}, <<"assets", Id, "tcping">>, "none", "selected",
                              "test"))
<1>1. /\ p.menu = {"asset"} /\ p.list = <<"assets", "paging">> /\ p.opening = {<<"tags">>}
      /\ p.new = {"asset-add"} /\ p.edit = {"asset-edit"} /\ p.copy = {"asset-copy"}
      /\ p.create = <<"assets">> /\ p.fetch = <<"assets", Id>>
      /\ p.update = <<"assets", Id>> /\ p.modal = AssetModal
      /\ p.batches = AssetBatches /\ p.acts = AssetActs \cup {c}
  BY PathIs DEF AssetWithOwner, Asset, Crud, Table
<1>2. AssetActs = {a, b} /\ AssetBatches = {d, e, f}
  BY DEF AssetActs, AssetBatches
<1>3. /\ AssetModal.fields = {<<"tags">>, <<"access-gateways">>}
      /\ AssetModal.choices = {<<"credentials">>, <<"storages", "shares">>}
  BY DEF AssetModal, Form
<1>4. /\ Asks(a, {"asset-del"}, <<"assets", Id>>)
      /\ Asks(b, {"asset-conn-test"}, <<"assets", Id, "tcping">>)
      /\ Asks(c, {"asset-change-owner"}, <<"assets", Id, "change-owner">>)
      /\ Asks(d, {"asset-import"}, <<"assets", "import">>)
      /\ Asks(e, {"asset-del"}, <<"assets", Id>>)
      /\ Asks(f, {"asset-conn-test"}, <<"assets", Id, "tcping">>)
  BY AsksIs
<1>5. /\ May(n, "asset", <<"assets", "paging">>) /\ May(n, "asset", <<"tags">>)
      /\ May(n, "asset-add", <<"assets">>) /\ May(n, "asset-edit", <<"assets", Id>>)
      /\ May(n, "asset-copy", <<"assets", Id>>) /\ May(n, "asset-del", <<"assets", Id>>)
      /\ May(n, "asset-conn-test", <<"assets", Id, "tcping">>)
      /\ May(n, "asset-import", <<"assets", "import">>)
      /\ May(n, "asset-change-owner", <<"assets", Id, "change-owner">>)
  BY AssetsLet DEF May
<1>6. \A path \in p.modal.fields \cup p.modal.choices : May(n, "asset", path)
  <2>1. /\ May(n, "asset", <<"access-gateways">>) /\ May(n, "asset", <<"credentials">>)
        /\ May(n, "asset", <<"storages", "shares">>)
    BY GapsMay
  <2> HIDE DEF p
  <2> QED
    BY <1>1, <1>3, <1>5, <2>1
<1> HIDE DEF a, b, c, d, e, f, p
<1>7. /\ \A g \in a.gate : May(n, g, a.path)
      /\ \A g \in b.gate : May(n, g, b.path)
      /\ \A g \in c.gate : May(n, g, c.path)
      /\ \A g \in d.gate : May(n, g, d.path)
      /\ \A g \in e.gate : May(n, g, e.path)
      /\ \A g \in f.gate : May(n, g, f.path)
  BY <1>4, <1>5 DEF Asks
<1>8. \A x \in p.acts \cup p.batches : \A g \in x.gate : May(n, g, x.path)
  BY <1>1, <1>2, <1>7
<1>9. /\ May(n, "asset", p.list) /\ \A path \in p.opening : May(n, "asset", path)
      /\ \A g \in p.new : May(n, g, p.create)
      /\ \A g \in p.edit \cup p.copy : May(n, g, p.fetch) /\ May(n, g, p.update)
  BY <1>1, <1>5, PathIs
<1>10. Provides(n, p)
  BY <1>1, <1>6, <1>8, <1>9, FormfulMay
<1> QED
  BY <1>10 DEF p

\* The commands.
LEMMA CommandMay == Provides("Command", Command)
<1> DEFINE p == Command
           n == "Command"
           a == Act({"command-del"}, <<"commands", Id>>, "delete")
           c == ChangeOwner({"command-change-owner"}, "commands")
<1>1. /\ p.menu = {"command"} /\ p.list = <<"commands", "paging">> /\ p.opening = {}
      /\ p.new = {"command-add"} /\ p.edit = {"command-edit"} /\ p.copy = {}
      /\ p.create = <<"commands">> /\ p.fetch = <<"commands", Id>>
      /\ p.update = <<"commands", Id>> /\ p.modal = CommandModal
      /\ p.batches = {} /\ p.acts = {a} \cup {c}
  BY PathIs DEF Command, Crud, Table
<1>2. /\ Asks(a, {"command-del"}, <<"commands", Id>>)
      /\ Asks(c, {"command-change-owner"}, <<"commands", Id, "change-owner">>)
  BY AsksIs
<1>3. /\ May(n, "command", <<"commands", "paging">>) /\ May(n, "command-add", <<"commands">>)
      /\ May(n, "command-edit", <<"commands", Id>>) /\ May(n, "command-del", <<"commands", Id>>)
      /\ May(n, "command-change-owner", <<"commands", Id, "change-owner">>)
  BY ResourcesLet DEF May
<1>4. \A path \in p.modal.fields \cup p.modal.choices : May(n, "command", path)
  BY <1>1, FormsAskNothing DEF AsksNothing
<1> HIDE DEF a, c, p
<1>5. /\ \A g \in a.gate : May(n, g, a.path)
      /\ \A g \in c.gate : May(n, g, c.path)
  BY <1>2, <1>3, PathIs DEF Asks
<1>6. \A x \in p.acts \cup p.batches : \A g \in x.gate : May(n, g, x.path)
  BY <1>1, <1>5
<1>7. /\ May(n, "command", p.list) /\ \A path \in p.opening : May(n, "command", path)
      /\ \A g \in p.new : May(n, g, p.create)
      /\ \A g \in p.edit \cup p.copy : May(n, g, p.fetch) /\ May(n, g, p.update)
  BY <1>1, <1>3, PathIs
<1>8. Provides(n, p)
  BY <1>1, <1>4, <1>6, <1>7, FormfulMay
<1> QED
  BY <1>8 DEF p

\* The jobs: the page asks for the assets, which only the menus of its form let.
LEMMA JobMay == Provides("Job", Job)
<1> DEFINE p == Job
           n == "Job"
           a == Act({"job-change-status"}, <<"jobs", Id, "change-status">>, "change")
           b == Act({"job-run"}, <<"jobs", Id, "exec">>, "change")
           c == Act({"job-del"}, <<"jobs", Id>>, "delete")
<1>1. /\ p.menu = {"job"} /\ p.list = <<"jobs", "paging">> /\ p.opening = {<<"assets">>}
      /\ p.new = {"job-add"} /\ p.edit = {"job-edit"} /\ p.copy = {}
      /\ p.create = <<"jobs">> /\ p.fetch = <<"jobs", Id>>
      /\ p.update = <<"jobs", Id>> /\ p.modal = JobModal
      /\ p.batches = {} /\ p.acts = {a, b, c}
  BY PathIs DEF Job, JobActs, Crud, Table
<1>2. /\ Asks(a, {"job-change-status"}, <<"jobs", Id, "change-status">>)
      /\ Asks(b, {"job-run"}, <<"jobs", Id, "exec">>)
      /\ Asks(c, {"job-del"}, <<"jobs", Id>>)
  BY AsksIs
<1>3. /\ May(n, "job", <<"jobs", "paging">>) /\ May(n, "job-add", <<"jobs">>)
      /\ May(n, "job-edit", <<"jobs", Id>>) /\ May(n, "job-del", <<"jobs", Id>>)
      /\ May(n, "job-run", <<"jobs", Id, "exec">>)
      /\ May(n, "job-change-status", <<"jobs", Id, "change-status">>)
  BY OpsLet DEF May
<1>4. \A path \in p.modal.fields \cup p.modal.choices : May(n, "job", path)
  BY <1>1, FormsAskNothing DEF AsksNothing
<1> HIDE DEF a, b, c, p
<1>5. /\ \A g \in a.gate : May(n, g, a.path)
      /\ \A g \in b.gate : May(n, g, b.path)
      /\ \A g \in c.gate : May(n, g, c.path)
  BY <1>2, <1>3 DEF Asks
<1>6. \A x \in p.acts \cup p.batches : \A g \in x.gate : May(n, g, x.path)
  BY <1>1, <1>5
<1>7. \A path \in p.opening : May(n, "job", path)
  BY <1>1, GapsMay
<1>8. /\ May(n, "job", p.list) /\ \A g \in p.new : May(n, g, p.create)
      /\ \A g \in p.edit \cup p.copy : May(n, g, p.fetch) /\ May(n, g, p.update)
  BY <1>1, <1>3, PathIs
<1>9. Provides(n, p)
  BY <1>1, <1>4, <1>6, <1>7, <1>8, FormfulMay
<1> QED
  BY <1>9 DEF p

\* The users: no menu is asked for the switch of a row.
LEMMA UserMay == Provides("User", User)
<1> DEFINE p == User
           n == "User"
           a == Act(Anyone, <<"users", Id, "status">>, "change")
           b == Act({"user-del"}, <<"users", Id>>, "delete")
           c == Batch({"user-change-password"}, <<"users", Id, "change-password">>, "none",
                      "selected", "nothing")
           d == Batch({"user-reset-totp"}, <<"users", Id, "reset-totp">>, "none", "selected",
                      "nothing")
<1>1. /\ p.menu = {"user"} /\ p.list = <<"users", "paging">> /\ p.opening = {<<"roles">>}
      /\ p.new = {"user-add"} /\ p.edit = {"user-edit"} /\ p.copy = {}
      /\ p.create = <<"users">> /\ p.fetch = <<"users", Id>>
      /\ p.update = <<"users", Id>> /\ p.modal = UserModal
      /\ p.batches = {c, d} /\ p.acts = {a, b}
  BY PathIs DEF User, UserActs, UserBatches, Crud, Table
<1>2. /\ Asks(a, Anyone, <<"users", Id, "status">>)
      /\ Asks(b, {"user-del"}, <<"users", Id>>)
      /\ Asks(c, {"user-change-password"}, <<"users", Id, "change-password">>)
      /\ Asks(d, {"user-reset-totp"}, <<"users", Id, "reset-totp">>)
  BY AsksIs
<1>3. /\ May(n, "user", <<"users", "paging">>) /\ May(n, "user", <<"roles">>)
      /\ May(n, "user-add", <<"users">>) /\ May(n, "user-edit", <<"users", Id>>)
      /\ May(n, "user-del", <<"users", Id>>)
      /\ May(n, "user-change-password", <<"users", Id, "change-password">>)
      /\ May(n, "user-reset-totp", <<"users", Id, "reset-totp">>)
  BY UsersLet DEF May
<1>4. \A path \in p.modal.fields \cup p.modal.choices : May(n, "user", path)
  BY <1>1, FormsAskNothing DEF AsksNothing
<1> HIDE DEF a, b, c, d, p
<1>5. \A g \in a.gate : May(n, g, a.path)
  BY <1>2, GapsMay DEF Asks
<1>6. /\ \A g \in b.gate : May(n, g, b.path)
      /\ \A g \in c.gate : May(n, g, c.path)
      /\ \A g \in d.gate : May(n, g, d.path)
  BY <1>2, <1>3 DEF Asks
<1>7. \A x \in p.acts \cup p.batches : \A g \in x.gate : May(n, g, x.path)
  BY <1>1, <1>5, <1>6
<1>8. /\ May(n, "user", p.list) /\ \A path \in p.opening : May(n, "user", path)
      /\ \A g \in p.new : May(n, g, p.create)
      /\ \A g \in p.edit \cup p.copy : May(n, g, p.fetch) /\ May(n, g, p.update)
  BY <1>1, <1>3, PathIs
<1>9. Provides(n, p)
  BY <1>1, <1>4, <1>7, <1>8, FormfulMay
<1> QED
  BY <1>9 DEF p

\* The pages of every user.
LEMMA MineMay == Provides("MyAsset", MyAsset) /\ Provides("MyCommand", MyCommand)
<1>1. Provides("MyAsset", MyAsset)
  <2> DEFINE p == MyAsset
  <2>1. /\ p.menu = {"*"} /\ p.list = <<"worker", "assets", "paging">>
        /\ p.opening = {<<"worker", "assets", "tags">>} /\ p.acts = {} /\ p.batches = {}
        /\ p.new = {} /\ p.edit = {} /\ p.copy = {}
    BY DEF MyAsset, Table, Anyone
  <2>2. /\ May("MyAsset", "*", <<"worker", "assets", "paging">>)
        /\ May("MyAsset", "*", <<"worker", "assets", "tags">>)
    BY WorkersLet DEF May
  <2> HIDE DEF p
  <2>3. Provides("MyAsset", p)
    BY <2>1, <2>2, FormlessMay
  <2> QED
    BY <2>3 DEF p
<1>2. Provides("MyCommand", MyCommand)
  <2> DEFINE p == MyCommand
             n == "MyCommand"
             g == <<"worker", "commands">>
             a == Act(Anyone, g \o <<Id>>, "delete")
  <2>1. /\ p.menu = {"*"} /\ p.list = g \o <<"paging">> /\ p.opening = {}
        /\ p.new = {"*"} /\ p.edit = {"*"} /\ p.copy = {}
        /\ p.create = g /\ p.fetch = g \o <<Id>> /\ p.update = g \o <<Id>>
        /\ p.modal = CommandModal /\ p.batches = {} /\ p.acts = {a}
    BY DEF MyCommand, Crud, Table, Anyone
  <2>2. Asks(a, Anyone, g \o <<Id>>)
    BY AsksIs
  <2>3. \A x : g \o <<x>> = <<"worker", "commands", x>>
    BY PathsIs
  <2>4. May(n, "*", g \o <<"paging">>) /\ May(n, "*", g) /\ May(n, "*", g \o <<Id>>)
    BY <2>3, WorkersLet DEF May
  <2>5. \A path \in p.modal.fields \cup p.modal.choices : May(n, "*", path)
    BY <2>1, FormsAskNothing DEF AsksNothing
  <2> HIDE DEF a, g, p
  <2>6. \A h \in a.gate : May(n, h, a.path)
    BY <2>2, <2>4 DEF Asks, Anyone
  <2>7. \A x \in p.acts \cup p.batches : \A h \in x.gate : May(n, h, x.path)
    BY <2>1, <2>6
  <2>8. /\ May(n, "*", p.list) /\ \A path \in p.opening : May(n, "*", path)
        /\ \A h \in p.new : May(n, h, p.create)
        /\ \A h \in p.edit \cup p.copy : May(n, h, p.fetch) /\ May(n, h, p.update)
    BY <2>1, <2>4
  <2>9. Provides(n, p)
    BY <2>1, <2>5, <2>7, <2>8, FormfulMay
  <2> QED
    BY <2>9 DEF p
<1> QED
  BY <1>1, <1>2

\* Every page asks for what its menu or that of the button lets, or for one of the gaps.
LEMMA AllProvide == \A name \in PageNames : Provides(name, PageOf[name])
<1> SUFFICES ASSUME NEW name \in PageNames PROVE Provides(name, PageOf[name])
  OBVIOUS
<1>1. CASE name \in {"AccessGateway", "Credential", "Storage", "Security", "LoginPolicy",
                     "Strategy"}
  BY <1>1, CrudsMay DEF PageOf
<1>2. CASE name \in {"Role", "UserGroup"}
  BY <1>2, RolesMay DEF PageOf
<1>3. CASE name \in {"AssetInfo", "LoginPolicyInfo", "StrategyInfo", "UserInfo", "UserGroupInfo",
                     "RoleInfo"}
  BY <1>3, InfosMay DEF PageOf
<1>4. CASE name \in {"AssetUser", "AssetUserGroup"}
  BY <1>4, AssetGrantsMay DEF PageOf
<1>5. CASE name \in {"UserAsset", "UserGroupAsset"}
  BY <1>5, UserGrantsMay DEF PageOf
<1>6. CASE name \in {"LoginPolicyBind", "LoginPolicyUser", "UserLoginPolicy", "SelectingAsset"}
  BY <1>6, TablesMay DEF PageOf
<1>7. CASE name \in {"OnlineSession", "OfflineSession", "LoginLog", "JobLog"}
  BY <1>7, AuditMay DEF PageOf
<1>8. CASE name \in {"Asset", "Command", "Job", "User", "MyAsset", "MyCommand"}
  BY <1>8, AssetMay, CommandMay, JobMay, UserMay, MineMay DEF PageOf
<1> QED
  BY <1>1, <1>2, <1>3, <1>4, <1>5, <1>6, <1>7, <1>8 DEF PageNames, PageOf

-----------------------------------------------------------------------------
(* What the page asks for, and who asks.                                    *)

\* The user is let ask for a path, or it is one of those the menus leave out.
MayAsk(path) ==
    user # SuperAdmin => Auth(menus, path) \/ <<page, path>> \in Gaps \/ EarlyOk(path)

\* A row that is asked for may be saved when it is in the form.
CallMay(c) == (\A path \in c.paths : MayAsk(path)) /\ (c.op = "get" => MayAsk(P.update))

AllMay(cs) == \A i \in DOMAIN cs : CallMay(cs[i])

\* What is under way, and what the form and the dialog can still ask for.
Asked ==
    /\ user \in UsersOf(page)
    /\ visible => \A path \in P.modal.choices : MayAsk(path)
    /\ selectedRowKey # 0 => MayAsk(P.fetch) /\ MayAsk(P.update)
    /\ form.id # 0 => MayAsk(P.update)
    /\ dialog.state = "open" => MayAsk(dialog.batch.path)
    /\ AllMay(calls)
    /\ ShownIsPermitted

\* PageOf, Shows: the page and the buttons it shows ask for what is let.
LEMMA PageMay ==
    ASSUME page \in Shown, user \in UsersOf(page)
    PROVE  /\ MayAsk(P.list) /\ \A path \in P.opening : MayAsk(path)
           /\ MayAsk(P.create)
           /\ Shows(menus, P.new) \/ Shows(menus, P.edit) \/ Shows(menus, P.copy) =>
                \A path \in P.modal.fields \cup P.modal.choices : MayAsk(path)
           /\ Shows(menus, P.edit) \/ Shows(menus, P.copy) => MayAsk(P.fetch) /\ MayAsk(P.update)
           /\ \A b \in P.acts \cup P.batches : Shows(menus, b.gate) => MayAsk(b.path)
<1> DEFINE p == P
           M == menus
<1>1. Provides(page, p) /\ Shows(M, p.menu)
  BY AllProvide, PagesAssumption DEF P, menus, UsersOf
<1>2. ASSUME NEW gate, Shows(M, gate), NEW path,
             \A m \in p.menu : \A g \in gate : May(page, m, path) \/ May(page, g, path)
      PROVE  MayAsk(path)
  <2> HIDE DEF p
  <2>1. Auth(M, path) \/ <<page, path>> \in Gaps
    BY <1>1, <1>2, ShownMay
  <2> QED
    BY <2>1 DEF MayAsk
<1>3. MayAsk(p.create) \/ Shows(M, p.new)
  BY DEF MayAsk, EarlyOk
<1> HIDE DEF p, M
<1>4. MayAsk(p.list) /\ \A path \in p.opening : MayAsk(path)
  BY <1>1, <1>2 DEF Provides
<1>5. MayAsk(p.create)
  BY <1>1, <1>2, <1>3 DEF Provides
<1>6. ASSUME Shows(M, p.new) \/ Shows(M, p.edit) \/ Shows(M, p.copy),
             NEW path \in p.modal.fields \cup p.modal.choices
      PROVE  MayAsk(path)
  <2>1. \A g \in p.new \cup p.edit \cup p.copy : \A m \in p.menu :
          May(page, m, path) \/ May(page, g, path)
    BY <1>1, <1>6 DEF Provides
  <2> QED
    BY <1>2, <1>6, <2>1
<1>7. ASSUME Shows(M, p.edit) \/ Shows(M, p.copy), NEW path \in {p.fetch, p.update}
      PROVE  MayAsk(path)
  <2>1. \A g \in p.edit \cup p.copy : \A m \in p.menu : May(page, m, path) \/ May(page, g, path)
    BY <1>1, <1>7 DEF Provides
  <2> QED
    BY <1>2, <1>7, <2>1
<1>8. ASSUME NEW b \in p.acts \cup p.batches, Shows(M, b.gate) PROVE MayAsk(b.path)
  <2>1. \A g \in b.gate : \A m \in p.menu : May(page, m, b.path) \/ May(page, g, b.path)
    BY <1>1, <1>8 DEF Provides
  <2> QED
    BY <1>2, <1>8, <2>1
<1> QED
  BY <1>4, <1>5, <1>6, <1>7, <1>8 DEF p, M

\* Calls: more requests that are let.
LEMMA MayJoin ==
    ASSUME NEW s, NEW t, AllGood(s), AllGood(t), AllMay(s), AllMay(t)
    PROVE  AllMay(s \o t)
<1> DEFINE u == s \o t
<1>1. \A k \in DOMAIN u : \/ k \in DOMAIN s /\ u[k] = s[k]
                          \/ k - Len(s) \in DOMAIN t /\ u[k] = t[k - Len(s)]
  BY JoinAt DEF AllGood
<1> HIDE DEF u, CallMay
<1>2. AllMay(u)
  BY <1>1 DEF AllMay
<1> QED
  BY <1>2 DEF u

\* Calls: one more.
LEMMA MayAppend ==
    ASSUME NEW s, NEW c, AllGood(s), Good(c), AllMay(s), CallMay(c)
    PROVE  AllMay(Append(s, c))
<1>1. Append(s, c) = s \o <<c>>
  BY AppendIs DEF AllGood
<1>2. AllGood(<<c>>) /\ AllMay(<<c>>)
  <2> HIDE DEF CallMay
  <2> QED
    BY OneKeeps, OneIs DEF AllMay
<1> QED
  BY <1>1, <1>2, MayJoin

\* Calls: one less.
LEMMA MayRest ==
    ASSUME NEW s, AllGood(s), AllMay(s), NEW i \in DOMAIN s
    PROVE  AllMay(Rest(s, i))
<1> DEFINE r == Rest(s, i)
<1>1. \A k \in DOMAIN r : From(i, k) \in DOMAIN s /\ r[k] = s[From(i, k)]
  BY RestAt DEF AllGood
<1> HIDE DEF r
<1>2. AllMay(r)
  BY <1>1 DEF AllMay
<1> QED
  BY <1>2 DEF r

\* Fetch, Call: what a form or a page asks besides.
LEMMA MayFetch ==
    ASSUME NEW paths, \A path \in paths : MayAsk(path)
    PROVE  /\ AllMay(Fetch(paths))
           /\ Good(Call("fetch", paths)) /\ CallMay(Call("fetch", paths))
<1> DEFINE c == Call("fetch", paths)
<1>1. Good(c) /\ c.op = "fetch" /\ c.paths = paths
  BY CallIs DEF Good
<1> HIDE DEF c, MayAsk
<1>2. CallMay(c)
  BY <1>1 DEF CallMay
<1>3. ASSUME paths = {} PROVE AllMay(Fetch(paths))
  <2>1. Fetch(paths) = <<>>
    BY <1>3 DEF Fetch
  <2> QED
    BY <2>1, NoneIs DEF AllMay
<1>4. ASSUME paths # {} PROVE AllMay(Fetch(paths))
  <2>1. Fetch(paths) = <<c>>
    BY <1>4 DEF Fetch, c
  <2> QED
    BY <1>2, <2>1, OneIs DEF AllMay
<1> QED
  BY <1>1, <1>2, <1>3, <1>4 DEF c

\* Reloaded: the table asks for its page's list.
LEMMA MayReloaded ==
    ASSUME NEW s, AllGood(s), AllMay(s), MayAsk(P.list)
    PROVE  AllMay(Reloaded(s))
<1> DEFINE lists == {i \in DOMAIN s : s[i].op = "list"}
           rest == IF P.own \/ lists = {} THEN s ELSE Rest(s, CHOOSE i \in lists : TRUE)
<1>1. Good(List) /\ List.op = "list" /\ List.paths = {P.list}
  BY CallIs DEF Good, List
<1>2. AllGood(rest) /\ AllMay(rest)
  <2>1. CASE P.own \/ lists = {}
    BY <2>1
  <2>2. CASE ~(P.own \/ lists = {})
    <3>1. PICK i \in lists : i = CHOOSE j \in lists : TRUE
      BY <2>2
    <3>2. rest = Rest(s, i) /\ i \in DOMAIN s
      BY <2>2, <3>1
    <3> HIDE DEF rest
    <3> QED
      BY <3>2, RestKeeps, MayRest
  <2> QED
    BY <2>1, <2>2
<1>3. Reloaded(s) = Append(rest, List)
  BY DEF Reloaded
<1> HIDE DEF rest, List, MayAsk
<1>4. CallMay(List)
  BY <1>1 DEF CallMay
<1> QED
  BY <1>1, <1>2, <1>3, <1>4, MayAppend

\* Answered: a request that is served is for the same paths.
LEMMA MayAnswered ==
    ASSUME AllGood(calls), AllMay(calls), NEW i \in DOMAIN calls, NEW good, NEW seen,
           Answered(i, good, seen)
    PROVE  AllMay(calls')
<1> DEFINE n == Len(calls)
           d == OfAnswer(calls[i], "done", good, seen)
<1>1. n \in Nat /\ DOMAIN calls = 1..n /\ calls = [k \in 1..n |-> calls[k]] /\ Good(calls[i])
  BY SeqHas DEF AllGood
<1>2. calls' = [calls EXCEPT ![i] = d]
  BY DEF Answered, OfAnswer
<1>3. d.op = calls[i].op /\ d.paths = calls[i].paths
  BY <1>1, ForAnswer DEF Good
<1> HIDE DEF d, n, MayAsk
<1>4. calls' = [k \in 1..n |-> IF k = i THEN d ELSE calls[k]]
  BY <1>1, <1>2
<1>5. CallMay(d)
  BY <1>3 DEF AllMay, CallMay
<1> HIDE DEF CallMay
<1> QED
  BY <1>1, <1>4, <1>5 DEF AllMay

\* What a step must leave.
LEMMA AskedStep ==
    ASSUME Asked, UNCHANGED <<page, user>>,
           visible' => \A path \in P.modal.choices : MayAsk(path),
           selectedRowKey' # 0 => MayAsk(P.fetch) /\ MayAsk(P.update),
           form'.id # 0 => MayAsk(P.update),
           dialog'.state = "open" => MayAsk(dialog'.batch.path),
           AllMay(calls'), \A path \in left' : <<page, path>> \in Gaps \/ EarlyOk(path)
    PROVE  Asked'
<1>1. P' = P /\ menus' = menus
  BY DEF P, menus
<1>2. \A path : EarlyOk(path)' <=> EarlyOk(path)
  BY <1>1 DEF EarlyOk
<1>3. \A path : MayAsk(path)' <=> MayAsk(path)
  BY <1>1, <1>2 DEF MayAsk
<1>4. AllMay(calls)' <=> AllMay(calls')
  BY <1>1, <1>3 DEF AllMay, CallMay
<1>5. ShownIsPermitted'
  BY <1>2 DEF ShownIsPermitted
<1>6. user' \in UsersOf(page')
  BY DEF Asked
<1> QED
  BY <1>1, <1>3, <1>4, <1>5, <1>6 DEF Asked

\* A step that leaves the form as it is, or puts it away.
LEMMA AskedBeside ==
    ASSUME Asked, UNCHANGED <<page, user, left>>, visible' => visible,
           selectedRowKey' # 0 => selectedRowKey # 0, form'.id # 0 => form.id # 0,
           dialog'.state = "open" => dialog.state = "open" /\ dialog'.batch = dialog.batch,
           AllMay(calls')
    PROVE  Asked'
<1>1. \A path \in left' : <<page, path>> \in Gaps \/ EarlyOk(path)
  BY DEF Asked, ShownIsPermitted
<1> HIDE DEF MayAsk, AllMay
<1>2. /\ visible' => \A path \in P.modal.choices : MayAsk(path)
      /\ selectedRowKey' # 0 => MayAsk(P.fetch) /\ MayAsk(P.update)
      /\ form'.id # 0 => MayAsk(P.update)
      /\ dialog'.state = "open" => MayAsk(dialog'.batch.path)
  BY DEF Asked
<1> QED
  BY <1>1, <1>2, AskedStep

\* Preset, Hidden: defaults leave the id, and a form that is put away has none or the same.
LEMMA HiddenId ==
    ASSUME NEW f, Marks(f)
    PROVE  Preset(f).id = f.id /\ (Hidden(f).id # 0 => f.id # 0)
<1>1. Preset(f).id = f.id
  BY DEF Preset, Marks, Forms
<1>2. Blank.id = 0
  BY DEF Blank
<1> QED
  BY <1>1, <1>2 DEF Hidden

\* The buttons of the form: it is shown by a button that is, and asks for no more
\* than the page may.
LEMMA FormAsked ==
    ASSUME IInv, Asked,
           \/ New \/ Refocus \/ \E r \in Rows : Edit(r) \/ Copy(r)
           \/ \E path \in P.modal.choices : Choose(path)
    PROVE  Asked'
<1>1. /\ AllGood(calls) /\ selectedRowKey \in Rows \cup {0} /\ Marks(form)
      /\ page \in Shown /\ user \in UsersOf(page) /\ AllMay(calls)
  BY DEF IInv, Types, Asked
<1>2. /\ Shows(menus, P.new) \/ Shows(menus, P.edit) \/ Shows(menus, P.copy) =>
           \A path \in P.modal.fields \cup P.modal.choices : MayAsk(path)
      /\ Shows(menus, P.edit) \/ Shows(menus, P.copy) => MayAsk(P.fetch) /\ MayAsk(P.update)
  BY <1>1, PageMay
<1> HIDE DEF MayAsk
<1>3. ASSUME NEW r \in Rows, MayAsk(P.fetch) /\ MayAsk(P.update)
      PROVE  Good(Get(r)) /\ CallMay(Get(r))
  BY <1>3, GetIs DEF CallMay
<1>4. ASSUME NEW key \in Rows \cup {0}, NEW copy, ShowModal(key, copy), NEW gate, Press(gate),
             \A path \in P.modal.fields \cup P.modal.choices : MayAsk(path),
             key # 0 => MayAsk(P.fetch) /\ MayAsk(P.update)
      PROVE  Asked'
  <2> DEFINE fields == Fetch(P.modal.fields)
             asks == key # 0 /\ P.fetch # <<>>
             known == P.modal.ask = "query" /\ \E i \in DOMAIN calls : calls[i].op = "get"
             get == IF asks /\ ~known THEN <<Get(key)>> ELSE <<>>
  <2>1. /\ calls' = (calls \o fields) \o get /\ dialog' = dialog /\ selectedRowKey' = key
        /\ form' \in {form, Preset(form)}
    BY <1>4 DEF ShowModal
  <2>2. AllGood(get) /\ AllMay(get)
    <3>1. ASSUME asks PROVE AllGood(<<Get(key)>>) /\ AllMay(<<Get(key)>>)
      <4>1. Good(Get(key)) /\ CallMay(Get(key))
        BY <1>3, <1>4, <3>1
      <4> HIDE DEF CallMay
      <4> QED
        BY <4>1, OneKeeps, OneIs DEF AllMay
    <3>2. AllGood(<<>>) /\ AllMay(<<>>)
      BY NoneKeeps, NoneIs DEF AllMay
    <3> QED
      BY <3>1, <3>2
  <2>3. AllGood(fields) /\ AllMay(fields)
    BY <1>4, FetchKeeps, MayFetch
  <2> HIDE DEF fields, get
  <2>4. AllMay(calls')
    <3>1. AllGood(calls \o fields) /\ AllMay(calls \o fields)
      BY <1>1, <2>3, JoinKeeps, MayJoin
    <3> QED
      BY <2>1, <2>2, <3>1, MayJoin
  <2>5. UNCHANGED <<page, user, left>>
    BY <1>4 DEF Press
  <2>6. form'.id # 0 => MayAsk(P.update)
    BY <1>1, <2>1, HiddenId DEF Asked
  <2>7. \A path \in left' : <<page, path>> \in Gaps \/ EarlyOk(path)
    BY <2>5 DEF Asked, ShownIsPermitted
  <2>8. visible' => \A path \in P.modal.choices : MayAsk(path)
    BY <1>4
  <2>9. dialog'.state = "open" => MayAsk(dialog'.batch.path)
    BY <2>1 DEF Asked
  <2> QED
    BY <1>4, <2>1, <2>4, <2>5, <2>6, <2>7, <2>8, <2>9, AskedStep
<1>5. CASE New
  <2>1. ShowModal(selectedRowKey, copied) /\ Press(P.new) /\ Shows(menus, P.new)
    BY <1>5 DEF New, Press
  <2>2. selectedRowKey # 0 => MayAsk(P.fetch) /\ MayAsk(P.update)
    BY DEF Asked
  <2> QED
    BY <1>1, <1>2, <1>4, <2>1, <2>2
<1>6. ASSUME NEW r \in Rows, Edit(r) PROVE Asked'
  <2>1. ShowModal(r, copied) /\ Press(P.edit) /\ Shows(menus, P.edit)
    BY <1>6 DEF Edit, Press
  <2> QED
    BY <1>2, <1>4, <2>1
<1>7. ASSUME NEW r \in Rows, Copy(r) PROVE Asked'
  <2>1. ShowModal(r, TRUE) /\ Press(P.copy) /\ Shows(menus, P.copy)
    BY <1>7 DEF Copy, Press
  <2> QED
    BY <1>2, <1>4, <2>1
<1>8. CASE Refocus
  <2>1. /\ calls' = Append(calls, Get(selectedRowKey)) /\ selectedRowKey # 0
        /\ UNCHANGED <<page, user, left, dialog, selectedRowKey, visible, form>>
    BY <1>8 DEF Refocus, Press, formVars
  <2>2. Good(Get(selectedRowKey)) /\ CallMay(Get(selectedRowKey))
    BY <1>1, <1>3, <2>1 DEF Asked
  <2> QED
    BY <1>1, <2>1, <2>2, MayAppend, AskedBeside
<1>9. ASSUME NEW path \in P.modal.choices, Choose(path) PROVE Asked'
  <2>1. /\ calls' = Append(calls, Call("fetch", {path})) /\ visible
        /\ UNCHANGED <<page, user, left, dialog, selectedRowKey, visible, form>>
    BY <1>9 DEF Choose, Free, formVars
  <2>2. Good(Call("fetch", {path})) /\ CallMay(Call("fetch", {path}))
    BY <1>9, <2>1, MayFetch DEF Asked
  <2> QED
    BY <1>1, <2>1, <2>2, MayAppend, AskedBeside
<1> QED
  BY <1>5, <1>6, <1>7, <1>8, <1>9

\* Ok: the form asks for what its button was shown for.
LEMMA OkAsked ==
    ASSUME IInv, Asked, Ok
    PROVE  Asked'
<1>1. /\ AllGood(calls) /\ Marks(form) /\ AllMay(calls)
      /\ page \in Shown /\ user \in UsersOf(page)
  BY DEF IInv, Types, Asked
<1>2. MayAsk(P.create) /\ MayAsk(P.list)
  BY <1>1, PageMay
<1>3. /\ Good(Save) /\ Save.op = "save"
      /\ Save.paths = {IF Body.id # 0 THEN P.update ELSE P.create}
      /\ Body.id # 0 => form.id # 0
  BY SaveIs
<1> HIDE DEF MayAsk
<1>4. CallMay(Save)
  BY <1>2, <1>3 DEF CallMay, Asked
<1>5. /\ calls' \in {Append(calls, Save), Reloaded(Append(calls, Save))}
      /\ form' \in {form, Blank, Hidden(form)} /\ (visible' => visible)
      /\ UNCHANGED <<page, user, left, dialog, selectedRowKey>>
  BY DEF Ok, Save, Body, Free
<1> HIDE DEF Save, CallMay
<1>6. AllGood(Append(calls, Save)) /\ AllMay(Append(calls, Save))
  BY <1>1, <1>3, <1>4, AppendKeeps, MayAppend
<1>7. AllMay(calls')
  BY <1>2, <1>5, <1>6, MayReloaded
<1>8. form'.id # 0 => form.id # 0
  BY <1>1, <1>5, HiddenId DEF Blank
<1> QED
  BY <1>5, <1>7, <1>8, AskedBeside

\* The other buttons: each is shown, and so was the one that opened the dialog.
LEMMA ButtonsAsked ==
    ASSUME IInv, Asked,
           \/ Cancel \/ CancelBatch \/ ConfirmBatch \/ Refresh
           \/ \E r \in Rows : \E act \in P.acts : ActOn(act, r)
           \/ \E keys \in SUBSET Rows : Select(keys)
           \/ \E b \in P.batches : AskBatch(b)
    PROVE  Asked'
<1>1. /\ AllGood(calls) /\ Marks(form) /\ AllMay(calls) /\ IsDialog(dialog)
      /\ page \in Shown /\ user \in UsersOf(page)
  BY DEF IInv, Types, Asked
<1>2. /\ MayAsk(P.list)
      /\ \A b \in P.acts \cup P.batches : Shows(menus, b.gate) => MayAsk(b.path)
  BY <1>1, PageMay
<1> HIDE DEF MayAsk
<1>3. CASE Cancel
  <2>1. /\ ~visible' /\ form' = Hidden(Blank) /\ selectedRowKey' = 0
        /\ UNCHANGED <<page, user, left, dialog, calls>>
    BY <1>3 DEF Cancel, Free
  <2>2. Marks(Blank) /\ Blank.id = 0
    BY <1>1, HiddenIs DEF Blank
  <2>3. form'.id = 0
    BY <2>1, <2>2, HiddenId
  <2> QED
    BY <1>1, <2>1, <2>3, AskedBeside
<1>4. CASE CancelBatch
  <2>1. /\ dialog'.state # "open"
        /\ UNCHANGED <<page, user, left, calls, selectedRowKey, visible, form>>
    BY <1>4 DEF CancelBatch, Free, Closed, formVars
  <2> QED
    BY <1>1, <2>1, AskedBeside
<1>5. CASE ConfirmBatch
  <2> DEFINE c == BatchCall(dialog.batch, dialog.keys)
  <2>1. /\ dialog.state = "open" /\ calls' = Append(calls, c)
        /\ UNCHANGED <<page, user, left, selectedRowKey, visible, form>>
        /\ dialog' = [dialog EXCEPT !.state = "running"]
    BY <1>5 DEF ConfirmBatch, Free, formVars
  <2>2. dialog'.state = "running"
    BY <1>1, <2>1 DEF IsDialog
  <2>3. Good(c) /\ c.op = "batch" /\ c.paths = {dialog.batch.path}
    BY BatchCallIs
  <2> HIDE DEF c
  <2>4. CallMay(c)
    BY <2>1, <2>3 DEF CallMay, Asked
  <2> QED
    BY <1>1, <2>1, <2>2, <2>3, <2>4, MayAppend, AskedBeside
<1>6. CASE Refresh
  <2>1. /\ calls' = Reloaded(calls)
        /\ UNCHANGED <<page, user, left, dialog, selectedRowKey, visible, form>>
    BY <1>6 DEF Refresh, Press, formVars
  <2> QED
    BY <1>1, <1>2, <2>1, MayReloaded, AskedBeside
<1>7. ASSUME NEW r \in Rows, NEW act \in P.acts, ActOn(act, r) PROVE Asked'
  <2> DEFINE d == Button(act, r)
  <2>1. Good(d) /\ d.op = "act" /\ d.paths = {act.path}
    BY ButtonIs
  <2>2. /\ calls' = Append(calls, d) /\ Shows(menus, act.gate)
        /\ UNCHANGED <<page, user, left, dialog, selectedRowKey, visible, form>>
    BY <1>7 DEF ActOn, Button, Press, formVars
  <2> HIDE DEF d
  <2>3. CallMay(d)
    BY <1>2, <2>1, <2>2 DEF CallMay
  <2> QED
    BY <1>1, <2>1, <2>2, <2>3, MayAppend, AskedBeside
<1>8. ASSUME NEW keys \in SUBSET Rows, Select(keys) PROVE Asked'
  <2>1. UNCHANGED <<page, user, left, dialog, calls, selectedRowKey, visible, form>>
    BY <1>8 DEF Select, Free, formVars
  <2> QED
    BY <1>1, <2>1, AskedBeside
<1>9. ASSUME NEW b \in P.batches, AskBatch(b) PROVE Asked'
  <2>1. /\ UNCHANGED <<page, user, left, calls, selectedRowKey, visible, form>>
        /\ dialog'.batch = b /\ Shows(menus, b.gate)
    BY <1>9 DEF AskBatch, Press, formVars
  <2>2. MayAsk(dialog'.batch.path)
    BY <1>2, <2>1
  <2>3. /\ visible' => \A path \in P.modal.choices : MayAsk(path)
        /\ selectedRowKey' # 0 => MayAsk(P.fetch) /\ MayAsk(P.update)
        /\ form'.id # 0 => MayAsk(P.update)
        /\ AllMay(calls') /\ \A path \in left' : <<page, path>> \in Gaps \/ EarlyOk(path)
    BY <1>1, <2>1 DEF Asked, ShownIsPermitted
  <2> QED
    BY <2>1, <2>2, <2>3, AskedStep
<1> QED
  BY <1>3, <1>4, <1>5, <1>6, <1>7, <1>8, <1>9

\* StartBatch: the batch, or the test of each row, asks for the path of its button.
LEMMA StartAsked ==
    ASSUME IInv, Asked, NEW b \in P.batches, StartBatch(b)
    PROVE  Asked'
<1> DEFINE n == Cardinality(Over(b))
           tests == [i \in 1..n |-> RowTest(b, SetToSeq(Over(b))[i])]
           c == BatchCall(b, Over(b))
<1>1. /\ AllGood(calls) /\ AllMay(calls) /\ page \in Shown /\ user \in UsersOf(page)
      /\ n \in Nat
  BY OverIs DEF IInv, Types, Asked
<1>2. MayAsk(b.path)
  <2>1. Shows(menus, b.gate)
    BY DEF StartBatch, Press
  <2> QED
    BY <1>1, <2>1, PageMay
<1>3. /\ UNCHANGED <<page, user, left, dialog, selectedRowKey, visible, form>>
      /\ calls' = calls \o tests \/ calls' = Append(calls, c)
  BY DEF StartBatch, Press, formVars, RowTest
<1> HIDE DEF n, MayAsk
<1>4. \A r : /\ Good(RowTest(b, r)) /\ CallMay(RowTest(b, r))
  <2> TAKE r
  <2> DEFINE d == RowTest(b, r)
  <2>1. Good(d) /\ d.op = "act" /\ d.paths = {b.path}
    BY TestIs
  <2> HIDE DEF d
  <2>2. CallMay(d)
    BY <1>2, <2>1 DEF CallMay
  <2> QED
    BY <2>1, <2>2 DEF d
<1>5. AllGood(tests) /\ AllMay(tests)
  <2>1. tests = [i \in 1..n |-> tests[i]] /\ \A i \in 1..n : \E r : tests[i] = RowTest(b, r)
    OBVIOUS
  <2> HIDE DEF tests
  <2>2. IsSeq(tests) /\ DOMAIN tests = 1..n
    BY <1>1, <2>1, SeqIs
  <2> HIDE DEF CallMay
  <2>3. \A i \in 1..n : Good(tests[i]) /\ CallMay(tests[i])
    BY <1>4, <2>1
  <2> QED
    BY <2>2, <2>3 DEF AllGood, AllMay
<1>6. Good(c) /\ CallMay(c)
  <2>1. Good(c) /\ c.op = "batch" /\ c.paths = {b.path}
    BY BatchCallIs
  <2> HIDE DEF c
  <2> QED
    BY <1>2, <2>1 DEF CallMay
<1> HIDE DEF tests, c
<1>7. AllMay(calls')
  BY <1>1, <1>3, <1>5, <1>6, MayJoin, MayAppend
<1> QED
  BY <1>3, <1>7, AskedBeside

\* The server answers, or sends the user away for what the menus leave out.
LEMMA ServerAsked ==
    ASSUME IInv, Asked, NEW i \in DOMAIN calls, Server(i)
    PROVE  Asked'
<1>1. AllGood(calls) /\ AllMay(calls)
  BY DEF IInv, Asked
<1>2. UNCHANGED <<page, user, dialog, selectedRowKey, visible, form>>
  BY DEF Server, Serve, ServeFetch, Execute, Deny, Client, formVars
<1>3. CASE Serve(i)
  <2>1. left' = left /\ \E good, seen : Answered(i, good, seen)
    BY <1>3 DEF Serve
  <2> QED
    BY <1>1, <1>2, <2>1, MayAnswered, AskedBeside
<1>4. CASE ServeFetch(i)
  <2>1. left' = left /\ calls' = Rest(calls, i)
    BY <1>4 DEF ServeFetch
  <2> QED
    BY <1>1, <1>2, <2>1, MayRest, AskedBeside
<1>5. CASE Execute(i)
  <2>1. left' = left /\ \E good, seen : Answered(i, good, seen)
    BY <1>5 DEF Execute
  <2> QED
    BY <1>1, <1>2, <2>1, MayAnswered, AskedBeside
<1>6. CASE Deny(i)
  <2>1. PICK path \in Refused(calls[i]) : left' = {path} /\ calls' = <<>>
    BY <1>6 DEF Deny
  <2>2. MayAsk(path) /\ user # SuperAdmin /\ ~Auth(menus, path)
    BY <1>1, <2>1 DEF Refused, AllMay, CallMay
  <2>3. <<page, path>> \in Gaps \/ EarlyOk(path)
    BY <2>2 DEF MayAsk
  <2>4. AllMay(calls')
    BY <2>1, NoneIs DEF AllMay
  <2> HIDE DEF MayAsk, AllMay
  <2>5. /\ visible' => \A q \in P.modal.choices : MayAsk(q)
        /\ selectedRowKey' # 0 => MayAsk(P.fetch) /\ MayAsk(P.update)
        /\ form'.id # 0 => MayAsk(P.update)
        /\ dialog'.state = "open" => MayAsk(dialog'.batch.path)
    BY <1>2 DEF Asked
  <2> QED
    BY <1>2, <2>1, <2>3, <2>4, <2>5, AskedStep
<1> QED
  BY <1>3, <1>4, <1>5, <1>6 DEF Server

\* The answers: a row that comes into the form may be saved.
LEMMA AnswerAsked ==
    ASSUME IInv, Asked, NEW i \in DOMAIN calls, Answer(i)
    PROVE  Asked'
<1>1. /\ AllGood(calls) /\ AllMay(calls) /\ Marks(form) /\ IsDialog(dialog)
      /\ page \in Shown /\ user \in UsersOf(page)
  BY DEF IInv, Types, Asked
<1>2. AllGood(Rest(calls, i)) /\ AllMay(Rest(calls, i)) /\ AllMay(Reloaded(Rest(calls, i)))
  BY <1>1, PageMay, RestKeeps, MayRest, MayReloaded
<1>3. UNCHANGED <<page, user, left>>
  BY DEF Answer, ListAnswer, GetAnswer, SaveAnswer, GrantAnswer, ActAnswer, BatchAnswer, Handle
<1> HIDE DEF MayAsk, AllMay
<1>4. CASE ListAnswer(i) \/ GrantAnswer(i) \/ ActAnswer(i)
  <2>1. /\ UNCHANGED <<dialog, selectedRowKey, visible, form>>
        /\ calls' \in {Rest(calls, i), Reloaded(Rest(calls, i))}
    BY <1>4 DEF ListAnswer, GrantAnswer, ActAnswer, formVars
  <2> QED
    BY <1>2, <1>3, <2>1, AskedBeside
<1>5. CASE GetAnswer(i)
  <2>1. /\ calls[i].op = "get" /\ calls' = Rest(calls, i)
        /\ UNCHANGED <<dialog, selectedRowKey, visible>>
    BY <1>5 DEF GetAnswer, Handle
  <2>2. MayAsk(P.update)
    BY <1>1, <2>1 DEF AllMay, CallMay
  <2>3. /\ visible' => \A path \in P.modal.choices : MayAsk(path)
        /\ selectedRowKey' # 0 => MayAsk(P.fetch) /\ MayAsk(P.update)
        /\ dialog'.state = "open" => MayAsk(dialog'.batch.path)
        /\ \A path \in left' : <<page, path>> \in Gaps \/ EarlyOk(path)
    BY <1>3, <2>1 DEF Asked, ShownIsPermitted
  <2> QED
    BY <1>2, <1>3, <2>1, <2>2, <2>3, AskedStep
<1>6. CASE SaveAnswer(i)
  <2>1. /\ dialog' = dialog /\ calls' = Reloaded(Rest(calls, i)) /\ (visible' => visible)
        /\ form' \in {form, Hidden(form)} /\ (selectedRowKey' # 0 => selectedRowKey # 0)
    BY <1>6 DEF SaveAnswer
  <2>2. form'.id # 0 => form.id # 0
    BY <1>1, <2>1, HiddenId
  <2> QED
    BY <1>2, <1>3, <2>1, <2>2, AskedBeside
<1>7. CASE BatchAnswer(i)
  <2>1. /\ UNCHANGED <<selectedRowKey, visible, form>>
        /\ calls' \in {Rest(calls, i), Reloaded(Rest(calls, i))}
        /\ dialog' = IF dialog.state = "running" THEN Closed ELSE dialog
    BY <1>7 DEF BatchAnswer, formVars
  <2>2. dialog'.state = "open" => dialog' = dialog
    BY <2>1 DEF Closed
  <2> QED
    BY <1>2, <1>3, <2>1, <2>2, AskedBeside
<1> QED
  BY <1>4, <1>5, <1>6, <1>7 DEF Answer

\* The page opens with what its menu lets.
LEMMA InitAsked == Init => Asked
<1> SUFFICES ASSUME Init PROVE Asked
  OBVIOUS
<1>1. /\ page \in Shown /\ user \in UsersOf(page) /\ ~visible /\ selectedRowKey = 0
      /\ form.id = 0 /\ dialog.state # "open" /\ left = {}
      /\ calls = Append(Fetch(P.opening), List)
  BY DEF Init, Blank, Closed
<1>2. MayAsk(P.list) /\ \A path \in P.opening : MayAsk(path)
  BY <1>1, PageMay
<1>3. Good(List) /\ List.op = "list" /\ List.paths = {P.list}
  BY CallIs DEF Good, List
<1> HIDE DEF List, MayAsk
<1>4. CallMay(List)
  BY <1>2, <1>3 DEF CallMay
<1>5. AllGood(Fetch(P.opening)) /\ AllMay(Fetch(P.opening))
  BY <1>2, FetchKeeps, MayFetch
<1>6. AllMay(calls)
  BY <1>1, <1>3, <1>4, <1>5, MayAppend
<1> QED
  BY <1>1, <1>6 DEF Asked, ShownIsPermitted

\* Every step asks for no more.
LEMMA NextAsked == IInv /\ Asked /\ [Next]_vars => Asked'
<1> SUFFICES ASSUME IInv, Asked, [Next]_vars PROVE Asked'
  OBVIOUS
<1>1. CASE Buttons
  BY <1>1, FormAsked, OkAsked, ButtonsAsked, StartAsked DEF Buttons
<1>2. ASSUME NEW i \in DOMAIN calls, Server(i) \/ Answer(i) PROVE Asked'
  BY <1>2, ServerAsked, AnswerAsked
<1>3. ASSUME NEW i \in DOMAIN calls, Lose(i) PROVE Asked'
  <2>1. /\ calls' = Rest(calls, i)
        /\ UNCHANGED <<page, user, left, dialog, selectedRowKey, visible, form>>
    BY <1>3 DEF Lose, formVars
  <2>2. AllMay(calls')
    BY <1>3, <2>1, MayRest DEF IInv, Asked
  <2> QED
    BY <2>1, <2>2, AskedBeside
<1>4. CASE UNCHANGED vars
  <2>1. UNCHANGED <<page, user, left, calls, dialog, selectedRowKey, visible, form>>
    BY <1>4 DEF vars, formVars
  <2>2. AllMay(calls')
    BY <2>1 DEF Asked
  <2> QED
    BY <2>1, <2>2, AskedBeside
<1> QED
  BY <1>1, <1>2, <1>3, <1>4 DEF Next

\* Whatever menus are ticked in the roles of a user, whatever the user does and in
\* whatever order requests are served and answered, the server refuses the page
\* and the buttons it shows to that user nothing but the gaps, and a row that is
\* made by OK before the row to change has come (the permissions of the menus
\* against the requests of the pages).
THEOREM ShownPermitted == Spec => []ShownIsPermitted
<1>1. Init => IInv /\ Asked
  BY InitKeeps, InitAsked
<1>2. IInv /\ Asked /\ [Next]_vars => (IInv /\ Asked)'
  BY NextKeeps, NextAsked
<1>3. Asked => ShownIsPermitted
  BY DEF Asked
<1> QED
  BY <1>1, <1>2, <1>3, PTL DEF Spec
=============================================================================
