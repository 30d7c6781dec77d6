--------------------------- MODULE TerminalProofs ---------------------------
(* What a terminal sends, records and shows, for any number of runes and    *)
(* observers.                                                              *)
EXTENDS Terminal, TLAPS

\* Terminal: the elements of two sequences written one after the other.
LEMMA Joined ==
    ASSUME NEW s \in Seq(Nat), NEW t \in Seq(Nat)
    PROVE  /\ s \o t \in Seq(Nat)
           /\ Len(s \o t) = Len(s) + Len(t)
           /\ \A k \in 1..Len(s) : (s \o t)[k] = s[k]
           /\ \A k \in 1..Len(t) : (s \o t)[Len(s) + k] = t[k]
           /\ \A k \in 1..Len(s \o t) :
                 k \in 1..Len(s) \/ \E j \in 1..Len(t) : k = Len(s) + j
<1>1. /\ s \o t \in Seq(Nat)
      /\ Len(s \o t) = Len(s) + Len(t)
      /\ \A k \in 1..Len(s) : (s \o t)[k] = s[k]
      /\ \A k \in 1..Len(t) : (s \o t)[Len(s) + k] = t[k]
  OBVIOUS
<1>2. ASSUME NEW k \in 1..(Len(s) + Len(t)), k \notin 1..Len(s)
      PROVE  \E j \in 1..Len(t) : k = Len(s) + j
  <2>1. Len(s) \in Nat /\ Len(t) \in Nat /\ k \in Nat
    OBVIOUS
  <2>2. k - Len(s) \in 1..Len(t) /\ k = Len(s) + (k - Len(s))
    BY <1>2, <2>1
  <2> QED
    BY <2>2
<1> QED
  BY <1>1, <1>2

\* writeToWebsocket: numbered runes followed by the next ones are numbered.
LEMMA OrderGoesOn ==
    ASSUME NEW s \in Seq(Nat), NEW t \in Seq(Nat), InOrder(s),
           \A k \in DOMAIN t : t[k] = Len(s) + k
    PROVE  InOrder(s \o t)
<1>1. DOMAIN s = 1..Len(s) /\ DOMAIN t = 1..Len(t)
  OBVIOUS
<1>2. ASSUME NEW k \in 1..Len(s \o t) PROVE (s \o t)[k] = k
  <2>1. CASE k \in 1..Len(s)
    BY <1>1, <2>1, Joined DEF InOrder
  <2>2. CASE \E j \in 1..Len(t) : k = Len(s) + j
    <3>1. PICK j \in 1..Len(t) : k = Len(s) + j
      BY <2>2
    <3> QED
      BY <1>1, <3>1, Joined
  <2> QED
    BY <2>1, <2>2, Joined
<1>3. DOMAIN (s \o t) = 1..Len(s \o t)
  BY Joined
<1> QED
  BY <1>2, <1>3 DEF InOrder

\* SendObData: a run followed by the runes that continue it is a run.
LEMMA RunGoesOn ==
    ASSUME NEW s \in Seq(Nat), NEW t \in Seq(Nat), NEW b \in Nat,
           RunTo(s, b), \A k \in DOMAIN t : t[k] = b + k
    PROVE  RunTo(s \o t, b + Len(t))
<1>1. /\ DOMAIN s = 1..Len(s) /\ DOMAIN t = 1..Len(t)
      /\ DOMAIN (s \o t) = 1..Len(s \o t)
      /\ Len(s) \in Nat /\ Len(t) \in Nat
  BY Joined
<1>2. ASSUME NEW k \in 1..Len(s \o t)
      PROVE  (s \o t)[k] + Len(s \o t) = b + Len(t) + k
  <2>1. CASE k \in 1..Len(s)
    <3>1. s[k] \in Nat /\ s[k] + Len(s) = b + k
      BY <1>1, <2>1, SMTT(30) DEF RunTo
    <3>2. (s \o t)[k] = s[k] /\ Len(s \o t) = Len(s) + Len(t)
      BY <2>1, Joined
    <3>3. PICK x \in Nat, l \in Nat, m \in Nat, n \in Nat :
              x = s[k] /\ l = Len(s) /\ m = Len(t) /\ n = k
      <4>1. k \in Nat
        BY <1>1, <2>1
      <4> QED
        BY <1>1, <3>1, <4>1, Zenon
    <3>4. x + l = b + n
      BY <3>1, <3>3, Zenon
    <3>5. x + (l + m) = b + m + n
      BY <3>4
    <3> QED
      BY <3>2, <3>3, <3>5, Zenon
  <2>2. CASE \E j \in 1..Len(t) : k = Len(s) + j
    <3>1. PICK j \in 1..Len(t) : k = Len(s) + j
      BY <2>2
    <3>2. (s \o t)[Len(s) + j] = t[j] /\ Len(s \o t) = Len(s) + Len(t)
      BY Joined
    <3>3. t[j] = b + j /\ (s \o t)[k] = t[j]
      BY <1>1, <3>1, <3>2
    <3>4. (b + j) + (Len(s) + Len(t)) = b + Len(t) + (Len(s) + j)
      BY <1>1
    <3> QED
      BY <3>1, <3>2, <3>3, <3>4, Zenon
  <2> QED
    BY <2>1, <2>2, Joined
<1> QED
  BY <1>1, <1>2 DEF RunTo

-----------------------------------------------------------------------------
(* The steps that carry no rune.                                           *)

\* a step that moves a goroutine, ends something or prints a rune
Quiet ==
    /\ UNCHANGED <<taken, buf, sent, record, shown, todo, watching>>
    /\ printed' \in {printed, printed + 1}
    /\ reader' = "holding" <=> reader = "holding"
    /\ writer' = writer \/ (~Flushed /\ ~Flushed')
    /\ file' # file => file' # "open"
    /\ socket = "closed" => socket' = "closed"
    /\ Cleared' => Cleared

\* Terminal: such a step keeps what was sent, recorded and shown.
LEMMA Aside ==
    ASSUME TerminalInv, TypeOK', Quiet
    PROVE  TerminalInv'
<1>1. Streams'
  <2>1. Flushed' = Flushed /\ Base' = Base /\ (reader' = "holding") = (reader = "holding")
    BY DEF Base, Flushed, Quiet
  <2>2. taken' <= printed'
    BY DEF Quiet, TerminalInv, TypeOK, Streams
  <2> QED
    BY <2>1, <2>2 DEF Quiet, TerminalInv, Streams, InOrder
<1>2. Recorded'
  BY DEF Quiet, TerminalInv, Recorded, InOrder, Base, Flushed
<1>3. Watched'
  BY DEF Quiet, TerminalInv, Watched, RunTo, Base, Flushed
<1>4. Late'
  BY DEF Quiet, TerminalInv, Late, Flushed
<1> QED
  BY <1>1, <1>2, <1>3, <1>4 DEF TerminalInv

\* Terminal: the parts of the invariant that a step with the stream untouched
\* keeps whatever else it does.
LEMMA StreamStays ==
    ASSUME TerminalInv,
           UNCHANGED <<printed, taken, reader, writer, buf, sent, record, file>>
    PROVE  Streams' /\ Recorded'
  BY DEF TerminalInv, Streams, Recorded, InOrder, Base, Flushed

\* Terminal: the buffer never holds more than was sent once it is flushed.
LEMMA Lengths ==
    ASSUME TerminalInv
    PROVE  Len(sent) \in Nat /\ Len(buf) \in Nat /\ Len(record) \in Nat /\ Base \in Nat
  BY DEF TerminalInv, TypeOK, Streams, Base

-----------------------------------------------------------------------------
(* The inductive invariant.                                                *)

\* Terminal: at the start nothing was printed.
LEMMA InitInv == Init => TerminalInv
<1> SUFFICES ASSUME Init PROVE TerminalInv
  OBVIOUS
<1>1. TypeOK
  <2>1. <<>> \in Seq(Nat)
    OBVIOUS
  <2>2. shown \in [Watchers -> Seq(Nat)]
    BY <2>1 DEF Init
  <2>3. /\ printed \in 0..MaxRunes /\ taken \in 0..MaxRunes
        /\ buf \in Seq(Nat) /\ sent \in Seq(Nat) /\ record \in Seq(Nat)
        /\ todo \subseteq Watchers
        /\ watching \in [Watchers -> {"no", "on", "off"}]
    BY <2>1, TerminalAssumption DEF Init
  <2> QED
    BY <2>2, <2>3 DEF Init, TypeOK
<1>2. Streams /\ Recorded
  BY DEF Init, Streams, Recorded, InOrder, Base, Flushed
<1>3. Watched
  <2>1. 0 \in 0..Len(sent) /\ Len(sent) = 0
    BY DEF Init
  <2>2. \A w \in Watchers : shown[w] = <<>>
    BY DEF Init
  <2>3. RunTo(<<>>, 0)
    <3>1. DOMAIN <<>> = {}
      OBVIOUS
    <3> QED
      BY <3>1 DEF RunTo
  <2> QED
    BY <2>1, <2>2, <2>3 DEF Init, Watched
<1>4. Late
  BY DEF Init, Late, Cleared
<1> QED
  BY <1>1, <1>2, <1>3, <1>4 DEF TerminalInv

\* Terminal: every step keeps the types.
LEMMA TypesStay == TerminalInv /\ [Next]_vars => TypeOK'
<1> SUFFICES ASSUME TypeOK, [Next]_vars PROVE TypeOK'
  BY DEF TerminalInv
<1> USE TerminalAssumption DEF TypeOK, pump, out, watch, ends, close
<1>1. CASE Prints
  BY <1>1 DEF Prints
<1>2. CASE Exit
  BY <1>2 DEF Exit
<1>3. CASE Leave
  <2>1. peer' \in BOOLEAN
    BY <1>3, Zenon DEF Leave
  <2> QED
    BY <1>3, <2>1 DEF Leave
<1>4. CASE Check
  BY <1>4 DEF Check
<1>5. CASE ReadRune
  BY <1>5 DEF ReadRune
<1>6. CASE ReadFails
  BY <1>6 DEF ReadFails
<1>7. CASE HandOver
  BY <1>7 DEF HandOver
<1>8. CASE TickerFires
  BY <1>8 DEF TickerFires
<1>9. CASE Tick
  <2>1. due' \in BOOLEAN
    BY <1>9, Zenon DEF Tick
  <2> QED
    BY <1>9, <2>1 DEF Tick, Goto
<1>10. CASE WriterStops
  BY <1>10 DEF WriterStops, Goto
<1>11. CASE SendBegins
  <2>1. up' \in BOOLEAN
    <3>1. up' = FALSE \/ up' = up
      BY <1>11 DEF SendBegins
    <3> QED
      BY <3>1, Zenon
  <2>2. writer' \in {writer, "sending"}
    BY <1>11 DEF SendBegins, Goto
  <2>3. UNCHANGED <<printed, taken, reader, buf, due, stopped, out, watch, ends, close>>
    BY <1>11 DEF SendBegins
  <2> QED
    BY <2>1, <2>2, <2>3
<1>12. CASE SendEnds
  <2>1. sent' \in Seq(Nat)
    BY <1>12, Joined, ZenonT(40) DEF SendEnds
  <2>2. writer' \in {"recording", "done"}
    BY <1>12 DEF SendEnds, Goto
  <2>3. UNCHANGED <<printed, taken, reader, buf, due, stopped, record, shown, todo,
                    watch, ends, close, up>>
    BY <1>12 DEF SendEnds
  <2> QED
    BY <2>1, <2>2, <2>3
<1>13. CASE Record
  BY <1>13 DEF Record, Goto
<1>14. CASE Look
  BY <1>14 DEF Look, Goto
<1>15. ASSUME NEW w \in Watchers, CopyTo(w) PROVE TypeOK'
  BY <1>15 DEF CopyTo
<1>16. CASE Reset
  BY <1>16 DEF Reset, Goto
<1>17. CASE Gone
  BY <1>17 DEF Gone
<1>18. CASE Broken
  BY <1>18 DEF Broken
<1>19. CASE Ping
  BY <1>19 DEF Ping
<1>20. CASE Pong
  BY <1>20 DEF Pong
<1>21. CASE Stop
  BY <1>21 DEF Stop
<1>22. ASSUME NEW who \in {"main", "other"}, CloseBegins(who) PROVE TypeOK'
  BY <1>22 DEF CloseBegins, Returned
<1>23. CASE Told
  BY <1>23 DEF Told, Does
<1>24. CASE CloseAsset
  BY <1>24 DEF CloseAsset, Does
<1>25. CASE CloseFile
  BY <1>25 DEF CloseFile, Does
<1>26. CASE CloseSocket
  BY <1>26 DEF CloseSocket, Does
<1>27. CASE Forget
  <2>1. entry' \in BOOLEAN
    BY <1>27, Zenon DEF Forget
  <2> QED
    BY <1>27, <2>1 DEF Forget, Does, Returned
<1>28. ASSUME NEW w \in Watchers, Join(w) \/ Unwatch(w) PROVE TypeOK'
  <2>1. todo' \subseteq Watchers
    BY <1>28 DEF Join, Unwatch
  <2>2. watching' \in [Watchers -> {"no", "on", "off"}]
    BY <1>28 DEF Join, Unwatch
  <2>3. UNCHANGED <<pump, sent, record, shown, ends, close, up>>
    BY <1>28 DEF Join, Unwatch
  <2> QED
    BY <2>1, <2>2, <2>3
<1>29. CASE UNCHANGED vars
  BY <1>29 DEF vars
<1> QED
  BY <1>1, <1>2, <1>3, <1>4, <1>5, <1>6, <1>7, <1>8, <1>9, <1>10, <1>11, <1>12,
     <1>13, <1>14, <1>15, <1>16, <1>17, <1>18, <1>19, <1>20, <1>21, <1>22,
     <1>23, <1>24, <1>25, <1>26, <1>27, <1>28, <1>29
     DEF Next, Reader, Writer, CloseOn

\* Terminal: the steps that carry no rune and clear nothing.
LEMMA QuietSteps ==
    ASSUME TypeOK,
           \/ Prints \/ Exit \/ Leave \/ Check \/ ReadFails \/ TickerFires \/ Tick
           \/ WriterStops \/ SendBegins \/ Gone \/ Broken \/ Ping \/ Pong \/ Stop
           \/ CloseBegins("main") \/ CloseBegins("other")
           \/ Told \/ CloseAsset \/ CloseFile
    PROVE  Quiet
<1> USE DEF TypeOK, pump, out, watch, ends, close, Quiet, Flushed, Cleared
<1>1. CASE Prints
  BY <1>1 DEF Prints
<1>2. CASE Exit
  BY <1>2 DEF Exit
<1>3. CASE Leave
  BY <1>3 DEF Leave
<1>4. CASE Check
  BY <1>4 DEF Check
<1>5. CASE ReadFails
  BY <1>5 DEF ReadFails
<1>6. CASE TickerFires
  BY <1>6 DEF TickerFires
<1>7. CASE Tick
  BY <1>7 DEF Tick, Goto
<1>8. CASE WriterStops
  BY <1>8 DEF WriterStops, Goto
<1>9. CASE SendBegins
  BY <1>9 DEF SendBegins, Goto
<1>10. CASE Gone
  BY <1>10 DEF Gone
<1>11. CASE Broken
  BY <1>11 DEF Broken
<1>12. CASE Ping
  BY <1>12 DEF Ping
<1>13. CASE Pong
  BY <1>13 DEF Pong
<1>14. CASE Stop
  BY <1>14 DEF Stop
<1>15. CASE CloseBegins("main")
  BY <1>15 DEF CloseBegins, Returned
<1>16. CASE CloseBegins("other")
  BY <1>16 DEF CloseBegins, Returned
<1>17. CASE Told
  BY <1>17 DEF Told, Does
<1>18. CASE CloseAsset
  BY <1>18 DEF CloseAsset, Does
<1>19. CASE CloseFile
  BY <1>19 DEF CloseFile, Does
<1> QED
  BY <1>1, <1>2, <1>3, <1>4, <1>5, <1>6, <1>7, <1>8, <1>9, <1>10, <1>11, <1>12,
     <1>13, <1>14, <1>15, <1>16, <1>17, <1>18, <1>19

-----------------------------------------------------------------------------
(* The steps that carry runes, from the reader to the observers.           *)

\* readFormTunnel: the rune it holds follows those in the buffer.
LEMMA ReadRuneKeeps == TerminalInv /\ TypeOK' /\ ReadRune => TerminalInv'
<1> SUFFICES ASSUME TerminalInv, TypeOK', ReadRune PROVE TerminalInv'
  OBVIOUS
<1>1. /\ UNCHANGED <<printed, writer, buf, out, watch, ends, close>>
      /\ taken' = taken + 1 /\ taken < printed
      /\ reader = "reading" /\ reader' = "holding"
  BY DEF ReadRune
<1>2. Base' = Base /\ Flushed' = Flushed
  BY <1>1 DEF Base, Flushed, out
<1>3. Streams'
  <2>1. taken = Base + Len(buf)
    BY <1>1, Lengths DEF TerminalInv, Streams
  <2>2. taken' = Base + Len(buf) + 1 /\ taken' <= printed
    BY <1>1, <2>1, Lengths DEF TerminalInv, TypeOK
  <2> QED
    BY <1>1, <1>2, <2>2 DEF TerminalInv, Streams, InOrder, out
<1>4. Recorded' /\ Watched' /\ Late'
  BY <1>1, <1>2 DEF TerminalInv, Recorded, InOrder, Watched, RunTo, Late, Cleared,
                    out, watch, ends, close
<1> QED
  BY <1>3, <1>4 DEF TerminalInv

\* writeToWebsocket: the rune handed over goes to the end of the buffer.
LEMMA HandOverKeeps == TerminalInv /\ TypeOK' /\ HandOver => TerminalInv'
<1> SUFFICES ASSUME TerminalInv, TypeOK', HandOver PROVE TerminalInv'
  OBVIOUS
<1>1. /\ UNCHANGED <<printed, taken, writer, out, watch, ends, close>>
      /\ buf' = Append(buf, taken) /\ writer = "waiting"
      /\ reader = "holding" /\ reader' = "checking"
  BY DEF HandOver
<1>2. ~Flushed /\ ~Flushed' /\ Base = Len(sent) /\ Base' = Len(sent)
  BY <1>1 DEF Base, Flushed, out
<1>3. Streams'
  <2>1. taken = Len(sent) + Len(buf) + 1
    BY <1>1, <1>2 DEF TerminalInv, Streams
  <2>2. buf \in Seq(Nat) /\ taken \in Nat
    BY DEF TerminalInv, TypeOK
  <2>3. Len(buf') = Len(buf) + 1
    BY <1>1, <2>2
  <2>4. ASSUME NEW k \in DOMAIN buf' PROVE buf'[k] = Len(sent) + k
    <3>1. CASE k \in DOMAIN buf
      <4>1. buf'[k] = buf[k]
        BY <1>1, <2>2, <3>1
      <4> QED
        BY <1>2, <3>1, <4>1 DEF TerminalInv, Streams
    <3>2. CASE k = Len(buf) + 1
      <4>1. buf'[k] = taken
        BY <1>1, <2>2, <3>2
      <4> QED
        BY <2>1, <3>2, <4>1, Lengths
    <3> QED
      BY <1>1, <2>2, <2>4, <3>1, <3>2
  <2>5. taken' = Len(sent) + Len(buf')
    BY <1>1, <2>1, <2>3, Lengths
  <2> QED
    BY <1>1, <1>2, <2>4, <2>5, Lengths DEF TerminalInv, Streams, InOrder, out
<1>4. Recorded' /\ Late'
  BY <1>1, <1>2 DEF TerminalInv, Recorded, InOrder, Late, Cleared,
                    out, watch, ends, close
<1>5. Watched'
  BY <1>1, <1>2 DEF TerminalInv, Watched, RunTo, out, watch
<1> QED
  BY <1>3, <1>4, <1>5 DEF TerminalInv

\* writeToWebsocket: what the browser was sent goes on with the buffer.
LEMMA SendEndsKeeps == TerminalInv /\ TypeOK' /\ SendEnds => TerminalInv'
<1> SUFFICES ASSUME TerminalInv, TypeOK', SendEnds PROVE TerminalInv'
  OBVIOUS
<1>1. /\ UNCHANGED <<printed, taken, reader, buf, record, shown, todo, watch, ends, close>>
      /\ writer = "sending"
  BY DEF SendEnds
<1>2. CASE writer' = "done" /\ UNCHANGED sent
  <2>1. Quiet
    BY <1>1, <1>2 DEF Quiet, Flushed, Cleared, watch, ends, close
  <2> QED
    BY <2>1, Aside
<1>3. CASE socket = "open" /\ writer' = "recording" /\ sent' = sent \o buf
  <2>1. /\ sent \in Seq(Nat) /\ buf \in Seq(Nat) /\ InOrder(sent)
        /\ \A k \in DOMAIN buf : buf[k] = Len(sent) + k
        /\ Base = Len(sent)
    BY <1>1 DEF TerminalInv, TypeOK, Streams, Base, Flushed
  <2>2. Len(sent') = Len(sent) + Len(buf) /\ InOrder(sent')
    BY <1>3, <2>1, Joined, OrderGoesOn
  <2>3. Flushed' /\ Base' = Len(sent)
    <3>1. Flushed' /\ Base' = Len(sent') - Len(buf)
      BY <1>1, <1>3 DEF Base, Flushed
    <3> QED
      BY <2>2, <3>1, Lengths
  <2>4. Streams'
    <3>1. taken' = Base' + Len(buf') + (IF reader' = "holding" THEN 1 ELSE 0)
      BY <1>1, <2>1, <2>3 DEF TerminalInv, Streams
    <3>2. Len(buf') <= Len(sent') /\ taken' <= printed'
      BY <1>1, <2>2, Lengths DEF TerminalInv, Streams
    <3> QED
      BY <1>1, <2>1, <2>2, <2>3, <3>1, <3>2 DEF Streams
  <2>5. Recorded'
    BY <1>1, <1>3, <2>1, <2>3 DEF TerminalInv, Recorded, InOrder, ends
  <2>6. Watched'
    <3>1. ASSUME NEW w \in Watchers
          PROVE  \E b \in 0..Len(sent') : RunTo(shown[w], b)
      <4>1. PICK b \in 0..Len(sent) : RunTo(shown[w], b)
        BY DEF TerminalInv, Watched
      <4>2. b \in 0..Len(sent')
        BY <2>2, Lengths
      <4> QED
        BY <4>1, <4>2
    <3>2. ASSUME NEW w \in Watchers, watching[w] = "on"
          PROVE  RunTo(shown[w], Len(sent))
      BY <1>1, <2>1, <3>2 DEF TerminalInv, Watched
    <3>3. \A w \in Watchers : w \notin todo
      BY <1>1 DEF TerminalInv, Watched
    <3> QED
      BY <1>1, <1>3, <2>3, <3>1, <3>2, <3>3 DEF TerminalInv, Watched, RunTo, watch
  <2>7. Late'
    BY <1>1, <1>3 DEF TerminalInv, Late, Cleared, ends, close
  <2> QED
    BY <2>4, <2>5, <2>6, <2>7 DEF TerminalInv
<1> QED
  BY <1>2, <1>3 DEF SendEnds, Goto

\* Recorder.WriteData: an open file gets what the browser was sent last.
LEMMA RecordKeeps == TerminalInv /\ TypeOK' /\ Record => TerminalInv'
<1> SUFFICES ASSUME TerminalInv, TypeOK', Record PROVE TerminalInv'
  OBVIOUS
<1>1. /\ UNCHANGED <<printed, taken, reader, buf, sent, shown, todo, watch, ends, close>>
      /\ writer = "recording" /\ writer' = "looking"
      /\ record' = IF file = "open" THEN record \o buf ELSE record
  BY DEF Record, Goto
<1>2. /\ Flushed /\ Flushed' /\ Base' = Base
      /\ Base = Len(sent) - Len(buf) /\ Len(buf) <= Len(sent)
  BY <1>1 DEF TerminalInv, Streams, Base, Flushed
<1>3. Streams'
  BY <1>1, <1>2 DEF TerminalInv, Streams, InOrder
<1>4. Recorded'
  <2>1. /\ record \in Seq(Nat) /\ buf \in Seq(Nat) /\ InOrder(record)
        /\ Len(record) <= Base
        /\ file = "open" => Len(record) = Base
        /\ \A k \in DOMAIN buf : buf[k] = Base + k
    BY <1>1 DEF TerminalInv, TypeOK, Recorded, Streams
  <2>2. CASE file = "open"
    <3>1. Len(record') = Len(record) + Len(buf) /\ InOrder(record')
      BY <1>1, <2>1, <2>2, Joined, OrderGoesOn
    <3>2. Len(record') = Len(sent)
      BY <1>2, <2>1, <2>2, <3>1, Lengths
    <3> QED
      BY <1>1, <3>1, <3>2, Lengths DEF Recorded
  <2>3. CASE file # "open"
    <3>1. record' = record /\ Len(record) <= Len(sent)
      BY <1>1, <1>2, <2>1, <2>3, Lengths
    <3> QED
      BY <1>1, <2>1, <2>3, <3>1 DEF Recorded, InOrder, ends
  <2> QED
    BY <2>2, <2>3
<1>5. Watched'
  BY <1>1, <1>2 DEF TerminalInv, Watched, RunTo, watch
<1>6. Late'
  BY <1>1 DEF TerminalInv, Late, Cleared, ends, close, watch
<1> QED
  BY <1>3, <1>4, <1>5, <1>6 DEF TerminalInv

\* SendObData: the observers found are those who have not had the flush.
LEMMA LookKeeps == TerminalInv /\ TypeOK' /\ Look => TerminalInv'
<1> SUFFICES ASSUME TerminalInv, TypeOK', Look PROVE TerminalInv'
  OBVIOUS
<1>1. /\ UNCHANGED <<printed, taken, reader, buf, sent, record, shown, watch, ends, close>>
      /\ writer = "looking" /\ writer' = "copying"
      /\ todo' = IF entry THEN {w \in Watchers : watching[w] = "on"} ELSE {}
  BY DEF Look, Goto
<1>2. Flushed /\ Flushed' /\ Base' = Base
  BY <1>1 DEF Base, Flushed
<1>3. Streams' /\ Recorded' /\ Late'
  BY <1>1, <1>2 DEF TerminalInv, Streams, Recorded, InOrder, Late, Cleared, watch,
                    ends, close
<1>4. ASSUME NEW w \in Watchers, watching[w] = "on"
      PROVE  RunTo(shown[w], IF w \in todo' THEN Base ELSE Len(sent))
  <2>1. CASE entry
    BY <1>1, <1>4, <2>1 DEF TerminalInv, Watched
  <2>2. CASE ~entry
    <3>1. shown[w] = <<>>
      BY <1>1, <1>4, <2>2 DEF TerminalInv, Late, Cleared
    <3>2. DOMAIN <<>> = {}
      OBVIOUS
    <3> QED
      BY <3>1, <3>2 DEF RunTo
  <2> QED
    BY <2>1, <2>2
<1>5. Watched'
  BY <1>1, <1>2, <1>4 DEF TerminalInv, Watched, RunTo, watch
<1> QED
  BY <1>3, <1>5 DEF TerminalInv

\* SendObData: an observer sees the flush next after what it saw before.
LEMMA CopyToKeeps ==
    ASSUME NEW w \in Watchers, TerminalInv, TypeOK', CopyTo(w)
    PROVE  TerminalInv'
<1>1. /\ UNCHANGED <<pump, sent, record, watch, ends, close>>
      /\ writer = "copying" /\ w \in todo /\ todo' = todo \ {w}
      /\ shown' = IF watching[w] = "on" THEN [shown EXCEPT ![w] = @ \o buf] ELSE shown
  BY DEF CopyTo
<1>2. /\ Flushed /\ Base \in Nat /\ Len(sent) = Base + Len(buf)
      /\ \A k \in DOMAIN buf : buf[k] = Base + k
  BY <1>1, Lengths DEF TerminalInv, Streams, Base, Flushed
<1>3. Streams' /\ Recorded'
  BY <1>1, StreamStays DEF pump, ends
<1>4. Late'
  BY <1>1 DEF TerminalInv, Late, Cleared, pump, watch, ends, close
<1>5. Watched'
  <2>1. Base' = Base /\ UNCHANGED <<writer, sent, watching>>
    BY <1>1 DEF Base, Flushed, pump, watch
  <2>2. ASSUME NEW v \in Watchers, shown'[v] = shown[v], v # w \/ watching[w] # "on"
        PROVE  /\ \E b \in 0..Len(sent) : RunTo(shown'[v], b)
               /\ watching[v] = "on" =>
                    RunTo(shown'[v], IF v \in todo' THEN Base ELSE Len(sent))
               /\ watching[v] = "no" => shown'[v] = <<>>
    BY <1>1, <2>2 DEF TerminalInv, Watched
  <2>3. ASSUME watching[w] = "on"
        PROVE  RunTo(shown'[w], Len(sent))
    <3>1. /\ shown[w] \in Seq(Nat) /\ buf \in Seq(Nat)
          /\ RunTo(shown[w], Base) /\ shown'[w] = shown[w] \o buf
      BY <1>1, <2>3 DEF TerminalInv, TypeOK, Watched
    <3> QED
      BY <1>2, <3>1, RunGoesOn
  <2>4. Len(sent) \in 0..Len(sent)
    BY Lengths
  <2>5. \A v \in Watchers : v # w => shown'[v] = shown[v]
    BY <1>1 DEF TerminalInv, TypeOK
  <2>6. watching[w] # "on" => shown'[w] = shown[w]
    BY <1>1
  <2> QED
    BY <1>1, <2>1, <2>2, <2>3, <2>4, <2>5, <2>6 DEF TerminalInv, Watched
<1> QED
  BY <1>3, <1>4, <1>5 DEF TerminalInv

\* writeToWebsocket: once every observer has had the flush the buffer is empty.
LEMMA ResetKeeps == TerminalInv /\ TypeOK' /\ Reset => TerminalInv'
<1> SUFFICES ASSUME TerminalInv, TypeOK', Reset PROVE TerminalInv'
  OBVIOUS
<1>1. /\ UNCHANGED <<printed, taken, reader, out, watch, ends, close>>
      /\ writer = "copying" /\ writer' = "waiting" /\ todo = {} /\ buf' = <<>>
  BY DEF Reset, Goto
<1>2. Flushed /\ ~Flushed' /\ Base' = Len(sent) /\ Len(sent) = Base + Len(buf)
  BY <1>1, Lengths DEF TerminalInv, Streams, Base, Flushed, out
<1>3. Streams'
  <2>1. DOMAIN buf' = {} /\ Len(buf') = 0
    BY <1>1
  <2>2. taken' = Len(sent) + Len(buf') + (IF reader = "holding" THEN 1 ELSE 0)
    BY <1>1, <1>2, <2>1, Lengths DEF TerminalInv, Streams
  <2> QED
    BY <1>1, <1>2, <2>1, <2>2 DEF TerminalInv, Streams, InOrder, out
<1>4. Recorded' /\ Late'
  BY <1>1 DEF TerminalInv, Recorded, InOrder, Late, Cleared, out, watch, ends, close
<1>5. Watched'
  BY <1>1, <1>2 DEF TerminalInv, Watched, RunTo, out, watch
<1> QED
  BY <1>3, <1>4, <1>5 DEF TerminalInv

-----------------------------------------------------------------------------
(* The steps that change who watches.                                      *)

\* Observer.Add and Del: who joins has seen nothing, also after the close.
LEMMA WatchKeeps ==
    ASSUME NEW w \in Watchers, TerminalInv, TypeOK', Join(w) \/ Unwatch(w)
    PROVE  TerminalInv'
<1>1. UNCHANGED <<pump, sent, record, shown, ends, close>>
  BY DEF Join, Unwatch, out
<1>2. /\ \A v \in Watchers : v # w => watching'[v] = watching[v] /\ (v \in todo' <=> v \in todo)
      /\ watching'[w] = "off" \/ (watching[w] = "no" /\ watching'[w] = "on")
      /\ \A v \in Watchers : v \in todo' => writer = "copying"
      /\ \A v \in Watchers : watching'[v] = "no" => watching[v] = "no"
  BY DEF Join, Unwatch, out, TerminalInv, TypeOK, Watched
<1>3. /\ watching[w] = "no" => shown[w] = <<>>
      /\ \A b \in Nat : RunTo(<<>>, b)
  <2>1. DOMAIN <<>> = {}
    OBVIOUS
  <2> QED
    BY <2>1 DEF TerminalInv, Watched, RunTo
<1>4. Streams' /\ Recorded'
  BY <1>1, StreamStays DEF pump, ends
<1>5. Base' = Base /\ UNCHANGED <<shown, sent, writer>>
  BY <1>1 DEF Base, Flushed, pump
<1>6. Watched'
  <2>1. ASSUME NEW v \in Watchers, watching'[v] = "on"
        PROVE  RunTo(shown[v], IF writer \in {"recording", "looking"} \/ v \in todo'
                               THEN Base ELSE Len(sent))
    <3>1. CASE v = w
      BY <1>2, <1>3, <2>1, <3>1, Lengths
    <3>2. CASE v # w
      BY <1>2, <2>1, <3>2 DEF TerminalInv, Watched
    <3> QED
      BY <3>1, <3>2
  <2> QED
    BY <1>2, <1>5, <2>1 DEF TerminalInv, Watched
<1>7. Late'
  BY <1>1, <1>2, <1>3 DEF TerminalInv, Late, Cleared, pump, ends, close
<1> QED
  BY <1>4, <1>6, <1>7 DEF TerminalInv

\* Observer.Clear, and then the session is forgotten: nobody watches who has
\* seen a flush that is not over.
LEMMA ClearKeeps ==
    ASSUME TerminalInv, TypeOK', CloseSocket \/ Forget
    PROVE  TerminalInv'
<1>1. UNCHANGED <<pump, out, file>>
  BY DEF CloseSocket, Forget
<1>2. \A w \in Watchers :
         watching'[w] = watching[w] \/ (watching[w] = "on" /\ watching'[w] = "off")
  BY DEF CloseSocket, Forget, watch, TerminalInv, TypeOK
<1>3. Streams' /\ Recorded'
  BY <1>1, StreamStays DEF pump, out
<1>4. Base' = Base
  BY <1>1 DEF Base, Flushed, pump, out
<1>5. Watched'
  BY <1>1, <1>2, <1>4 DEF TerminalInv, Watched, pump, out
<1>6. Late'
  <2>1. CASE CloseSocket
    BY <2>1 DEF CloseSocket, Does, Late, TerminalInv, TypeOK
  <2>2. CASE Forget
    BY <1>1, <2>2 DEF Forget, Does, Late, Cleared, TerminalInv, pump, out, watch
  <2> QED
    BY <2>1, <2>2
<1> QED
  BY <1>3, <1>5, <1>6 DEF TerminalInv

-----------------------------------------------------------------------------
(* Theorems.                                                               *)

\* Terminal: every step keeps the invariant.
LEMMA NextInv == TerminalInv /\ [Next]_vars => TerminalInv'
<1> SUFFICES ASSUME TerminalInv, [Next]_vars PROVE TerminalInv'
  OBVIOUS
<1>1. TypeOK'
  BY TypesStay
<1>2. CASE \/ Prints \/ Exit \/ Leave \/ Check \/ ReadFails \/ TickerFires \/ Tick
           \/ WriterStops \/ SendBegins \/ Gone \/ Broken \/ Ping \/ Pong \/ Stop
           \/ CloseBegins("main") \/ CloseBegins("other")
           \/ Told \/ CloseAsset \/ CloseFile
  BY <1>1, <1>2, QuietSteps, Aside DEF TerminalInv
<1>3. CASE ReadRune \/ HandOver \/ SendEnds \/ Record \/ Look \/ Reset
  BY <1>1, <1>3, ReadRuneKeeps, HandOverKeeps, SendEndsKeeps, RecordKeeps, LookKeeps,
     ResetKeeps
<1>4. CASE CloseSocket \/ Forget
  BY <1>1, <1>4, ClearKeeps
<1>5. ASSUME NEW w \in Watchers, CopyTo(w) \/ Join(w) \/ Unwatch(w)
      PROVE  TerminalInv'
  BY <1>1, <1>5, CopyToKeeps, WatchKeeps
<1>6. CASE UNCHANGED vars
  <2>1. Quiet
    BY <1>6 DEF vars, pump, out, watch, ends, close, Quiet, Flushed, Cleared
  <2> QED
    BY <1>1, <2>1, Aside
<1> QED
  BY <1>2, <1>3, <1>4, <1>5, <1>6 DEF Next, Reader, Writer, CloseOn

\* Of every rune the asset printed it is known at any time whether it is sent, in
\* the buffer, in the reader's hand or still to be read; the recording and the
\* observers are behind the browser by the flush under way only.
THEOREM StreamIsWhole == Spec => []TerminalInv
<1> QED
  BY InitInv, NextInv, PTL DEF Spec

\* writeToWebsocket, WriteData: the recording is what the browser was sent.
THEOREM RecordingMatches == Spec => []RecordingIsFaithful
<1>1. TerminalInv => RecordingIsFaithful
  <2> SUFFICES ASSUME TerminalInv PROVE RecordingIsFaithful
    OBVIOUS
  <2>1. sent \in Seq(Nat) /\ record \in Seq(Nat) /\ InOrder(sent) /\ InOrder(record)
    BY DEF TerminalInv, TypeOK, Streams, Recorded
  <2>2. Base <= Len(sent)
    BY Lengths DEF TerminalInv, Streams, Base
  <2>3. Len(record) <= Len(sent)
    BY <2>2, Lengths DEF TerminalInv, Recorded
  <2>4. Len(sent) <= printed
    <3>1. Len(sent) <= Base + Len(buf)
      BY Lengths DEF TerminalInv, Streams, Base
    <3>2. taken \in Nat /\ printed \in Nat /\ Base + Len(buf) <= taken /\ taken <= printed
      BY Lengths DEF TerminalInv, TypeOK, Streams
    <3> QED
      BY <3>1, <3>2, Lengths
  <2>5. ASSUME file = "open", writer # "recording" PROVE record = sent
    <3>1. Len(record) = Len(sent)
      BY <2>5 DEF TerminalInv, Recorded
    <3>2. \A k \in 1..Len(sent) : record[k] = sent[k]
      BY <2>1, <3>1 DEF InOrder
    <3> QED
      BY <2>1, <3>1, <3>2
  <2> QED
    BY <2>1, <2>3, <2>4, <2>5 DEF RecordingIsFaithful
<1> QED
  BY <1>1, StreamIsWhole, PTL

\* SendObData: an observer sees one run of what the browser was sent.
THEOREM WatchersMissNothing == Spec => []WatchersSeeARun
<1>1. TerminalInv => WatchersSeeARun
  <2> SUFFICES ASSUME TerminalInv, NEW w \in Watchers, NEW k \in DOMAIN shown[w]
               PROVE  shown[w][k] = shown[w][1] + k - 1 /\ shown[w][k] <= Len(sent)
    BY DEF WatchersSeeARun
  <2>1. PICK b \in 0..Len(sent) : RunTo(shown[w], b)
    BY DEF TerminalInv, Watched
  <2>2. shown[w] \in Seq(Nat) /\ b \in Nat
    BY <2>1, Lengths DEF TerminalInv, TypeOK
  <2>3. PICK l \in Nat : l = Len(shown[w])
    BY <2>2
  <2>4. k \in 1..l /\ 1 \in DOMAIN shown[w] /\ shown[w][k] \in Nat /\ shown[w][1] \in Nat
    BY <2>2, <2>3
  <2>5. shown[w][k] + l = b + k /\ shown[w][1] + l = b + 1
    BY <2>1, <2>3, <2>4 DEF RunTo
  <2>6. PICK x \in Nat, y \in Nat, z \in Nat, n \in Nat :
            x = shown[w][k] /\ y = shown[w][1] /\ z = Len(sent) /\ n = k
    <3>1. k \in Nat
      BY <2>3, <2>4
    <3> QED
      BY <2>4, <3>1, Lengths, Zenon
  <2>7. x + l = b + n /\ y + l = b + 1
    BY <2>5, <2>6, Zenon
  <2>8. n <= l /\ b <= z /\ b \in Nat
    <3>1. k <= l
      BY <2>3, <2>4
    <3>2. b <= Len(sent)
      BY <2>1, Lengths
    <3> QED
      BY <2>2, <2>6, <3>1, <3>2, Zenon
  <2>9. x = y + n - 1 /\ x <= z
    BY <2>3, <2>7, <2>8
  <2> QED
    BY <2>6, <2>9, Zenon
<1> QED
  BY <1>1, StreamIsWhole, PTL
=============================================================================
