------------------------------ MODULE Terminal ------------------------------
(***************************************************************************)
(* What a web terminal carries: the goroutine that reads what the asset    *)
(* prints, the one that flushes it every 60 ms to the browser, to the      *)
(* recording and to the observers, the endpoint that reads the browser,    *)
(* and a close of the session, by the endpoint or by somebody else.        *)
(*                                                                         *)
(* It begins where Session registers the terminal.  Runes are numbered in  *)
(* the order in which the asset prints them.                               *)
(***************************************************************************)
EXTENDS Naturals, Sequences

CONSTANTS
    Watchers,    \* observers of the session
    isRecording, \* the property enable-recording
    MaxRunes     \* bound on what the asset prints

ASSUME TerminalAssumption == isRecording \in BOOLEAN /\ MaxRunes \in Nat

VARIABLES
    printed,  \* how many runes the asset has printed
    taken,    \* how many of them the reader has read
    reader,   \* where readFormTunnel is
    writer,   \* where writeToWebsocket is
    buf,      \* its buffer
    due,      \* has the ticker ticked?
    stopped,  \* is the context cancelled?
    sent,     \* what was written to the browser,
    record,   \* to the recording
    shown,    \* and to each observer
    watching, \* is it among the observers?
    todo,     \* the observers the writer has still to write to
    asset,    \* the SSH session
    file,     \* the recording
    socket,   \* the websocket
    peer,     \* is the browser there?
    entry,    \* is the session registered?
    main,     \* where SshEndpoint is
    closer,   \* who is in CloseSessionById
    step,     \* and what it does next
    up        \* is the server running?

pump  == <<printed, taken, reader, writer, buf, due, stopped>>
out   == <<sent, record, shown, todo>>
watch == <<watching>>
ends  == <<asset, file, socket, peer, entry>>
close == <<main, closer, step>>
vars  == <<pump, out, watch, ends, close, up>>

TypeOK ==
    /\ printed \in 0..MaxRunes /\ taken \in 0..MaxRunes
    /\ reader \in {"checking", "reading", "holding", "done"}
    /\ writer \in {"waiting", "flushing", "sending", "recording", "looking",
                   "copying", "done"}
    /\ buf \in Seq(Nat) /\ sent \in Seq(Nat) /\ record \in Seq(Nat)
    /\ due \in BOOLEAN /\ stopped \in BOOLEAN
    /\ shown \in [Watchers -> Seq(Nat)]
    /\ watching \in [Watchers -> {"no", "on", "off"}]
    /\ todo \subseteq Watchers
    /\ asset \in {"open", "exited", "closed"}
    /\ file \in {"none", "open", "closed"}
    /\ socket \in {"open", "closed"}
    /\ peer \in BOOLEAN /\ entry \in BOOLEAN /\ up \in BOOLEAN
    /\ main \in {"reading", "ponging", "breaking", "leaving", "stopping", "done"}
    /\ closer \in {"none", "main", "other"}
    /\ step \in {"tell", "asset", "file", "socket", "forget"}

Init ==
    /\ printed = 0 /\ taken = 0
    /\ reader = "checking" /\ writer = "waiting"
    /\ buf = <<>> /\ sent = <<>> /\ record = <<>>
    /\ due = FALSE /\ stopped = FALSE
    /\ shown = [w \in Watchers |-> <<>>]
    /\ watching = [w \in Watchers |-> "no"]
    /\ todo = {}
    /\ asset = "open" /\ file = (IF isRecording THEN "open" ELSE "none") /\ socket = "open"
    /\ peer = TRUE /\ entry = TRUE /\ up = TRUE
    /\ main = "reading" /\ closer = "none" /\ step = "tell"

-----------------------------------------------------------------------------
(* The asset, the browser and the observers.                               *)

Prints ==
    /\ asset = "open" /\ printed < MaxRunes
    /\ printed' = printed + 1
    /\ UNCHANGED <<taken, reader, writer, buf, due, stopped, out, watch, ends, close, up>>

\* the remote shell ends, or the connection to it breaks
Exit ==
    /\ asset = "open"
    /\ asset' = "exited"
    /\ UNCHANGED <<pump, out, watch, file, socket, peer, entry, close, up>>

Leave ==
    /\ peer
    /\ peer' = FALSE
    /\ UNCHANGED <<pump, out, watch, asset, file, socket, entry, close, up>>

\* Observer.Add, some time after the monitor found the session registered, and
\* Observer.Del; a Range under way may see who joins
Join(w) ==
    /\ watching[w] = "no"
    /\ watching' = [watching EXCEPT ![w] = "on"]
    /\ todo' \in IF writer = "copying" THEN {todo, todo \cup {w}} ELSE {todo}
    /\ UNCHANGED <<pump, sent, record, shown, ends, close, up>>

Unwatch(w) ==
    /\ watching[w] = "on"
    /\ watching' = [watching EXCEPT ![w] = "off"]
    /\ UNCHANGED <<pump, out, ends, close, up>>

-----------------------------------------------------------------------------
(* readFormTunnel.                                                         *)

Check ==
    /\ reader = "checking"
    /\ reader' = IF stopped THEN "done" ELSE "reading"
    /\ UNCHANGED <<printed, taken, writer, buf, due, stopped, out, watch, ends, close, up>>

ReadRune ==
    /\ reader = "reading" /\ taken < printed
    /\ taken' = taken + 1
    /\ reader' = "holding"
    /\ UNCHANGED <<printed, writer, buf, due, stopped, out, watch, ends, close, up>>

\* what was printed before a shell exits can be read; after a close it may be lost
ReadFails ==
    /\ reader = "reading"
    /\ asset = "closed" \/ (asset = "exited" /\ taken = printed)
    /\ reader' = "done"
    /\ UNCHANGED <<printed, taken, writer, buf, due, stopped, out, watch, ends, close, up>>

\* dataChan has no buffer: both goroutines take this step
HandOver ==
    /\ reader = "holding" /\ writer = "waiting"
    /\ buf' = Append(buf, taken)
    /\ reader' = "checking"
    /\ UNCHANGED <<printed, taken, writer, due, stopped, out, watch, ends, close, up>>

-----------------------------------------------------------------------------
(* writeToWebsocket.                                                       *)

Goto(at) == writer' = at

TickerFires ==
    /\ ~stopped /\ ~due
    /\ due' = TRUE
    /\ UNCHANGED <<printed, taken, reader, writer, buf, stopped, out, watch, ends, close, up>>

\* Mutant: a tick with nothing to flush ends the loop.
TickReturns ==
    /\ writer = "waiting" /\ due
    /\ due' = FALSE
    /\ Goto(IF buf = <<>> THEN "done" ELSE "flushing")
    /\ UNCHANGED <<printed, taken, reader, buf, stopped, out, watch, ends, close, up>>

Tick ==
    /\ writer = "waiting" /\ due
    /\ due' = FALSE
    /\ Goto(IF buf = <<>> THEN "waiting" ELSE "flushing")
    /\ UNCHANGED <<printed, taken, reader, buf, stopped, out, watch, ends, close, up>>

WriterStops ==
    /\ writer = "waiting" /\ stopped
    /\ Goto("done")
    /\ UNCHANGED <<printed, taken, reader, buf, due, stopped, out, watch, ends, close, up>>

\* is a message of CloseSessionById being written?  It takes another mutex.
Telling == closer # "none" /\ step = "tell"

\* The handler's mutex is free.  The websocket does not allow a second message
\* to begin: if it notices, the goroutine panics and with it the server.  Its
\* flag is not synchronized, so it may also go unnoticed.
SendBegins ==
    /\ writer = "flushing" /\ main # "ponging"
    /\ \/ Telling /\ up' = FALSE /\ UNCHANGED writer
       \/ Goto("sending") /\ UNCHANGED up
    /\ UNCHANGED <<printed, taken, reader, buf, due, stopped, out, watch, ends, close>>

\* Mutant: the error is ignored.
SendIgnores ==
    /\ writer = "sending"
    /\ Goto("recording")
    /\ \/ socket = "open" /\ sent' = sent \o buf
       \/ (socket = "closed" \/ ~peer) /\ UNCHANGED sent
    /\ UNCHANGED <<printed, taken, reader, buf, due, stopped, record, shown, todo,
                   watch, ends, close, up>>

\* nothing tells at once that the browser is gone; the loop ends on an error
SendEnds ==
    /\ writer = "sending"
    /\ \/ socket = "open" /\ Goto("recording") /\ sent' = sent \o buf
       \/ (socket = "closed" \/ ~peer) /\ Goto("done") /\ UNCHANGED sent
    /\ UNCHANGED <<printed, taken, reader, buf, due, stopped, record, shown, todo,
                   watch, ends, close, up>>

\* Recorder.WriteData: the error of a closed file is ignored
Record ==
    /\ writer = "recording"
    /\ Goto("looking")
    /\ record' = IF file = "open" THEN record \o buf ELSE record
    /\ UNCHANGED <<printed, taken, reader, buf, due, stopped, sent, shown, todo,
                   watch, ends, close, up>>

\* SendObData: a session that is not registered has no observers
Look ==
    /\ writer = "looking"
    /\ Goto("copying")
    /\ todo' = IF entry THEN {w \in Watchers : watching[w] = "on"} ELSE {}
    /\ UNCHANGED <<printed, taken, reader, buf, due, stopped, sent, record, shown,
                   watch, ends, close, up>>

\* the error of an observer who has left or was kicked is ignored
CopyTo(w) ==
    /\ writer = "copying" /\ w \in todo
    /\ todo' = todo \ {w}
    /\ shown' = IF watching[w] = "on" THEN [shown EXCEPT ![w] = @ \o buf] ELSE shown
    /\ UNCHANGED <<pump, sent, record, watch, ends, close, up>>

\* Mutant: the buffer is flushed again with the next tick.
KeepBuffer ==
    /\ writer = "copying" /\ todo = {}
    /\ Goto("waiting")
    /\ UNCHANGED <<printed, taken, reader, buf, due, stopped, out, watch, ends, close, up>>

Reset ==
    /\ writer = "copying" /\ todo = {}
    /\ Goto("waiting")
    /\ buf' = <<>>
    /\ UNCHANGED <<printed, taken, reader, due, stopped, out, watch, ends, close, up>>

-----------------------------------------------------------------------------
(* SshEndpoint.                                                            *)

\* ReadMessage fails when the browser leaves and when the socket is closed
Gone ==
    /\ main = "reading" /\ (~peer \/ socket = "closed")
    /\ main' = "leaving"
    /\ UNCHANGED <<pump, out, watch, ends, closer, step, up>>

\* input, or a ping once the connection is gone
Broken ==
    /\ main = "reading" /\ peer /\ socket = "open" /\ asset # "open"
    /\ main' = "breaking"
    /\ UNCHANGED <<pump, out, watch, ends, closer, step, up>>

\* the answer to a ping, under the handler's mutex; the panic of a request is
\* caught by echo's Recover
Ping ==
    /\ main = "reading" /\ peer /\ socket = "open" /\ asset # "closed"
    /\ writer # "sending"
    /\ main' \in IF Telling THEN {"stopping", "ponging"} ELSE {"ponging"}
    /\ UNCHANGED <<pump, out, watch, ends, closer, step, up>>

Pong ==
    /\ main = "ponging"
    /\ main' = "reading"
    /\ UNCHANGED <<pump, out, watch, ends, closer, step, up>>

\* Mutant: the ticker is stopped, the context is not cancelled.
StopTicker ==
    /\ main = "stopping"
    /\ main' = "done"
    /\ socket' = "closed"
    /\ UNCHANGED <<pump, out, watch, asset, file, peer, entry, closer, step, up>>

\* the deferred termHandler.Stop, and ws.Close
Stop ==
    /\ main = "stopping"
    /\ main' = "done"
    /\ stopped' = TRUE
    /\ socket' = "closed"
    /\ UNCHANGED <<printed, taken, reader, writer, buf, due, out, watch, asset,
                   file, peer, entry, closer, step, up>>

-----------------------------------------------------------------------------
(* CloseSessionById, under its mutex.                                      *)

\* what SshEndpoint does when its close has returned, or has panicked
Returned == IF main = "breaking" THEN "reading" ELSE "stopping"

Busy == writer = "sending" \/ main = "ponging"

\* Nothing is left to do for a session that is not registered.  A message that
\* begins while another is written may panic: the request ends there.
CloseBegins(who) ==
    /\ closer = "none"
    /\ who = "main" => main \in {"breaking", "leaving"}
    /\ who = "other" => entry
    /\ \/ /\ entry
          /\ closer' = who /\ step' = "tell"
          /\ UNCHANGED main
       \/ /\ who = "main" /\ (~entry \/ Busy)
          /\ main' = IF entry THEN "stopping" ELSE Returned
          /\ UNCHANGED <<closer, step>>
    /\ UNCHANGED <<pump, out, watch, ends, up>>

Does(this, next) == closer # "none" /\ step = this /\ step' = next

\* the messages to the browser and to the observers have been written
Told ==
    /\ Does("tell", "asset")
    /\ UNCHANGED <<pump, out, watch, ends, main, closer, up>>

\* NextTerminal.Close: the SSH session and client, and then the recording
CloseAsset ==
    /\ Does("asset", "file")
    /\ asset' = "closed"
    /\ UNCHANGED <<pump, out, watch, file, socket, peer, entry, main, closer, up>>

CloseFile ==
    /\ Does("file", "socket")
    /\ file' = IF file = "open" THEN "closed" ELSE file
    /\ UNCHANGED <<pump, out, watch, asset, socket, peer, entry, main, closer, up>>

\* the websocket, and those of the observers: Observer.Clear
CloseSocket ==
    /\ Does("socket", "forget")
    /\ socket' = "closed"
    /\ watching' = [w \in Watchers |->
                      IF watching[w] = "on" THEN "off" ELSE watching[w]]
    /\ UNCHANGED <<pump, out, asset, file, peer, entry, main, closer, up>>

Forget ==
    /\ Does("forget", "tell")
    /\ entry' = FALSE
    /\ closer' = "none"
    /\ main' = IF closer = "main" THEN Returned ELSE main
    /\ UNCHANGED <<pump, out, watch, asset, file, socket, peer, up>>

-----------------------------------------------------------------------------
Reader == Check \/ ReadRune \/ ReadFails

Writer ==
    \/ HandOver \/ Tick \/ WriterStops
    \/ SendEnds \/ Record \/ Look \/ (\E w \in Watchers : CopyTo(w)) \/ Reset

CloseOn == Told \/ CloseAsset \/ CloseFile \/ CloseSocket \/ Forget

Next ==
    /\ up
    /\ \/ Prints \/ Exit \/ Leave
       \/ \E w \in Watchers : Join(w) \/ Unwatch(w)
       \/ Reader \/ Writer \/ TickerFires \/ SendBegins
       \/ Gone \/ Broken \/ Ping \/ Pong \/ Stop
       \/ CloseBegins("main") \/ CloseBegins("other")
       \/ CloseOn

Spec == Init /\ [][Next]_vars

\* The scheduler runs every goroutine, the ticker ticks, a select chooses among
\* the ready cases at random, so that none is passed over for ever, who waits for
\* a mutex gets it, also when others take it again and again, and a write to a
\* websocket returns.  The asset may stop printing, the browser and the observers
\* come and go as they like, and nobody else has to close the session.
Fairness ==
    /\ WF_vars(up /\ Reader) /\ WF_vars(up /\ Writer)
    /\ WF_vars(up /\ TickerFires)
    /\ SF_vars(up /\ HandOver) /\ SF_vars(up /\ Tick) /\ SF_vars(up /\ WriterStops)
    /\ SF_vars(up /\ SendBegins)
    /\ WF_vars(up /\ Gone) /\ WF_vars(up /\ Pong) /\ WF_vars(up /\ Stop)
    /\ SF_vars(up /\ CloseBegins("main"))
    /\ WF_vars(up /\ CloseOn)

FairSpec == Spec /\ Fairness

-----------------------------------------------------------------------------
(* Properties.                                                             *)

InOrder(s) == \A k \in DOMAIN s : s[k] = k

\* The recording is what the browser was sent, which is what the asset printed,
\* in order, once and without a gap: it is behind by the flush under way only,
\* until the file is closed.
RecordingIsFaithful ==
    /\ InOrder(sent) /\ InOrder(record)
    /\ Len(record) <= Len(sent) /\ Len(sent) <= printed
    /\ file = "open" /\ writer # "recording" => record = sent

\* An observer sees one run of what was printed, without a gap, from the flush
\* after it joined, and never more than the browser was sent.
WatchersSeeARun ==
    \A w \in Watchers : \A k \in DOMAIN shown[w] :
        shown[w][k] = shown[w][1] + k - 1 /\ shown[w][k] <= Len(sent)

\* has anything ended the terminal, or begun to?
Ended == ~up \/ ~peer \/ ~entry \/ main \in {"stopping", "done"}

\* What the asset prints reaches the browser, unless the terminal ends: the
\* bound ends the printing, and then the browser has to be sent all of it.
PrintedIsSent == []<>(Len(sent) = printed \/ Ended)

\* Once the socket is closed, by whomever, the writer's goroutine ends.
WriterEnds == socket = "closed" ~> writer = "done" \/ ~up

-----------------------------------------------------------------------------
(* The inductive invariant.                                                *)

\* the flush has been written to the browser
Flushed == writer \in {"recording", "looking", "copying"}

\* the runes before those in the buffer
Base == IF Flushed THEN Len(sent) - Len(buf) ELSE Len(sent)

\* Every rune the asset printed is sent, in the buffer, in the reader's hand or
\* still to be read, and in that order.
Streams ==
    /\ InOrder(sent)
    /\ Flushed => Len(buf) <= Len(sent)
    /\ \A k \in DOMAIN buf : buf[k] = Base + k
    /\ taken = Base + Len(buf) + (IF reader = "holding" THEN 1 ELSE 0)
    /\ taken <= printed

\* The recording was complete when its file was closed.
Recorded ==
    /\ InOrder(record)
    /\ Len(record) <= IF writer = "recording" THEN Base ELSE Len(sent)
    /\ file = "open" =>
         Len(record) = IF writer = "recording" THEN Base ELSE Len(sent)

\* one run of runes, of which b is the last
RunTo(seq, b) == \A k \in DOMAIN seq : seq[k] + Len(seq) = b + k

\* Who watches has seen all up to the last flush, or nothing yet.
Watched ==
    \A w \in Watchers :
        /\ \E b \in 0..Len(sent) : RunTo(shown[w], b)
        /\ watching[w] = "on" =>
             RunTo(shown[w], IF writer \in {"recording", "looking"} \/ w \in todo
                             THEN Base ELSE Len(sent))
        /\ watching[w] = "no" => shown[w] = <<>>
        /\ w \in todo => writer = "copying"

\* Once the observers are cleared no flush is sent, and who joins late has not
\* seen the one under way.
Cleared == ~entry \/ (closer # "none" /\ step = "forget")

Late ==
    Cleared =>
      /\ socket = "closed"
      /\ \A w \in Watchers :
           watching[w] = "on" /\ shown[w] # <<>> =>
              writer \notin {"recording", "looking"}

TerminalInv == TypeOK /\ Streams /\ Recorded /\ Watched /\ Late
=============================================================================
