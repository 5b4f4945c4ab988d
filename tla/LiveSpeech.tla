------------------------------- MODULE LiveSpeech -------------------------------
(***************************************************************************)
(* The continuous microphone input (robot_agent/voice/live_input.py) with  *)
(* the two threads it owns, the business loop that takes its sentences     *)
(* (ros/voice_node.py, voice/session.py), the connection and the recorder  *)
(* process it holds (voice/_speech_task.py, robot_audio/pcm_input.py), and *)
(* the main thread that stops them all.                                    *)
(*                                                                         *)
(* A frame is what it was recorded in: the number of the listening window, *)
(* or Busy while a turn is processed and the robot itself may speak.  The  *)
(* recognizer is free to end a sentence that begins at any frame it got.   *)
(***************************************************************************)
EXTENDS Naturals, Sequences

CONSTANTS
  Attempts,    (* asr_attempts                                              *)
  MaxFrames,   (* bound: frames sent on one connection                      *)
  MaxBacklog,  (* bound: frames in the recorder's pipe                      *)
  MaxWindow    (* bound: listening windows begun                            *)

ASSUME AttemptsAssumption == Attempts \in Nat \ {0}
ASSUME BoundsAssumption == MaxFrames \in Nat /\ MaxBacklog \in Nat \ {0} /\ MaxWindow \in Nat

Window == 0..MaxWindow
Busy == MaxWindow + 1
Silence == MaxWindow + 2
None == MaxWindow + 3

VARIABLES
  caller,      \* the business loop: listen, starting, got, busy, closing, ended
  stop,        \* _stop of the node and _closed of the voice session
  paused,      \* _paused
  resume,      \* _resume_requested
  text,        \* _text: what the sentence in the slot begins with
  window,      \* number of times listening has been resumed
  capture,     \* the capture thread: off, read, have, returned, raised
  frame,       \* the frame it holds
  backlog,     \* frames in the recorder's pipe
  recorder,    \* the recorder process: none, running, ended, reaped
  receive,     \* the receive thread: off, open, handshake, loop, event, broken, cancel, done
  stream,      \* _stream is set
  sent,        \* the frames sent on the present connection
  accept_after,\* _accept_after_ms, in frames
  send_error,  \* _send_error is set
  socket,      \* the connection is up
  answers,     \* begins of the sentences on their way from the recognizer
  event,       \* the one the receive thread holds
  failures,    \* failures
  closed,      \* _closed
  refused,     \* the speech connection and the recorder have been closed for good
  cancels,     \* how far each thread is in _cancel_io
  main         \* the main thread: run, cancel, joining, returned

session == <<caller, stop>>
slot == <<paused, resume, text, window>>
capturing == <<capture, frame>>
receiving == <<receive, event, failures>>
connection == <<stream, sent, accept_after, send_error, socket, answers>>
closing == <<closed, refused, cancels, main>>
vars == <<session, slot, capturing, backlog, recorder, receiving, connection, closing>>

Canceller == {"receiver", "loop", "main"}
Resource == {"connection", "recorder"}

Init ==
  /\ caller = "listen" /\ stop = FALSE
  /\ paused = FALSE /\ resume = FALSE /\ text = None /\ window = 0
  /\ capture = "off" /\ frame = None /\ backlog = <<>> /\ recorder = "none"
  /\ receive = "off" /\ event = 0 /\ failures = 0
  /\ stream = FALSE /\ sent = <<>> /\ accept_after = 0 /\ send_error = FALSE
  /\ socket = FALSE /\ answers = <<>>
  /\ closed = FALSE /\ refused = {} /\ cancels = [c \in Canceller |-> "idle"] /\ main = "run"

-------------------------------------------------------------------------------
(* The business loop.                                                      *)

\* listen() for the first time: the condition is held from here to Start.
BeginListen ==
  /\ caller = "listen" /\ ~stop /\ receive = "off" /\ ~closed
  /\ caller' = "starting"
  /\ UNCHANGED <<stop, slot, capturing, backlog, recorder, receiving, connection, closing>>

\* PcmMicrophone.start() refuses once it has been closed.
MayStart == "recorder" \notin refused

Start ==
  /\ caller = "starting"
  /\ IF MayStart
     THEN recorder' = "running" /\ capture' = "read" /\ receive' = "open" /\ caller' = "listen"
     ELSE caller' = "closing" /\ UNCHANGED <<recorder, capture, receive>>
  /\ UNCHANGED <<stop, slot, frame, backlog, event, failures, connection, closing>>

TakeText ==
  /\ caller = "listen" /\ ~stop /\ ~closed /\ text # None
  /\ text' = None /\ caller' = "got"
  /\ UNCHANGED <<stop, paused, resume, window, capturing, backlog, recorder, receiving, connection, closing>>

\* listen() raises the receive thread's error, or the loop is told to stop.
LeaveLoop ==
  /\ caller = "listen"
  /\ stop \/ (closed /\ receive \in {"off", "done"})
  /\ caller' = "closing"
  /\ UNCHANGED <<stop, slot, capturing, backlog, recorder, receiving, connection, closing>>

\* submit_transcript(): the input is paused for the turn, unless the session
\* is closed.
BeginTurn ==
  /\ caller = "got"
  /\ IF stop
     THEN caller' = "listen" /\ UNCHANGED <<paused, resume>>
     ELSE caller' = "busy" /\ paused' = TRUE /\ resume' = FALSE
  /\ UNCHANGED <<stop, text, window, capturing, backlog, recorder, receiving, connection, closing>>

\* Faulty variant (mutation only): a turn that was ignored does not resume.
ResumesAfterReply == {resume, ~stop /\ ~closed}

\* resume(), from _run_turn's finally clause.
Resumes == {resume \/ (~stop /\ ~closed)}

EndTurn ==
  /\ caller = "busy"
  /\ resume' \in Resumes
  /\ caller' = "listen"
  /\ UNCHANGED <<stop, paused, text, window, capturing, backlog, recorder, receiving, connection, closing>>

-------------------------------------------------------------------------------
(* The capture thread and the recorder.                                    *)

\* The recorder writes one more frame.
Record ==
  /\ recorder = "running" /\ Len(backlog) < MaxBacklog
  /\ backlog' = Append(backlog, IF caller = "busy" THEN Busy ELSE window)
  /\ UNCHANGED <<session, slot, capturing, recorder, receiving, connection, closing>>

RecorderEnds ==
  /\ recorder = "running" /\ recorder' = "ended"
  /\ UNCHANGED <<session, slot, capturing, backlog, receiving, connection, closing>>

ReadFrame ==
  /\ capture = "read" /\ ~closed /\ backlog # <<>>
  /\ frame' = Head(backlog) /\ backlog' = Tail(backlog)
  /\ capture' = "have"
  /\ UNCHANGED <<session, slot, recorder, receiving, connection, closing>>

\* End of the pipe, or speech_timeout without a frame.
ReadFails ==
  /\ capture = "read" /\ ~closed /\ backlog = <<>>
  /\ capture' = "raised"
  /\ UNCHANGED <<session, slot, frame, backlog, recorder, receiving, connection, closing>>

\* Faulty variant (mutation only): a read that waits for a frame is not ended.
ReturnsWithFrame ==
  /\ capture = "have" /\ closed
  /\ capture' = "returned" /\ frame' = None
  /\ UNCHANGED <<session, slot, backlog, recorder, receiving, connection, closing>>

CaptureReturns ==
  /\ capture \in {"read", "have"} /\ closed
  /\ capture' = "returned" /\ frame' = None
  /\ UNCHANGED <<session, slot, backlog, recorder, receiving, connection, closing>>

\* The frame in hand is given up under the condition, which Start holds.
Holds == capture = "have" /\ ~closed /\ caller # "starting"
GiveUpFrame == frame' = None /\ capture' = "read"

\* Faulty variant (mutation only): the pipe is not cleared.
KeepBacklog == backlog

\* discard()
Discarded == <<>>

\* A requested resume drops this frame and the pipe's, and notes where in the
\* audio it falls.
Resume ==
  /\ Holds /\ resume
  /\ window' = window + 1
  /\ backlog' = Discarded
  /\ accept_after' = Len(sent)
  /\ resume' = FALSE /\ paused' = FALSE
  /\ GiveUpFrame
  /\ UNCHANGED <<session, text, recorder, receiving, stream, sent, send_error, socket, answers, closing>>

\* discard() finds the end of the pipe.
ResumeFails ==
  /\ Holds /\ resume /\ recorder = "ended"
  /\ capture' = "raised" /\ frame' = None
  /\ UNCHANGED <<session, slot, backlog, recorder, receiving, connection, closing>>

DropFrame ==
  /\ Holds /\ ~resume /\ ~stream
  /\ GiveUpFrame
  /\ UNCHANGED <<session, slot, backlog, recorder, receiving, connection, closing>>

\* Frames beyond the bound leave no trace.
SendFrame ==
  /\ Holds /\ ~resume /\ stream /\ socket
  /\ sent' = IF Len(sent) < MaxFrames THEN Append(sent, IF paused THEN Silence ELSE frame) ELSE sent
  /\ GiveUpFrame
  /\ UNCHANGED <<session, slot, backlog, recorder, receiving, stream, accept_after, send_error, socket,
                 answers, closing>>

SendFails ==
  /\ Holds /\ ~resume /\ stream
  /\ send_error' = TRUE /\ stream' = FALSE
  /\ GiveUpFrame
  /\ UNCHANGED <<session, slot, backlog, recorder, receiving, sent, accept_after, socket, answers, closing>>

-------------------------------------------------------------------------------
(* The receive thread and the recognizer.                                  *)

\* SpeechConnection.open(): a connection made while closing is given back.
Connect ==
  /\ receive = "open"
  /\ IF "connection" \in refused
     THEN receive' = "broken" /\ UNCHANGED socket
     ELSE receive' = "handshake" /\ socket' = TRUE
  /\ UNCHANGED <<session, slot, capturing, backlog, recorder, event, failures, stream, sent,
                 accept_after, send_error, answers, closing>>

\* task-started: the frames are counted from zero again.
Handshake ==
  /\ receive = "handshake" /\ socket /\ caller # "starting"
  /\ receive' = "loop"
  /\ stream' = TRUE /\ sent' = <<>> /\ accept_after' = 0 /\ send_error' = FALSE /\ answers' = <<>>
  /\ UNCHANGED <<session, slot, capturing, backlog, recorder, event, failures, socket, closing>>

\* An OSError: a deadline of the handshake, a connection that is lost, refused
\* or ended by the service, an invalid sentence, a failed read or send.
Breaks ==
  /\ receive \in {"open", "handshake", "loop", "event"}
  /\ receive' = "broken"
  /\ UNCHANGED <<session, slot, capturing, backlog, recorder, event, failures, connection, closing>>

\* One round of the polling loop that brings an event.
Receive ==
  /\ receive = "loop" /\ ~closed /\ socket
  /\ capture # "raised" /\ ~send_error
  /\ answers # <<>>
  /\ event' = Head(answers) /\ answers' = Tail(answers)
  /\ receive' = "event"
  /\ UNCHANGED <<session, slot, capturing, backlog, recorder, failures, stream, sent,
                 accept_after, send_error, socket, closing>>

\* Faulty variant (mutation only): late results are not told from new ones.
AcceptsWhenListening(b) == ~paused

\* _accept(): nothing while paused, nothing from before the last resume.
Accepts(b) == ~paused /\ b >= accept_after

Accept ==
  /\ receive = "event" /\ caller # "starting"
  /\ IF Accepts(event)
     THEN paused' = TRUE /\ text' = sent[event + 1] /\ failures' = 0
     ELSE UNCHANGED <<paused, text, failures>>
  /\ receive' = "loop" /\ event' = 0
  /\ UNCHANGED <<session, resume, window, capturing, backlog, recorder, connection, closing>>

\* Faulty variant (mutation only): one more attempt than configured.
GivesUpLate == closed \/ capture = "raised" \/ failures >= Attempts

GivesUp == closed \/ capture = "raised" \/ failures + 1 >= Attempts

Released == stream' = FALSE /\ socket' = FALSE /\ sent' = <<>> /\ answers' = <<>>

\* The except and finally clauses: the connection is released, and either
\* another one is opened or the thread ends.
Recover ==
  /\ receive = "broken" /\ caller # "starting"
  /\ Released
  /\ IF GivesUp
     THEN receive' = "cancel" /\ UNCHANGED failures
     ELSE receive' = "open" /\ failures' = failures + 1
  /\ UNCHANGED <<session, slot, capturing, backlog, recorder, event, accept_after, send_error, closing>>

\* The loops end because of a close().
StopReceiving ==
  /\ receive \in {"open", "loop"} /\ closed /\ caller # "starting"
  /\ Released
  /\ receive' = "cancel"
  /\ UNCHANGED <<session, slot, capturing, backlog, recorder, event, failures, accept_after, send_error,
                 closing>>

\* The recognizer ends a sentence that began at any frame it has; the bound
\* leaves the last window without one.
Recognize ==
  /\ socket /\ answers = <<>> /\ window < MaxWindow
  /\ \E b \in 0..Len(sent) - 1 : answers' = <<b>>
  /\ UNCHANGED <<session, slot, capturing, backlog, recorder, receiving, stream, sent, accept_after,
                 send_error, socket, closing>>

-------------------------------------------------------------------------------
(* _cancel_io() and close(), by the receive thread at its end, by the      *)
(* business loop at its end and by the main thread's stop().               *)

Cancelling(c) ==
  CASE c = "receiver" -> receive = "cancel"
    [] c = "loop" -> caller = "closing"
    [] c = "main" -> main = "cancel"

Reaches(c, from, to) == cancels[c] = from /\ cancels' = [cancels EXCEPT ![c] = to]

\* The flag and the connection go first, then the recorder.
CancelIO(c) ==
  /\ Cancelling(c)
  /\ \/ /\ Reaches(c, "idle", "connection")
        /\ closed' = TRUE /\ socket' = FALSE
        /\ refused' = refused \cup {"connection"}
        /\ UNCHANGED recorder
     \/ /\ Reaches(c, "connection", "recorder")
        /\ refused' = refused \cup {"recorder"}
        /\ recorder' = IF recorder = "none" THEN "none" ELSE "reaped"
        /\ UNCHANGED <<closed, socket>>
  /\ UNCHANGED <<session, slot, capturing, backlog, receiving, stream, sent, accept_after, send_error,
                 answers, main>>

Cancelled(c) == cancels[c] = "recorder" /\ caller # "starting"

ReceiverEnds ==
  /\ receive = "cancel" /\ Cancelled("receiver")
  /\ receive' = "done"
  /\ UNCHANGED <<session, slot, capturing, backlog, recorder, event, failures, connection, closing>>

\* close() waits for both threads.
Joined == capture \in {"off", "returned", "raised"} /\ receive \in {"off", "done"}

LoopEnds ==
  /\ caller = "closing" /\ Cancelled("loop") /\ Joined
  /\ caller' = "ended"
  /\ UNCHANGED <<stop, slot, capturing, backlog, recorder, receiving, connection, closing>>

Stop ==
  /\ main = "run"
  /\ stop' = TRUE /\ main' = "cancel"
  /\ UNCHANGED <<caller, slot, capturing, backlog, recorder, receiving, connection, closed, refused, cancels>>

StopReturns ==
  /\ main = "cancel" /\ Cancelled("main") /\ Joined /\ caller = "ended"
  /\ main' = "returned"
  /\ UNCHANGED <<session, slot, capturing, backlog, recorder, receiving, connection, closed, refused, cancels>>

-------------------------------------------------------------------------------

CallerStep ==
  \/ BeginListen \/ Start \/ TakeText \/ LeaveLoop \/ BeginTurn \/ EndTurn
  \/ CancelIO("loop") \/ LoopEnds

CaptureStep ==
  \/ ReadFrame \/ ReadFails \/ CaptureReturns
  \/ Resume \/ ResumeFails \/ DropFrame \/ SendFrame \/ SendFails

ReceiveStep ==
  \/ Connect \/ Handshake \/ Receive \/ Accept \/ Recover \/ StopReceiving
  \/ CancelIO("receiver") \/ ReceiverEnds

MainStep == CancelIO("main") \/ StopReturns

Next ==
  \/ CallerStep \/ CaptureStep \/ ReceiveStep \/ Breaks \/ MainStep
  \/ Record \/ RecorderEnds \/ Recognize \/ Stop

Spec == Init /\ [][Next]_vars

\* What the polling loop finds out by itself, without the service's help.
Noticed == receive # "loop" \/ capture = "raised" \/ send_error \/ ~socket

\* The four threads run: a turn has its deadlines, reads and the handshake time
\* out.  Nothing is assumed of the service, the recorder or the operator.
FairSpec ==
  /\ Spec
  /\ WF_vars(CallerStep) /\ WF_vars(CaptureStep) /\ WF_vars(MainStep)
  /\ WF_vars(ReceiveStep \/ (Breaks /\ Noticed))

-------------------------------------------------------------------------------

TypeOK ==
  /\ caller \in {"listen", "starting", "got", "busy", "closing", "ended"}
  /\ stop \in BOOLEAN /\ paused \in BOOLEAN /\ resume \in BOOLEAN
  /\ window \in Window /\ text \in Window \cup {None}
  /\ capture \in {"off", "read", "have", "returned", "raised"}
  /\ frame \in (IF capture = "have" THEN Window \cup {Busy} ELSE {None})
  /\ backlog \in Seq(Window \cup {Busy}) /\ Len(backlog) <= MaxBacklog
  /\ recorder \in {"none", "running", "ended", "reaped"}
  /\ receive \in {"off", "open", "handshake", "loop", "event", "broken", "cancel", "done"}
  /\ stream \in BOOLEAN /\ send_error \in BOOLEAN /\ socket \in BOOLEAN
  /\ sent \in Seq(Window \cup {Busy, Silence}) /\ Len(sent) <= MaxFrames
  /\ accept_after \in 0..MaxFrames /\ event \in 0..MaxFrames
  /\ answers \in Seq(0..MaxFrames) /\ Len(answers) <= 1
  /\ failures \in 0..Attempts - 1
  /\ closed \in BOOLEAN /\ refused \subseteq Resource
  /\ cancels \in [Canceller -> {"idle", "connection", "recorder"}]
  /\ main \in {"run", "cancel", "returned"}

\* What the microphone heard while a turn was processed, the robot's own voice
\* included, is never sent: not from the pipe, not in the frame a thread held.
PausedAudioStaysOut == \A i \in DOMAIN sent : sent[i] # Busy

\* A sentence that is handed over begins in the present listening window, with
\* whatever delay, and over whatever connection, the recognizer reports it.
DeliversCurrentWindow == text # None => text = window

\* The robot does not stay deaf: a pause ends, and a recorder that fails shuts
\* the input down, which the business loop reports.
NeverDeaf == paused \/ capture = "raised" ~> closed \/ ~(paused \/ capture = "raised")

\* stop() returns, and neither the recorder nor the connection outlives it,
\* however the threads were starting, connecting or failing at the time.
StopReleases == main = "cancel" ~> [](main = "returned" /\ recorder # "running" /\ ~socket)
===============================================================================
