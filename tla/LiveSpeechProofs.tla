----------------------------- MODULE LiveSpeechProofs -----------------------------
(***************************************************************************)
(* Proofs about LiveSpeech for every number of connection attempts, frames *)
(* and listening windows.                                                  *)
(*                                                                         *)
(* While the input is not paused, everything that is on its way to the     *)
(* recognizer was recorded in the present window: the frame in hand, the   *)
(* pipe, and what was sent since the last resume.  This holds because a    *)
(* window begins only where the pipe is cleared, and a turn can record the *)
(* robot's own voice only while the input is paused.  A sentence that is   *)
(* accepted therefore begins in the present window.                        *)
(***************************************************************************)
EXTENDS LiveSpeech, TLAPS

\* A resume is requested, and a sentence waits in the slot, only during a
\* pause; a turn is one.
PauseHolds ==
  /\ resume => paused /\ text = None /\ caller \notin {"got", "busy"}
  /\ text # None => paused /\ caller \notin {"got", "busy"}
  /\ caller \in {"got", "busy"} => paused

\* Until listen() starts them, there are no threads.
Unstarted ==
  /\ caller = "starting" => receive = "off"
  /\ receive = "off" => capture = "off"

\* What is on its way to the recognizer, or there since the last resume, was
\* recorded in the present window.
HeardInWindow ==
  ~paused =>
    /\ frame \in {window, None}
    /\ \A i \in DOMAIN backlog : backlog[i] = window
    /\ \A i \in DOMAIN sent : i > accept_after => sent[i] = window

\* The recognizer's answers begin at frames it has.
Refers ==
  /\ receive = "event" => event < Len(sent)
  /\ \A i \in DOMAIN answers : answers[i] < Len(sent)

\* A window that heard a sentence is not the last one the bound allows.
WindowLeft ==
  /\ paused => window < MaxWindow
  /\ receive = "event" /\ event >= accept_after => window < MaxWindow
  /\ \A i \in DOMAIN answers : answers[i] >= accept_after => window < MaxWindow

\* What _cancel_io() has shut stays shut, whoever was opening it.
Shut ==
  /\ "recorder" \in refused => recorder # "running"
  /\ "connection" \in refused => ~socket
  /\ \A c \in Canceller : cancels[c] = "connection" => "connection" \in refused
  /\ \A c \in Canceller : cancels[c] = "recorder" => refused = Resource

\* When stop() has returned, the threads are over for good.
Over == main = "returned" => Joined /\ caller = "ended" /\ cancels["main"] = "recorder"

\* The type invariant apart from the flags.
Ranges ==
  /\ caller \in {"listen", "starting", "got", "busy", "closing", "ended"}
  /\ window \in Window /\ text \in Window \cup {None}
  /\ capture \in {"off", "read", "have", "returned", "raised"}
  /\ frame \in (IF capture = "have" THEN Window \cup {Busy} ELSE {None})
  /\ backlog \in Seq(Window \cup {Busy}) /\ Len(backlog) <= MaxBacklog
  /\ recorder \in {"none", "running", "ended", "reaped"}
  /\ receive \in {"off", "open", "handshake", "loop", "event", "broken", "cancel", "done"}
  /\ sent \in Seq(Window \cup {Busy, Silence}) /\ Len(sent) <= MaxFrames
  /\ accept_after \in 0..MaxFrames /\ event \in 0..MaxFrames
  /\ answers \in Seq(0..MaxFrames) /\ Len(answers) <= 1
  /\ failures \in 0..Attempts - 1
  /\ refused \subseteq Resource
  /\ cancels \in [Canceller -> {"idle", "connection", "recorder"}]
  /\ main \in {"run", "cancel", "returned"}

Flags ==
  /\ stop \in BOOLEAN /\ paused \in BOOLEAN /\ resume \in BOOLEAN
  /\ stream \in BOOLEAN /\ send_error \in BOOLEAN /\ socket \in BOOLEAN
  /\ closed \in BOOLEAN

SafeInv ==
  /\ Ranges /\ PauseHolds /\ Unstarted /\ HeardInWindow /\ Refers /\ WindowLeft /\ Shut /\ Over
  /\ PausedAudioStaysOut /\ DeliversCurrentWindow

-------------------------------------------------------------------------------

\* The marks are told apart.
LEMMA Marks ==
  /\ MaxWindow \in Nat /\ MaxFrames \in Nat /\ MaxBacklog \in Nat \ {0}
  /\ Busy \notin Window /\ Silence \notin Window /\ None \notin Window
  /\ Busy # Silence /\ Busy # None /\ Silence # None
  /\ Window \subseteq Nat /\ Busy \in Nat /\ Silence \in Nat /\ None \in Nat
BY BoundsAssumption DEF Window, Busy, Silence, None

\* A frame joins a list of frames.
LEMMA Joins ==
  ASSUME NEW S, NEW s \in Seq(S), NEW e \in S, NEW r, r = Append(s, e)
  PROVE  /\ r \in Seq(S) /\ Len(r) = Len(s) + 1 /\ DOMAIN r = 1..Len(s) + 1
         /\ DOMAIN s = 1..Len(s) /\ Len(s) \in Nat
         /\ \A i \in DOMAIN s : r[i] = s[i]
         /\ r[Len(s) + 1] = e
OBVIOUS

\* The first frame leaves it.
LEMMA Leaves ==
  ASSUME NEW S, NEW s \in Seq(S), s # <<>>, NEW r, r = Tail(s)
  PROVE  /\ r \in Seq(S) /\ Len(r) = Len(s) - 1 /\ DOMAIN r = 1..Len(s) - 1
         /\ Head(s) = s[1] /\ 1 \in DOMAIN s /\ Head(s) \in S
         /\ \A i \in DOMAIN r : r[i] = s[i + 1] /\ i + 1 \in DOMAIN s
OBVIOUS

\* Nothing in an empty list.
LEMMA Empty == Len(<<>>) = 0 /\ DOMAIN <<>> = {} /\ \A S : <<>> \in Seq(S)
OBVIOUS

\* Init establishes the invariant.
LEMMA SafeStart == Init => SafeInv
BY Marks, Empty, AttemptsAssumption
   DEF Init, SafeInv, Ranges, PauseHolds, Unstarted, HeardInWindow, Refers, WindowLeft, Shut, Over,
       PausedAudioStaysOut, DeliversCurrentWindow, Canceller, Resource, Window

\* The steps that bring nothing new into the pipe, the frames or the answers.
LEMMA PlainSteps ==
  ASSUME SafeInv,
         \/ BeginListen \/ Start \/ TakeText \/ LeaveLoop \/ BeginTurn \/ EndTurn
         \/ RecorderEnds \/ ReadFails \/ CaptureReturns \/ ResumeFails \/ DropFrame
         \/ SendFails \/ Connect \/ Handshake \/ Breaks \/ Recover \/ StopReceiving
         \/ ReceiverEnds \/ LoopEnds \/ Stop \/ StopReturns \/ UNCHANGED vars
  PROVE  SafeInv'
<1> USE Marks, Empty, AttemptsAssumption
    DEF SafeInv, Ranges, PauseHolds, Unstarted, HeardInWindow, Refers, WindowLeft, Shut, Over,
        PausedAudioStaysOut, DeliversCurrentWindow, Canceller, Resource, Joined,
        session, slot, capturing, receiving, connection, closing
<1>1. CASE BeginListen
  BY <1>1 DEF BeginListen
<1>2. CASE Start
  BY <1>2 DEF Start, MayStart
<1>3. CASE TakeText
  BY <1>3 DEF TakeText
<1>4. CASE LeaveLoop
  BY <1>4 DEF LeaveLoop
<1>5. CASE BeginTurn
  <2>1. CASE stop
    BY <1>5, <2>1 DEF BeginTurn
  <2>2. CASE ~stop
    <3>1. caller = "got" /\ caller' = "busy" /\ paused' = TRUE /\ resume' = FALSE
      BY <1>5, <2>2 DEF BeginTurn
    <3>2. UNCHANGED <<text, window, frame, backlog, capture, recorder, receive, event, failures, stream,
                     sent, accept_after, socket, answers, refused, cancels, main>>
      BY <1>5 DEF BeginTurn
    <3> QED
      BY <3>1, <3>2
  <2> QED
    BY <2>1, <2>2
<1>6. CASE EndTurn
  <2>1. resume' <=> resume \/ (~stop /\ ~closed)
    BY <1>6 DEF EndTurn, Resumes
  <2> QED
    BY <1>6, <2>1 DEF EndTurn
<1>7. CASE RecorderEnds
  BY <1>7 DEF RecorderEnds
<1>8. CASE ReadFails
  BY <1>8 DEF ReadFails
<1>9. CASE CaptureReturns
  BY <1>9 DEF CaptureReturns
<1>10. CASE ResumeFails
  BY <1>10 DEF ResumeFails, Holds
<1>11. CASE DropFrame
  BY <1>11 DEF DropFrame, Holds, GiveUpFrame
<1>12. CASE SendFails
  BY <1>12 DEF SendFails, Holds, GiveUpFrame
<1>13. CASE Connect
  BY <1>13 DEF Connect
<1>14. CASE Handshake
  BY <1>14 DEF Handshake
<1>15. CASE Breaks
  BY <1>15 DEF Breaks
<1>16. CASE Recover
  BY <1>16 DEF Recover, Released, GivesUp
<1>17. CASE StopReceiving
  BY <1>17 DEF StopReceiving, Released
<1>18. CASE ReceiverEnds
  BY <1>18 DEF ReceiverEnds, Cancelled
<1>19. CASE LoopEnds
  BY <1>19 DEF LoopEnds, Cancelled
<1>20. CASE Stop
  BY <1>20 DEF Stop
<1>21. CASE StopReturns
  BY <1>21 DEF StopReturns, Cancelled
<1>22. CASE UNCHANGED vars
  BY <1>22 DEF vars
<1> QED
  BY <1>1, <1>2, <1>3, <1>4, <1>5, <1>6, <1>7, <1>8, <1>9, <1>10, <1>11, <1>12, <1>13,
     <1>14, <1>15, <1>16, <1>17, <1>18, <1>19, <1>20, <1>21, <1>22

\* The recorder writes the window's number, unless a turn, and so a pause, lasts.
LEMMA RecordKeeps ==
  ASSUME SafeInv, Record
  PROVE  SafeInv'
<1> USE Marks
    DEF SafeInv, Ranges, PauseHolds, Unstarted, HeardInWindow, Refers, WindowLeft, Shut, Over,
        PausedAudioStaysOut, DeliversCurrentWindow, Joined,
        session, slot, capturing, receiving, connection, closing
<1>1. PICK f \in Window \cup {Busy} :
        backlog' = Append(backlog, f) /\ f = IF caller = "busy" THEN Busy ELSE window
  BY DEF Record
<1>2. /\ backlog' \in Seq(Window \cup {Busy}) /\ Len(backlog') <= MaxBacklog
      /\ ~paused => \A i \in DOMAIN backlog' : backlog'[i] = window
  BY <1>1, Joins DEF Record
<1>3. UNCHANGED <<session, slot, capturing, recorder, receiving, connection, closing>>
  BY DEF Record
<1> QED
  BY <1>2, <1>3

\* The capture thread takes the oldest frame of the pipe.
LEMMA ReadKeeps ==
  ASSUME SafeInv, ReadFrame
  PROVE  SafeInv'
<1> USE Marks
    DEF SafeInv, Ranges, PauseHolds, Unstarted, HeardInWindow, Refers, WindowLeft, Shut, Over,
        PausedAudioStaysOut, DeliversCurrentWindow, Joined,
        session, slot, capturing, receiving, connection, closing
<1>1. /\ frame' = Head(backlog) /\ backlog' = Tail(backlog) /\ capture' = "have" /\ backlog # <<>>
      /\ capture = "read"
      /\ UNCHANGED <<session, slot, recorder, receiving, connection, closing>>
  BY DEF ReadFrame
<1>2. /\ backlog' \in Seq(Window \cup {Busy}) /\ Len(backlog') <= MaxBacklog
      /\ frame' \in Window \cup {Busy}
      /\ ~paused => frame' = window /\ \A i \in DOMAIN backlog' : backlog'[i] = window
  BY <1>1, Leaves
<1> QED
  BY <1>1, <1>2

\* A frame is sent, as silence during a pause.
LEMMA SendKeeps ==
  ASSUME SafeInv, SendFrame
  PROVE  SafeInv'
<1> USE Marks
    DEF SafeInv, Ranges, PauseHolds, Unstarted, HeardInWindow, Refers, WindowLeft, Shut, Over,
        PausedAudioStaysOut, DeliversCurrentWindow, Joined,
        session, slot, capturing, receiving, connection, closing
<1>1. /\ frame' = None /\ capture' = "read" /\ capture = "have"
      /\ UNCHANGED <<session, slot, backlog, recorder, receiving, stream, accept_after, send_error,
                     socket, answers, closing>>
  BY DEF SendFrame, Holds, GiveUpFrame
<1>2. CASE sent' = sent
  BY <1>1, <1>2
<1>3. CASE Len(sent) < MaxFrames /\ sent' = Append(sent, IF paused THEN Silence ELSE frame)
  <2>1. PICK f : f = IF paused THEN Silence ELSE frame
    OBVIOUS
  <2>2. /\ f \in Window \cup {Busy, Silence} /\ f # Busy
        /\ ~paused => f = window
    BY <1>1, <2>1
  <2>a. sent' = Append(sent, f) /\ sent \in Seq(Window \cup {Busy, Silence})
    BY <1>3, <2>1
  <2>b. PICK r : r = Append(sent, f)
    OBVIOUS
  <2>c. PICK s : s = sent
    OBVIOUS
  <2>3. /\ r \in Seq(Window \cup {Busy, Silence}) /\ Len(r) = Len(s) + 1
        /\ DOMAIN r = 1..Len(s) + 1 /\ DOMAIN s = 1..Len(s) /\ Len(s) \in Nat
        /\ \A i \in DOMAIN s : r[i] = s[i]
        /\ r[Len(s) + 1] = f
    BY <2>2, <2>a, <2>b, <2>c, Joins
  <2>d. \A i \in DOMAIN r : i \in DOMAIN s \/ r[i] = f
    BY <2>3
  <2>4. PausedAudioStaysOut'
    <3>1. \A i \in DOMAIN r : r[i] # Busy
      BY <2>2, <2>3, <2>c, <2>d
    <3> QED
      BY <3>1, <2>a, <2>b
  <2>5. ~paused => \A i \in DOMAIN sent' : i > accept_after => sent'[i] = window
    <3>1. ~paused => \A i \in DOMAIN r : i > accept_after => r[i] = window
      BY <2>2, <2>3, <2>c, <2>d
    <3> QED
      BY <3>1, <2>a, <2>b
  <2>6. /\ sent' \in Seq(Window \cup {Busy, Silence}) /\ Len(sent') <= MaxFrames
        /\ Len(sent) \in Nat /\ Len(sent') = Len(sent) + 1
    BY <1>3, <2>3, <2>a, <2>b, <2>c
  <2> QED
    BY <1>1, <2>4, <2>5, <2>6
<1> QED
  BY <1>2, <1>3 DEF SendFrame

\* A window begins with an empty pipe and behind every frame sent before it.
LEMMA ResumeKeeps ==
  ASSUME SafeInv, Resume
  PROVE  SafeInv'
<1> USE Marks
    DEF SafeInv, Ranges, PauseHolds, Unstarted, HeardInWindow, Refers, WindowLeft, Shut, Over,
        PausedAudioStaysOut, DeliversCurrentWindow, Joined,
        session, slot, capturing, receiving, connection, closing
<1>1. /\ window' = window + 1 /\ backlog' = <<>> /\ accept_after' = Len(sent)
      /\ resume' = FALSE /\ paused' = FALSE /\ frame' = None /\ capture' = "read"
      /\ capture = "have" /\ resume
      /\ UNCHANGED <<session, text, recorder, receiving, stream, sent, send_error, socket, answers, closing>>
  BY DEF Resume, Holds, Discarded, GiveUpFrame
<1>2. window' \in Window
  BY <1>1 DEF Window
<1>3. DOMAIN sent = 1..Len(sent) /\ Len(sent) \in Nat
  OBVIOUS
<1>4. text' = None /\ caller' \notin {"got", "busy"}
  BY <1>1
<1>5. HeardInWindow'
  BY <1>1, <1>3, Empty
<1>6. WindowLeft'
  BY <1>1, <1>3
<1>7. Ranges'
  BY <1>1, <1>2, <1>3, Empty
<1> QED
  BY <1>1, <1>4, <1>5, <1>6, <1>7

\* An event comes out of the answers as it went in.
LEMMA ReceiveKeeps ==
  ASSUME SafeInv, Receive
  PROVE  SafeInv'
<1> USE Marks
    DEF SafeInv, Ranges, PauseHolds, Unstarted, HeardInWindow, Refers, WindowLeft, Shut, Over,
        PausedAudioStaysOut, DeliversCurrentWindow, Joined,
        session, slot, capturing, receiving, connection, closing
<1>1. /\ event' = Head(answers) /\ answers' = Tail(answers) /\ answers # <<>>
      /\ receive' = "event" /\ receive = "loop"
      /\ UNCHANGED <<session, slot, capturing, backlog, recorder, failures, stream, sent,
                     accept_after, send_error, socket, closing>>
  BY DEF Receive
<1>2. /\ answers' \in Seq(0..MaxFrames) /\ Len(answers') = Len(answers) - 1
      /\ event' = answers[1] /\ 1 \in DOMAIN answers /\ event' \in 0..MaxFrames
      /\ \A i \in DOMAIN answers' : answers'[i] = answers[i + 1] /\ i + 1 \in DOMAIN answers
  BY <1>1, Leaves
<1> QED
  BY <1>1, <1>2

\* A sentence that is accepted begins in the present window.
LEMMA AcceptKeeps ==
  ASSUME SafeInv, Accept
  PROVE  SafeInv'
<1> USE Marks
    DEF SafeInv, Ranges, PauseHolds, Unstarted, HeardInWindow, Refers, WindowLeft, Shut, Over,
        PausedAudioStaysOut, DeliversCurrentWindow, Joined,
        session, slot, capturing, receiving, connection, closing
<1>1. /\ receive = "event" /\ receive' = "loop" /\ event' = 0
      /\ UNCHANGED <<session, resume, window, capturing, backlog, recorder, connection, closing>>
  BY DEF Accept
<1>2. CASE UNCHANGED <<paused, text, failures>>
  BY <1>1, <1>2
<1>3. CASE /\ ~paused /\ event >= accept_after
           /\ paused' = TRUE /\ text' = sent[event + 1] /\ failures' = 0
  <2>1. DOMAIN sent = 1..Len(sent) /\ Len(sent) \in Nat
    OBVIOUS
  <2>2. event + 1 \in DOMAIN sent /\ event + 1 > accept_after
    BY <1>1, <1>3, <2>1
  <2>3. sent[event + 1] = window
    BY <1>3, <2>2
  <2>4. window < MaxWindow
    BY <1>1, <1>3
  <2> QED
    BY <1>1, <1>3, <2>3, <2>4, AttemptsAssumption
<1> QED
  BY <1>2, <1>3 DEF Accept, Accepts

\* The recognizer answers with a frame it has.
LEMMA RecognizeKeeps ==
  ASSUME SafeInv, Recognize
  PROVE  SafeInv'
<1> USE Marks
    DEF SafeInv, Ranges, PauseHolds, Unstarted, HeardInWindow, Refers, WindowLeft, Shut, Over,
        PausedAudioStaysOut, DeliversCurrentWindow, Joined,
        session, slot, capturing, receiving, connection, closing
<1>1. PICK b \in 0..Len(sent) - 1 : answers' = <<b>>
  BY DEF Recognize
<1>2. /\ answers' \in Seq(0..MaxFrames) /\ Len(answers') = 1 /\ DOMAIN answers' = {1} /\ answers'[1] = b
  BY <1>1
<1>3. /\ window < MaxWindow
      /\ UNCHANGED <<session, slot, capturing, backlog, recorder, receiving, stream, sent, accept_after,
                     send_error, socket, closing>>
  BY DEF Recognize
<1> QED
  BY <1>1, <1>2, <1>3

\* Whoever cancels, what is shut stays shut.
LEMMA CancelKeeps ==
  ASSUME SafeInv, NEW c \in Canceller, CancelIO(c)
  PROVE  SafeInv'
<1> USE Marks
    DEF SafeInv, Ranges, PauseHolds, Unstarted, HeardInWindow, Refers, WindowLeft, Shut, Over,
        PausedAudioStaysOut, DeliversCurrentWindow, Joined,
        session, slot, capturing, receiving, connection, closing
<1>1. /\ main' = main
      /\ UNCHANGED <<session, slot, capturing, backlog, receiving, stream, sent, accept_after, send_error,
                     answers>>
      /\ \A k \in Canceller : k # c => cancels'[k] = cancels[k]
      /\ cancels' \in [Canceller -> {"idle", "connection", "recorder"}]
  BY DEF CancelIO, Reaches
<1>2. CASE /\ cancels[c] = "idle" /\ cancels'[c] = "connection"
           /\ socket' = FALSE
           /\ refused' = refused \cup {"connection"} /\ recorder' = recorder
  <2>1. Ranges' /\ PauseHolds' /\ Unstarted' /\ HeardInWindow' /\ Refers' /\ WindowLeft'
    BY <1>1, <1>2 DEF Resource
  <2>2. Shut'
    BY <1>1, <1>2 DEF Resource
  <2>3. Over' /\ PausedAudioStaysOut' /\ DeliversCurrentWindow'
    BY <1>1, <1>2 DEF Canceller
  <2> QED
    BY <2>1, <2>2, <2>3
<1>3. CASE /\ cancels[c] = "connection" /\ cancels'[c] = "recorder"
           /\ refused' = refused \cup {"recorder"} /\ socket' = socket
           /\ recorder' \in {"none", "reaped"}
  <2>1. Ranges' /\ PauseHolds' /\ Unstarted' /\ HeardInWindow' /\ Refers' /\ WindowLeft'
    BY <1>1, <1>3 DEF Resource
  <2>2. Shut'
    BY <1>1, <1>3 DEF Resource
  <2>3. Over' /\ PausedAudioStaysOut' /\ DeliversCurrentWindow'
    BY <1>1, <1>3 DEF Canceller
  <2> QED
    BY <2>1, <2>2, <2>3
<1> QED
  BY <1>2, <1>3 DEF CancelIO, Reaches

\* Every step preserves the invariant.
LEMMA SafeSteps == SafeInv /\ [Next]_vars => SafeInv'
BY PlainSteps, RecordKeeps, ReadKeeps, SendKeeps, ResumeKeeps, ReceiveKeeps, AcceptKeeps,
   RecognizeKeeps, CancelKeeps
   DEF Next, CallerStep, CaptureStep, ReceiveStep, MainStep, Canceller

-------------------------------------------------------------------------------
(* Results.                                                                *)

\* The invariant holds in every reachable state.
THEOREM SafeInvariance == Spec => []SafeInv
BY SafeStart, SafeSteps, PTL DEF Spec

\* Pauses, resumes, lost connections and stops in any order: what was heard
\* during a turn is never sent (_capture, PcmMicrophone.discard).
THEOREM NothingOfAPauseIsSent == Spec => []PausedAudioStaysOut
<1>1. SafeInv => PausedAudioStaysOut
  BY DEF SafeInv
<1> QED
  BY <1>1, SafeInvariance, PTL

\* A sentence that begins before the last resume is never delivered, on
\* whatever connection and however late it comes (_accept).
THEOREM SentencesAreCurrent == Spec => []DeliversCurrentWindow
<1>1. SafeInv => DeliversCurrentWindow
  BY DEF SafeInv
<1> QED
  BY <1>1, SafeInvariance, PTL

\* When stop() returns, both threads and the business loop are over, the
\* recorder does not run and the connection is gone, and so they stay, however
\* the threads were starting, connecting or closing (close(), _cancel_io).
THEOREM NothingOutlivesStop ==
  Spec => [](main = "returned" =>
               Joined /\ caller = "ended" /\ recorder # "running" /\ ~socket)
<1>1. SafeInv => (main = "returned" =>
                    Joined /\ caller = "ended" /\ recorder # "running" /\ ~socket)
  BY DEF SafeInv, Over, Shut, Resource, Canceller
<1> QED
  BY <1>1, SafeInvariance, PTL

\* The flags stay flags.
LEMMA FlagSteps == Flags /\ [Next]_vars => Flags'
<1> SUFFICES ASSUME Flags, [Next]_vars PROVE Flags'
  OBVIOUS
<1> USE DEF Flags, session, slot, capturing, receiving, connection, closing
<1>1. CASE BeginListen
  BY <1>1, Zenon DEF BeginListen
<1>2. CASE Start
  BY <1>2, Zenon DEF Start
<1>3. CASE TakeText
  BY <1>3, Zenon DEF TakeText
<1>4. CASE LeaveLoop
  BY <1>4, Zenon DEF LeaveLoop
<1>5. CASE BeginTurn
  BY <1>5, Zenon DEF BeginTurn
<1>6. CASE EndTurn
  BY <1>6, Zenon DEF EndTurn, Resumes
<1>7. CASE LoopEnds
  BY <1>7, Zenon DEF LoopEnds
<1>8. CASE Record
  BY <1>8, Zenon DEF Record
<1>9. CASE RecorderEnds
  BY <1>9, Zenon DEF RecorderEnds
<1>10. CASE ReadFrame
  BY <1>10, Zenon DEF ReadFrame
<1>11. CASE ReadFails
  BY <1>11, Zenon DEF ReadFails
<1>12. CASE CaptureReturns
  BY <1>12, Zenon DEF CaptureReturns
<1>13. CASE Resume
  BY <1>13, Zenon DEF Resume
<1>14. CASE ResumeFails
  BY <1>14, Zenon DEF ResumeFails
<1>15. CASE DropFrame
  BY <1>15, Zenon DEF DropFrame
<1>16. CASE SendFrame
  BY <1>16, Zenon DEF SendFrame
<1>17. CASE SendFails
  BY <1>17, Zenon DEF SendFails
<1>18. CASE Connect
  BY <1>18, Zenon DEF Connect
<1>19. CASE Handshake
  BY <1>19, Zenon DEF Handshake
<1>20. CASE Breaks
  BY <1>20, Zenon DEF Breaks
<1>21. CASE Receive
  BY <1>21, Zenon DEF Receive
<1>22. CASE Accept
  BY <1>22, Zenon DEF Accept
<1>23. CASE Recover
  BY <1>23, Zenon DEF Recover, Released
<1>24. CASE StopReceiving
  BY <1>24, Zenon DEF StopReceiving, Released
<1>25. CASE ReceiverEnds
  BY <1>25, Zenon DEF ReceiverEnds
<1>26. CASE Recognize
  BY <1>26, Zenon DEF Recognize
<1>27. CASE Stop
  BY <1>27, Zenon DEF Stop
<1>28. CASE StopReturns
  BY <1>28, Zenon DEF StopReturns
<1>29. ASSUME NEW c \in Canceller, CancelIO(c) PROVE Flags'
  BY <1>29, Zenon DEF CancelIO
<1>30. CASE UNCHANGED vars
  BY <1>30, Zenon DEF vars
<1> QED
  BY <1>1, <1>2, <1>3, <1>4, <1>5, <1>6, <1>7, <1>8, <1>9, <1>10, <1>11, <1>12, <1>13,
     <1>14, <1>15, <1>16, <1>17, <1>18, <1>19, <1>20, <1>21, <1>22, <1>23, <1>24, <1>25,
     <1>26, <1>27, <1>28, <1>29, <1>30
     DEF Next, CallerStep, CaptureStep, ReceiveStep, MainStep, Canceller

\* Every variable keeps its type, the counter of failed connections and the
\* lists within their bounds included.
THEOREM TypeCorrect == Spec => []TypeOK
<1>1. Init => Flags
  BY Zenon DEF Init, Flags
<1>2. SafeInv /\ Flags => TypeOK
  BY Zenon DEF SafeInv, Ranges, Flags, TypeOK
<1> QED
  BY <1>1, <1>2, FlagSteps, SafeInvariance, PTL DEF Spec
===============================================================================
