------------------------------ MODULE PodTerminal ------------------------------
(***************************************************************************)
(* One Pod terminal of internal/handlers/pod_terminal.go, from the audit   *)
(* row RunPodTerminalWithConn creates to the moment it closes that row,    *)
(* with the session recorder of internal/terminalreplay/recorder.go and    *)
(* the audit rows of internal/services/audit_service.go.                   *)
(*                                                                         *)
(* Goroutines and what they hand each other:                               *)
(*   reader    the handler: reads the WebSocket, types into the stdin      *)
(*             pipe while it holds session.Mutex, and cleans up at the end *)
(*   exec      runs the exec stream; closes done when the stream is over   *)
(*   copier    of the stream: takes chunks from the stdin pipe             *)
(*   output    readOutput: takes chunks from the stdout pipe, sends and    *)
(*             records them, and looks for commands under session.Mutex    *)
(*   one per command, started by RecordCommandAsync and waited for by      *)
(*             nobody: stores the command, then adds its length to the row *)
(* Both pipes are io.Pipe: a write lasts until the other side has read.    *)
(* session.Mutex is held between two steps only while the reader types, so *)
(* it needs no variable.  What a WebSocket write does is left out.         *)
(***************************************************************************)
EXTENDS Naturals

CONSTANTS
  WinSizeCap,  (* capacity of winSizeChan                                  *)
  RemoteRoom,  (* chunks the remote shell buffers in each direction        *)
  MaxEnters    (* bound: chunks of input with a line end                   *)

ASSUME RoomForTheDefaultSize == WinSizeCap \in Nat \ {0}
ASSUME RoomIsNat   == RemoteRoom \in Nat \ {0}
ASSUME EntersIsNat == MaxEnters \in Nat

VARIABLES
  browser,   (* the other end of the WebSocket is there                    *)
  reader,    (* where RunPodTerminalWithConn is                            *)
  typing,    (* the chunk it writes to the stdin pipe                      *)
  exec,      (* the exec goroutine                                         *)
  copier,    (* the goroutine of the stream that reads the stdin pipe      *)
  output,    (* the goroutine readOutput                                   *)
  done,      (* session.done: "nil", "open" or "closed"                    *)
  winSizes,  (* sizes waiting in winSizeChan                               *)
  closed,    (* the reader has closed its ends of both pipes               *)
  cancelled, (* session.Context is cancelled                               *)
  inbox,     (* chunks on their way to the remote shell                    *)
  outbox,    (* chunks on their way back                                   *)
  pending,   (* session.pendingEnter                                       *)
  enters,    (* chunks with a line end that were typed                     *)
  recorded,  (* commands handed to RecordCommandAsync                      *)
  recorder,  (* session.replay: "nil", "open" or "ended"                   *)
  started,   (* the recorder has written the header of its file            *)
  row,       (* status of the terminal_sessions row ("none": not created)  *)
  replay,    (* the row has a replay_path                                  *)
  inserting, (* goroutines of RecordCommandAsync before their insert       *)
  sizing,    (* ... and between the insert and the update of input_size    *)
  stored,    (* rows of terminal_commands                                  *)
  sized      (* commands whose length the row's input_size holds           *)

sessionVars  == <<done, winSizes, closed, cancelled>>
remoteVars   == <<inbox, outbox>>
commandVars  == <<pending, enters, recorded>>
recorderVars == <<recorder, started>>
logVars      == <<inserting, sizing, stored, sized>>
auditVars    == <<row, replay, logVars>>
terminalVars == <<browser, reader, typing, exec, copier, output, sessionVars, remoteVars,
          commandVars, recorderVars, auditVars>>

Chunks  == {"text", "enter"}
Cleanup == {"leaving", "endReplay", "closePipes", "checkDone", "closeDone", "closeRow"}
Readers == {"start", "shell", "reading", "typing", "resizing", "returned", "panicked"} \cup Cleanup

Labels ==
  /\ browser \in BOOLEAN
  /\ reader \in Readers
  /\ typing \in Chunks
  /\ exec \in {"none", "connecting", "streaming", "checkDone", "closeDone", "ended"}
  /\ copier \in {"none", "reading", "sending", "ended"}
  /\ output \in {"none", "reading", "sending", "tracking", "ended"}
  /\ done \in {"nil", "open", "closed"}
  /\ closed \in BOOLEAN /\ cancelled \in BOOLEAN
  /\ pending \in BOOLEAN
  /\ recorder \in {"nil", "open", "ended"} /\ started \in BOOLEAN
  /\ row \in {"none", "active", "closed"} /\ replay \in BOOLEAN

Counts ==
  /\ winSizes \in 0..WinSizeCap
  /\ inbox \in 0..RemoteRoom /\ outbox \in 0..RemoteRoom
  /\ enters \in 0..MaxEnters /\ recorded \in Nat
  /\ inserting \in Nat /\ sizing \in Nat /\ stored \in Nat /\ sized \in Nat

SessionTypeOK == Labels /\ Counts

SessionInit ==
  /\ browser = TRUE
  /\ reader = "start" /\ typing = "text"
  /\ exec = "none" /\ copier = "none" /\ output = "none"
  /\ done = "nil" /\ winSizes = 0
  /\ closed = FALSE /\ cancelled = FALSE
  /\ inbox = 0 /\ outbox = 0
  /\ pending = FALSE /\ enters = 0 /\ recorded = 0
  /\ recorder = "nil" /\ started = FALSE
  /\ row = "none" /\ replay = FALSE
  /\ inserting = 0 /\ sizing = 0 /\ stored = 0 /\ sized = 0

Audited  == row # "none"
Returned == reader \in {"returned", "panicked"}

-----------------------------------------------------------------------------
(***************************************************************************)
(* The reader: set-up.                                                     *)
(***************************************************************************)

(* CreateSession and NewRecorder; if either fails the terminal goes on     *)
(* without (no recorder without a row, or with an empty replayDir).        *)
StartSession ==
  /\ reader = "start"
  /\ row' \in {"none", "active"}
  /\ recorder' \in IF row' = "active" THEN {"nil", "open"} ELSE {"nil"}
  /\ reader' = "shell"
  /\ UNCHANGED <<browser, typing, exec, copier, output, sessionVars, remoteVars,
                 commandVars, started, replay, logVars>>

(* A shell is found and startPodTerminal starts the goroutines.            *)
StartTerminal ==
  /\ reader = "shell"
  /\ done' = "open"
  /\ winSizes' = 1
  /\ exec' = "connecting"
  /\ output' = "reading"
  /\ reader' = "reading"
  /\ UNCHANGED <<browser, typing, copier, closed, cancelled, remoteVars, commandVars,
                 recorderVars, auditVars>>

(* No client for the cluster, or none of the shells is in the container.   *)
NoShell ==
  /\ reader = "shell"
  /\ reader' = "leaving"
  /\ UNCHANGED <<browser, typing, exec, copier, output, sessionVars, remoteVars,
                 commandVars, recorderVars, auditVars>>

-----------------------------------------------------------------------------
(***************************************************************************)
(* The reader: messages.                                                   *)
(***************************************************************************)

(* handleInput takes the mutex (the output goroutine never keeps it) and   *)
(* starts to write the chunk.                                              *)
Input(chunk) ==
  /\ reader = "reading" /\ browser
  /\ chunk = "enter" => enters < MaxEnters
  /\ typing' = chunk
  /\ enters' = IF chunk = "enter" THEN enters + 1 ELSE enters
  /\ reader' = "typing"
  /\ UNCHANGED <<browser, exec, copier, output, sessionVars, remoteVars, pending,
                 recorded, recorderVars, auditVars>>

(* The copier reads the chunk: the write returns, handleInput notes a line *)
(* end and releases the mutex.                                             *)
InputTaken ==
  /\ reader = "typing" /\ copier = "reading"
  /\ copier' = "sending"
  /\ pending' = (pending \/ (typing = "enter" /\ Audited))
  /\ reader' = "reading"
  /\ UNCHANGED <<browser, typing, exec, output, sessionVars, remoteVars, enters,
                 recorded, recorderVars, auditVars>>

Resize ==
  /\ reader = "reading" /\ browser
  /\ reader' = "resizing"
  /\ UNCHANGED <<browser, typing, exec, copier, output, sessionVars, remoteVars,
                 commandVars, recorderVars, auditVars>>

(* handleResize: the size goes into the channel, or done is closed; either *)
(* way the recorder notes it.                                              *)
ResizeDone ==
  /\ reader = "resizing"
  /\ \/ winSizes < WinSizeCap /\ winSizes' = winSizes + 1
     \/ done = "closed" /\ UNCHANGED winSizes
  /\ started' = (started \/ recorder = "open")
  /\ reader' = "reading"
  /\ UNCHANGED <<browser, typing, exec, copier, output, done, closed, cancelled,
                 remoteVars, commandVars, recorder, auditVars>>

(* ReadMessage fails once the browser is gone; it is called only when the  *)
(* message before it has been dealt with.                                  *)
ReadFails ==
  /\ reader = "reading" /\ ~browser
  /\ reader' = "leaving"
  /\ UNCHANGED <<browser, typing, exec, copier, output, sessionVars, remoteVars,
                 commandVars, recorderVars, auditVars>>

-----------------------------------------------------------------------------
(***************************************************************************)
(* The reader: the deferred clean-up of RunPodTerminalWithConn.            *)
(***************************************************************************)
(* Fault: the row is closed before the replay is written.                  *)
CancelClosesRow ==
  /\ reader = "leaving"
  /\ cancelled' = TRUE
  /\ row' = IF Audited THEN "closed" ELSE row
  /\ reader' = "endReplay"
  /\ UNCHANGED <<browser, typing, exec, copier, output, done, winSizes, closed,
                 remoteVars, commandVars, recorderVars, replay, logVars>>

CancelContext ==
  /\ reader = "leaving"
  /\ cancelled' = TRUE
  /\ reader' = "endReplay"
  /\ UNCHANGED <<browser, typing, exec, copier, output, done, winSizes, closed,
                 remoteVars, commandVars, recorderVars, auditVars>>

(* Recorder.End: a file with a header is compressed and its path written   *)
(* to the row; compression and the update may fail.                        *)
EndReplay ==
  /\ reader = "endReplay"
  /\ recorder' = IF recorder = "open" THEN "ended" ELSE recorder
  /\ replay' \in IF recorder = "open" /\ started THEN {FALSE, TRUE} ELSE {FALSE}
  /\ reader' = "closePipes"
  /\ UNCHANGED <<browser, typing, exec, copier, output, sessionVars, remoteVars,
                 commandVars, started, row, logVars>>

(* Fault: closeSession forgets the reading end of the stdout pipe.         *)
ClosePipesForgets ==
  /\ reader = "closePipes"
  /\ UNCHANGED closed
  /\ reader' = IF done = "nil" THEN "closeRow" ELSE "checkDone"
  /\ UNCHANGED <<browser, typing, exec, copier, output, done, winSizes, cancelled,
                 remoteVars, commandVars, recorderVars, auditVars>>

(* closeSession: the pipes are nil when the terminal was never started.    *)
ClosePipes ==
  /\ reader = "closePipes"
  /\ closed' = (done # "nil")
  /\ reader' = IF done = "nil" THEN "closeRow" ELSE "checkDone"
  /\ UNCHANGED <<browser, typing, exec, copier, output, done, winSizes, cancelled,
                 remoteVars, commandVars, recorderVars, auditVars>>

(* closeSession looks whether done is closed ...                           *)
CheckDone ==
  /\ reader = "checkDone"
  /\ reader' = IF done = "open" THEN "closeDone" ELSE "closeRow"
  /\ UNCHANGED <<browser, typing, exec, copier, output, sessionVars, remoteVars,
                 commandVars, recorderVars, auditVars>>

(* ... and closes it.  Closing it twice panics: the handler recovers, but  *)
(* the rest of its deferred function does not run.                         *)
CloseDone ==
  /\ reader = "closeDone"
  /\ \/ done = "open" /\ done' = "closed" /\ reader' = "closeRow"
     \/ done = "closed" /\ UNCHANGED done /\ reader' = "panicked"
  /\ UNCHANGED <<browser, typing, exec, copier, output, winSizes, closed, cancelled,
                 remoteVars, commandVars, recorderVars, auditVars>>

(* CloseSession; its error is dropped, and the row then stays active.      *)
CloseRow ==
  /\ reader = "closeRow"
  /\ row' \in IF Audited THEN {"closed", row} ELSE {row}
  /\ reader' = "returned"
  /\ UNCHANGED <<browser, typing, exec, copier, output, sessionVars, remoteVars,
                 commandVars, recorderVars, replay, logVars>>

-----------------------------------------------------------------------------
(***************************************************************************)
(* The exec stream.                                                        *)
(***************************************************************************)
StreamStarts ==
  /\ exec = "connecting" /\ ~cancelled
  /\ exec' = "streaming"
  /\ copier' = "reading"
  /\ UNCHANGED <<browser, reader, typing, output, sessionVars, remoteVars, commandVars,
                 recorderVars, auditVars>>

(* The connection fails, the shell exits or the stream breaks.             *)
StreamEnds ==
  /\ exec \in {"connecting", "streaming"}
  /\ exec' = "checkDone"
  /\ inbox' = 0 /\ outbox' = 0
  /\ UNCHANGED <<browser, reader, typing, copier, output, sessionVars, commandVars,
                 recorderVars, auditVars>>

(* StreamWithContext returns because the context is cancelled.             *)
StreamCancelled == cancelled /\ StreamEnds

(* Next of the size queue.                                                 *)
TakeSize ==
  /\ exec = "streaming" /\ winSizes > 0
  /\ winSizes' = winSizes - 1
  /\ UNCHANGED <<browser, reader, typing, exec, copier, output, done, closed, cancelled,
                 remoteVars, commandVars, recorderVars, auditVars>>

(* The copier hands its chunk to the stream, or finds the stream over.     *)
CopierSends ==
  /\ copier = "sending"
  /\ \/ /\ exec = "streaming" /\ inbox < RemoteRoom
        /\ inbox' = inbox + 1
        /\ copier' = "reading"
     \/ /\ exec \notin {"connecting", "streaming"}
        /\ copier' = "ended"
        /\ UNCHANGED inbox
  /\ UNCHANGED <<browser, reader, typing, exec, output, sessionVars, outbox, commandVars,
                 recorderVars, auditVars>>

(* The pipe is closed while the copier waits for the next chunk.           *)
CopierEnds ==
  /\ copier = "reading" /\ closed
  /\ copier' = "ended"
  /\ UNCHANGED <<browser, reader, typing, exec, output, sessionVars, remoteVars,
                 commandVars, recorderVars, auditVars>>

(* The deferred function of the exec goroutine looks at done ...           *)
ExecChecksDone ==
  /\ exec = "checkDone"
  /\ exec' = IF done = "open" THEN "closeDone" ELSE "ended"
  /\ UNCHANGED <<browser, reader, typing, copier, output, sessionVars, remoteVars,
                 commandVars, recorderVars, auditVars>>

(* ... and closes it.  Closing it twice panics, nothing recovers, and the  *)
(* process is gone with all its goroutines, those that record commands too.*)
ExecClosesDone ==
  /\ exec = "closeDone"
  /\ exec' = "ended"
  /\ done' = "closed"
  /\ \/ done = "open" /\ UNCHANGED <<reader, copier, output, inserting, sizing>>
     \/ /\ done = "closed"
        /\ reader' = IF reader = "returned" THEN "returned" ELSE "panicked"
        /\ copier' = "ended" /\ output' = "ended"
        /\ inserting' = 0 /\ sizing' = 0
  /\ UNCHANGED <<browser, typing, winSizes, closed, cancelled, remoteVars, commandVars,
                 recorderVars, row, replay, stored, sized>>

-----------------------------------------------------------------------------
(***************************************************************************)
(* The output goroutine.                                                   *)
(***************************************************************************)

(* A chunk comes through the stdout pipe.                                  *)
OutputArrives ==
  /\ output = "reading" /\ exec = "streaming" /\ outbox > 0 /\ ~closed
  /\ outbox' = outbox - 1
  /\ output' = "sending"
  /\ UNCHANGED <<browser, reader, typing, exec, copier, sessionVars, inbox, commandVars,
                 recorderVars, auditVars>>

(* Fault: Record does not ask whether the recorder has ended.              *)
OutputSentLate ==
  /\ output = "sending"
  /\ started' = (started \/ recorder # "nil")
  /\ output' = IF Audited THEN "tracking" ELSE "reading"
  /\ UNCHANGED <<browser, reader, typing, exec, copier, sessionVars, remoteVars,
                 commandVars, recorder, auditVars>>

(* It is sent to the browser and recorded (Record of an ended recorder     *)
(* does nothing).                                                          *)
OutputSent ==
  /\ output = "sending"
  /\ started' = (started \/ recorder = "open")
  /\ output' = IF Audited THEN "tracking" ELSE "reading"
  /\ UNCHANGED <<browser, reader, typing, exec, copier, sessionVars, remoteVars,
                 commandVars, recorder, auditVars>>

(* trackOutputForCommand: a chunk may complete a line; after an Enter the  *)
(* first such line is taken for the command, if it looks like one, and a   *)
(* goroutine is started to record it.                                      *)
OutputTracked ==
  /\ output = "tracking" /\ reader # "typing"
  /\ \/ UNCHANGED <<pending, recorded, inserting>>
     \/ pending /\ pending' = FALSE /\ UNCHANGED <<recorded, inserting>>
     \/ /\ pending /\ pending' = FALSE
        /\ recorded' = recorded + 1 /\ inserting' = inserting + 1
  /\ output' = "reading"
  /\ UNCHANGED <<browser, reader, typing, exec, copier, sessionVars, remoteVars, enters,
                 recorderVars, row, replay, sizing, stored, sized>>

OutputEnds ==
  /\ output = "reading" /\ closed
  /\ output' = "ended"
  /\ UNCHANGED <<browser, reader, typing, exec, copier, sessionVars, remoteVars,
                 commandVars, recorderVars, auditVars>>

-----------------------------------------------------------------------------
(***************************************************************************)
(* The goroutines of RecordCommandAsync.                                   *)
(***************************************************************************)

(* The command is inserted, or the insert fails and nothing follows.       *)
CommandStored ==
  /\ inserting > 0
  /\ inserting' = inserting - 1
  /\ \/ stored' = stored + 1 /\ sizing' = sizing + 1
     \/ UNCHANGED <<stored, sizing>>
  /\ UNCHANGED <<browser, reader, typing, exec, copier, output, sessionVars, remoteVars,
                 commandVars, recorderVars, row, replay, sized>>

(* The length of a stored command is added to the row, whatever the status *)
(* of the row; the error of the update is dropped.                         *)
CommandSized ==
  /\ sizing > 0
  /\ sizing' = sizing - 1
  /\ sized' \in {sized, sized + 1}
  /\ UNCHANGED <<browser, reader, typing, exec, copier, output, sessionVars, remoteVars,
                 commandVars, recorderVars, row, replay, inserting, stored>>

-----------------------------------------------------------------------------
(***************************************************************************)
(* The browser and the remote shell.                                       *)
(***************************************************************************)
BrowserLeaves ==
  /\ browser
  /\ browser' = FALSE
  /\ UNCHANGED <<reader, typing, exec, copier, output, sessionVars, remoteVars,
                 commandVars, recorderVars, auditVars>>

(* The shell echoes a chunk, or a program prints one.  The terminal of the *)
(* container takes no input whose echo it has no room for.                 *)
RemoteAnswers ==
  /\ exec = "streaming" /\ outbox < RemoteRoom
  /\ outbox' = outbox + 1
  /\ inbox' \in IF inbox > 0 THEN {inbox - 1, inbox} ELSE {inbox}
  /\ UNCHANGED <<browser, reader, typing, exec, copier, output, sessionVars, commandVars,
                 recorderVars, auditVars>>

ReaderStep ==
  \/ StartSession \/ StartTerminal \/ NoShell
  \/ InputTaken \/ ResizeDone \/ ReadFails
  \/ CancelContext \/ EndReplay \/ ClosePipes \/ CheckDone \/ CloseDone \/ CloseRow
ExecStep   == ExecChecksDone \/ ExecClosesDone
CopierStep == CopierSends \/ CopierEnds
OutputStep == OutputArrives \/ OutputSent \/ OutputTracked \/ OutputEnds
RecordStep == CommandStored \/ CommandSized
BrowserStep == Resize \/ BrowserLeaves \/ \E chunk \in Chunks : Input(chunk)

SessionNext ==
  \/ ReaderStep \/ ExecStep \/ CopierStep \/ OutputStep \/ RecordStep \/ BrowserStep
  \/ StreamStarts \/ StreamEnds \/ TakeSize \/ RemoteAnswers

SessionSpec == SessionInit /\ [][SessionNext]_terminalVars

(* Every goroutine that can go on does; a connection attempt ends one way  *)
(* or the other, and a cancelled stream returns.  The browser, the shell   *)
(* and an established stream owe us nothing.                               *)
SessionFairness ==
  /\ WF_terminalVars(ReaderStep)
  /\ WF_terminalVars(ExecStep)
  /\ WF_terminalVars(CopierStep)
  /\ WF_terminalVars(OutputStep)
  /\ WF_terminalVars(RecordStep)
  /\ WF_terminalVars(TakeSize)
  /\ WF_terminalVars(StreamCancelled)
  /\ WF_terminalVars(exec = "connecting" /\ (StreamStarts \/ StreamEnds))

FairSessionSpec == SessionSpec /\ SessionFairness

-----------------------------------------------------------------------------
(***************************************************************************)
(* Properties.                                                             *)
(***************************************************************************)

(* Once the audit row says closed, its status and its replay path are      *)
(* final: the path is written before, never after, whichever goroutine is  *)
(* late.  The input size is not, since the goroutines that record commands *)
(* are not waited for; but it never counts a command that is not stored,   *)
(* nor are more stored than the user typed line ends.                      *)
ClosedRowIsFinal ==
  /\ [][row = "closed" => UNCHANGED <<row, replay>>]_terminalVars
  /\ [](row = "closed" => sized <= stored /\ stored <= enters)

(* A replay path in the row means the recorder has ended and had something *)
(* to show, and nobody adds to its file any more.                          *)
ReplayIsComplete ==
  /\ [](replay => recorder = "ended" /\ started)
  /\ [][recorder = "ended" => UNCHANGED recorderVars]_terminalVars

(* Output that arrives late or at the wrong moment never makes the session *)
(* record more commands than the user typed line ends.                     *)
CommandsWithinEnters == recorded + (IF pending THEN 1 ELSE 0) <= enters

(* When the handler has returned, even by a panic in its clean-up, no      *)
(* goroutine of the session is left behind, not even one that records a    *)
(* command; and a resize does not keep the handler, though the channel is  *)
(* full, the stream over and nobody takes sizes any more.                  *)
GoroutinesEnd ==
  /\ Returned ~> /\ exec \in {"none", "ended"}
                 /\ output \in {"none", "ended"}
                 /\ copier \in {"none", "ended"}
                 /\ inserting = 0 /\ sizing = 0
  /\ (reader = "resizing") ~> (reader # "resizing")

(* What the user guide says of terminal sessions: one that nobody uses is  *)
(* closed.  When the stream has ended, the second chunk typed into the     *)
(* stdin pipe has no reader: handleInput never returns, so the handler     *)
(* does not notice that the browser leaves, and the row stays active.      *)
AbandonedSessionEnds == (~browser) ~> Returned

-----------------------------------------------------------------------------
(***************************************************************************)
(* The inductive invariant behind them.                                    *)
(***************************************************************************)

(* A line end that is being typed is counted and not yet pending.          *)
EntersAccountFor ==
  recorded + (IF pending THEN 1 ELSE 0)
           + (IF reader = "typing" /\ typing = "enter" THEN 1 ELSE 0) <= enters

(* A command recorded is about to be inserted, stored or lost; one that is *)
(* stored is about to be added to the row, added or left out.              *)
CommandsAccountFor == inserting + stored <= recorded /\ sizing + sized <= stored

(* How far the handler is bounds what the recorder and the row can be.     *)
RowFollowsReader ==
  /\ reader = "start" => recorder = "nil" /\ row = "none"
  /\ row = "closed" => reader = "returned"
  /\ replay => recorder = "ended" /\ started

SessionInv == SessionTypeOK /\ EntersAccountFor /\ CommandsAccountFor /\ RowFollowsReader

=============================================================================
