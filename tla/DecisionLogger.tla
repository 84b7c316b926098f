--------------------------- MODULE DecisionLogger ---------------------------
(***************************************************************************)
(* The decision log of internal/ads/decision_log.go: a channel of limited  *)
(* size, filled by auctions that never wait for it, emptied by one         *)
(* goroutine, closed once at the end of the process.                       *)
(***************************************************************************)
EXTENDS Naturals, Sequences

CONSTANT NoEntry  \* no entry is being written

VARIABLES
  queue,    \* the entries in the channel
  closed,   \* the channel is closed
  runner,   \* the goroutine: "none" (logging is off), "running", "done"
  writing,  \* the entry it is writing, or NoEntry
  written,  \* the entries it has written
  dropped   \* entries refused because the channel was full

loggerVars == <<queue, closed, runner, writing, written, dropped>>

LoggerInit ==
  /\ queue = <<>> /\ closed = FALSE
  /\ runner = "none" /\ writing = NoEntry /\ written = {}
  /\ dropped = 0

NewDecisionLogger(buffer) ==
  /\ runner' = IF buffer = 0 THEN "none" ELSE "running"
  /\ UNCHANGED <<queue, closed, writing, written, dropped>>

(* Slip: there is room for one entry too many.                             *)
RoomForOneMore(buffer) == ~closed /\ Len(queue) <= buffer

(* The three outcomes of Record.                                           *)
Room(buffer) == ~closed /\ Len(queue) < buffer

Send(entry) ==
  /\ queue' = Append(queue, entry)
  /\ UNCHANGED <<closed, runner, writing, written, dropped>>

Drop ==
  /\ dropped' = dropped + 1
  /\ UNCHANGED <<queue, closed, runner, writing, written>>

-----------------------------------------------------------------------------
(* run                                                                     *)
Receive ==
  /\ runner = "running" /\ writing = NoEntry /\ queue # <<>>
  /\ writing' = Head(queue)
  /\ queue' = Tail(queue)
  /\ UNCHANGED <<closed, runner, written, dropped>>

Write ==
  /\ writing # NoEntry
  /\ written' = written \cup {writing}
  /\ writing' = NoEntry
  /\ UNCHANGED <<queue, closed, runner, dropped>>

RunEnds ==
  /\ runner = "running" /\ writing = NoEntry /\ queue = <<>> /\ closed
  /\ runner' = "done"
  /\ UNCHANGED <<queue, closed, writing, written, dropped>>

Run == Receive \/ Write \/ RunEnds

-----------------------------------------------------------------------------
(* Slip: the channel stays open.                                           *)
CloseQueueNever == UNCHANGED loggerVars

(* Close closes the channel and then waits for the goroutine.              *)
CloseQueue ==
  /\ closed' = (runner # "none")
  /\ UNCHANGED <<queue, runner, writing, written, dropped>>

(* Slip: Close does not wait.                                              *)
CloseReturnsAtOnce == TRUE

CloseReturns == runner # "running"
=============================================================================
