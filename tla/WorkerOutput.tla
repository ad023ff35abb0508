---------------------------- MODULE WorkerOutput ----------------------------
(***************************************************************************)
(* What a sandbox worker hands to its parent (sandbox_worker.py,           *)
(* _sandbox_protocol.py): the text the code prints, through a buffer that  *)
(* both map and that outlives the worker; the warnings of the package,     *)
(* from any thread; and the frame of a result, that has a largest size.    *)
(* Sizes are counted in units; a text is a sequence of characters, each    *)
(* given by the number of its bytes.                                       *)
(***************************************************************************)
EXTENDS Integers, Sequences, FiniteSets, SequencesExt

CONSTANTS
  MaxChars,   \* max_output_chars
  Capacity,   \* bytes in the shared buffer
  Texts,      \* what a print may write
  LogMax,     \* LOG_RECORDS_MAX
  Cap,        \* ipc_max_bytes
  Rests,      \* sizes of a frame without its error and its warnings
  Errors,     \* sizes of an error
  Mark,       \* size of what says that an error was cut
  MaxExecs, MaxPrints, MaxWarnings   \* bounds

VARIABLES
  buffer, published, truncated,   \* shared with the parent
  offset, used, chunk,            \* of SharedStdoutWriter
  printed,                        \* history: what this execution printed
  queue, suppressed, warned,      \* of _BoundedLogCollector; history: warnings given
  worker, exec, frame,            \* the worker, the execution it is at, what it has sent
  told,                           \* history: the warnings the parent was given
  result                          \* what the parent answered
shared == <<buffer, published, truncated>>
writer == <<offset, used, chunk>>
logs == <<queue, suppressed, warned>>
outputVars == <<shared, writer, printed, logs, worker, exec, frame, told, result>>

(* The buffer has room for MaxChars characters of any width: a chunk is never *)
(* shortened to what is left of it.                                          *)

(* The bytes of a text, each with the execution and the character it is of. *)
Bytes(e, first, text) ==
  FlattenSeq([i \in 1..Len(text) |-> [b \in 1..text[i] |-> <<e, first + i, b>>]])
Upto(s, n) == SubSeq(s, 1, IF n < Len(s) THEN n ELSE Len(s))
NoChunk == [bytes |-> <<>>, chars |-> 0, clipped |-> FALSE]
NoFrame == [kind |-> "", logs |-> <<>>, error |-> 0, cut |-> FALSE, rest |-> 0]
NoResult == [kind |-> "", text |-> <<>>, truncated |-> FALSE]

Init ==
  /\ buffer = [i \in 1..Capacity |-> <<0, 0, 0>>] /\ published = 0 /\ truncated = FALSE
  /\ offset = 0 /\ used = 0 /\ chunk = NoChunk /\ printed = <<>>
  /\ queue = <<>> /\ suppressed = 0 /\ warned = 0
  /\ worker = "boot" /\ exec = 0 /\ frame = NoFrame /\ told = <<>> /\ result = NoResult

-----------------------------------------------------------------------------
(* Warnings.  A record is the number of its warning; a marker stands for the *)
(* last of those it replaces.                                               *)

Warn ==
  /\ worker \notin {"dead", "gone"} /\ warned < MaxWarnings /\ warned' = warned + 1
  /\ IF Len(queue) >= LogMax - 1 THEN suppressed' = suppressed + 1 /\ UNCHANGED queue
     ELSE queue' = Append(queue, warned + 1) /\ UNCHANGED suppressed
  /\ UNCHANGED <<shared, writer, printed, worker, exec, frame, told, result>>

Drained == queue \o (IF suppressed = 0 THEN <<>> ELSE <<warned>>)

(* Mutated form of FitLogs: the warnings go with the frame as they are. *)
FitLogsNot(size, records, wide) == records
(* _fit_optional_log_records_to_frame: as many as fit, and in the place of the *)
(* last of them what says how many do not, unless that is too wide itself.   *)
FitLogs(size, records, wide) ==
  LET best == Cap - size IN
  IF best <= 0 THEN <<>>
  ELSE IF Len(records) <= best THEN records
  ELSE IF wide THEN Upto(records, best) ELSE Append(Upto(records, best - 1), Last(records))

(* _fit_execute_error_to_frame, with the warnings already in. *)
FitError(size, error) ==
  LET left == Cap - size IN
  IF error <= left \/ Mark > left THEN [size |-> error, cut |-> FALSE] ELSE [size |-> left, cut |-> TRUE]

(* Sent, unless a frame is too large: then the worker says so and ends. *)
Framed(kind, rest, error, wide) ==
  LET records == FitLogs(rest + error, Drained, wide)
      fitted == FitError(rest + Len(records), error)
  IN [kind |-> IF rest + Len(records) + fitted.size > Cap THEN "fatal" ELSE kind,
      logs |-> records, error |-> error, cut |-> fitted.cut, rest |-> rest]
SendFrame(kind, rest, error) ==
  /\ \E wide \in BOOLEAN : frame' = Framed(kind, rest, error, wide)
  /\ worker' = (IF frame'.kind = "fatal" THEN "gone" ELSE "ready")
  /\ queue' = <<>> /\ suppressed' = 0

-----------------------------------------------------------------------------
(* The worker: the session is built (a refusal ends it), then one command    *)
(* after the other.                                                         *)

Build ==
  /\ worker = "boot" /\ frame = NoFrame
  /\ \E rest \in Rests : SendFrame("init_ok", rest, 0)
  /\ UNCHANGED <<shared, writer, printed, warned, exec, told, result>>
Refuse ==
  /\ worker = "boot" /\ worker' = "gone" /\ frame' = [NoFrame EXCEPT !.kind = "init_error"]
  /\ UNCHANGED <<shared, writer, printed, logs, exec, told, result>>

(* The parent has set the count of bytes to zero before. *)
Reset == <<0, 0>>
Take ==
  /\ worker = "ready" /\ frame.kind = "execute" /\ worker' = "running" /\ frame' = NoFrame
  /\ offset' = Reset[1] /\ used' = Reset[2] /\ chunk' = NoChunk
  /\ UNCHANGED <<shared, printed, logs, exec, told, result>>

(* A print: bytes first, then the count of them, then what was cut. *)
Copy(text) ==
  LET keep == Upto(text, MaxChars - used)
      bytes == Bytes(exec, used, keep)
  IN /\ worker = "running" /\ Len(printed) < MaxPrints /\ printed' = printed \o text
     /\ IF used >= MaxChars THEN truncated' = TRUE /\ UNCHANGED <<buffer, chunk, worker>>
        ELSE /\ buffer' = [i \in 1..Capacity |->
                             IF i > offset /\ i <= offset + Len(bytes) THEN bytes[i - offset] ELSE buffer[i]]
             /\ chunk' = [bytes |-> bytes, chars |-> Len(keep), clipped |-> Len(keep) < Len(text)]
             /\ worker' = "copied" /\ UNCHANGED truncated
     /\ UNCHANGED <<published, offset, used, logs, exec, frame, told, result>>
Publish ==
  /\ worker = "copied" /\ worker' = "published"
  /\ offset' = offset + Len(chunk.bytes) /\ used' = used + chunk.chars /\ published' = offset'
  /\ UNCHANGED <<buffer, truncated, chunk, printed, logs, exec, frame, told, result>>
Flag ==
  /\ worker = "published" /\ worker' = "running" /\ truncated' = (truncated \/ chunk.clipped) /\ chunk' = NoChunk
  /\ UNCHANGED <<buffer, published, offset, used, printed, logs, exec, frame, told, result>>

Return ==
  /\ worker = "running"
  /\ \E rest \in Rests, error \in Errors : SendFrame("execute_result", rest, error)
  /\ UNCHANGED <<shared, writer, printed, warned, exec, told, result>>
(* The session fails outside the code: no warnings go with that. *)
Fails ==
  /\ worker = "running" /\ worker' = "gone" /\ frame' = [NoFrame EXCEPT !.kind = "worker_error"]
  /\ UNCHANGED <<shared, writer, printed, logs, exec, told, result>>

-----------------------------------------------------------------------------
(* The parent. *)

Waiting == exec > 0 /\ result = NoResult
Execute ==
  /\ worker = "ready" /\ frame = NoFrame /\ ~ Waiting /\ exec < MaxExecs /\ exec' = exec + 1
  /\ published' = 0 /\ truncated' = FALSE /\ printed' = <<>> /\ result' = NoResult
  /\ frame' = [NoFrame EXCEPT !.kind = "execute"]
  /\ UNCHANGED <<buffer, writer, logs, worker, told>>

Answered(kind) == [kind |-> kind, text |-> Upto(buffer, published), truncated |-> truncated]
Started ==
  /\ frame.kind = "init_ok" /\ frame' = NoFrame /\ told' = told \o frame.logs
  /\ UNCHANGED <<shared, writer, printed, logs, worker, exec, result>>
Receive ==
  /\ frame.kind = "execute_result" /\ frame' = NoFrame /\ result' = Answered("done") /\ told' = told \o frame.logs
  /\ UNCHANGED <<shared, writer, printed, logs, worker, exec>>
(* The worker is killed, at whatever it is: its time is over, it died, or it  *)
(* has sent what a worker of its state may not send.                        *)
Kill ==
  /\ Waiting /\ worker # "dead" /\ worker' = "dead" /\ frame' = NoFrame /\ result' = Answered("lost")
  /\ UNCHANGED <<shared, writer, printed, logs, exec, told>>

Next ==
  \/ Warn \/ Build \/ Refuse \/ Take \/ (\E t \in Texts : Copy(t)) \/ Publish \/ Flag \/ Return \/ Fails
  \/ Execute \/ Started \/ Receive \/ Kill

-----------------------------------------------------------------------------
(* The text of an answer is what this execution printed, from its beginning,  *)
(* in whole characters; all of it, or as much as is allowed and marked, when  *)
(* the execution ended by itself (158-163).                                  *)
StdoutHonest ==
  result # NoResult =>
    \E n \in 0..Len(printed) :
      /\ result.text = Bytes(exec, 0, Upto(printed, n))
      /\ n <= MaxChars /\ (result.truncated => n = MaxChars /\ Len(printed) > n)
      /\ result.kind = "done" => /\ n = Len(Upto(printed, MaxChars))
                                 /\ result.truncated <=> Len(printed) > MaxChars

(* Warnings come once, in their order, never more than a frame may have, and  *)
(* the last one given before an answer is among them or replaced in it.      *)
WarningsOnce ==
  /\ \A i, j \in 1..Len(told) : i < j => told[i] < told[j]
  /\ Len(frame.logs) <= LogMax /\ Len(Drained) <= LogMax

(* No frame is lost to its warnings, nor to an error that can be cut, and an  *)
(* error is not cut to make room for warnings (102-151, 495-535).            *)
ResultSurvives ==
  /\ frame.kind = "fatal" => frame.rest > Cap \/ (frame.error > 0 /\ frame.rest + Mark > Cap)
  /\ frame.cut => frame.rest + frame.error > Cap

OutputHonest == StdoutHonest /\ WarningsOnce /\ ResultSurvives
=============================================================================
