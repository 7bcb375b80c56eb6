-------------------------------- MODULE Pipe --------------------------------
(***************************************************************************)
(* PipeDescriptor of kernel/terminal.cpp: the terminal task on the left of *)
(* a "|" writes, and sends its bytes in kPipe messages to the task on the  *)
(* right, which reads them from its own message queue.  Each message is    *)
(* sent under one cli, so sending one is an action, and the timer may      *)
(* switch tasks between any two.                                           *)
(*                                                                         *)
(* The reader reads until the end of input, as cat, grep, sort and more    *)
(* do.  (A reader that exits before leaves the writer with a dangling      *)
(* task_: see the README.)  A byte is its position in the stream; the      *)
(* field at of a message, the number of bytes sent before it, is           *)
(* bookkeeping of the model.                                               *)
(***************************************************************************)
EXTENDS Integers, Sequences

CONSTANTS kChunk,      \* sizeof(msg.arg.pipe.data), 16 in the source
          WriteSizes,  \* lengths passed to Write
          ReadSizes,   \* lengths passed to Read
          MaxBytes,    \* bound: bytes written in a behaviour
          MaxMsgs      \* bound: messages queued when another kind arrives

ASSUME PipeAssumption ==
  /\ kChunk \in Nat \ {0}
  /\ WriteSizes \subseteq Nat
  /\ ReadSizes \subseteq Nat \ {0}
  /\ MaxBytes \in Nat
  /\ MaxMsgs \in Nat

VARIABLES
  todo,       \* bytes of the running Write not yet sent
  next,       \* bytes sent so far
  finished,   \* FinishWrite has been called
  msgs_,      \* the reader task's queue
  asleep,     \* the reader task sleeps
  data_,      \* data_[0..len_-1]: the rest of the last message
  closed_,
  reading,    \* len of the Read that waits for a message (0: none)
  delivered,  \* what the calls of Read have returned so far
  eof         \* a call of Read has returned 0

pipeVars == <<todo, next, finished, msgs_, asleep, data_, closed_, reading, delivered, eof>>

PipeMessages == [type : {"kPipe", "other"}, data : Seq(Nat), at : Nat]
Smaller(a, b) == IF a < b THEN a ELSE b

PipeInit ==
  /\ todo = 0 /\ next = 0 /\ finished = FALSE
  /\ msgs_ = <<>> /\ asleep = FALSE
  /\ data_ = <<>> /\ closed_ = FALSE
  /\ reading = 0 /\ delivered = <<>> /\ eof = FALSE

-----------------------------------------------------------------------------
(* The writer. *)

\* Mutant of SendMessage: the reader is not woken.
SendWithoutWakeup(type, data) ==
  /\ msgs_' = Append(msgs_, [type |-> type, data |-> data, at |-> next])
  /\ UNCHANGED asleep

\* Task::SendMessage: push, then wake the reader.
SendMessage(type, data) ==
  /\ msgs_' = Append(msgs_, [type |-> type, data |-> data, at |-> next])
  /\ asleep' = FALSE

Write(len) ==
  /\ todo = 0 /\ ~finished
  /\ len > 0 /\ next + len <= MaxBytes
  /\ todo' = len
  /\ UNCHANGED <<next, finished, msgs_, asleep, data_, closed_, reading, delivered, eof>>

\* One turn of the loop of Write.
WriteChunk ==
  LET len == Smaller(todo, kChunk)
  IN  /\ todo > 0
      /\ SendMessage("kPipe", [i \in 1 .. len |-> next + i])
      /\ todo' = todo - len
      /\ next' = next + len
      /\ UNCHANGED <<finished, data_, closed_, reading, delivered, eof>>

\* ExecuteLine, when the command on the left has ended.
FinishWrite ==
  /\ todo = 0 /\ ~finished
  /\ SendMessage("kPipe", <<>>)
  /\ finished' = TRUE
  /\ UNCHANGED <<todo, next, data_, closed_, reading, delivered, eof>>

\* A key or a timer: the reader owns the keyboard while the pipe is open.
OtherMessage ==
  /\ Len(msgs_) < MaxMsgs
  /\ SendMessage("other", <<>>)
  /\ UNCHANGED <<todo, next, finished, data_, closed_, reading, delivered, eof>>

-----------------------------------------------------------------------------
(* The reader. *)

\* Mutant of Copy: what does not fit into the caller's buffer is dropped.
CopyDropsRest(bytes, len) ==
  LET n == Smaller(len, Len(bytes))
  IN  /\ delivered' = delivered \o SubSeq(bytes, 1, n)
      /\ data_' = <<>>

\* Copying min(len, available) bytes to the caller and keeping the rest.
Copy(bytes, len) ==
  LET n == Smaller(len, Len(bytes))
  IN  /\ delivered' = delivered \o SubSeq(bytes, 1, n)
      /\ data_' = SubSeq(bytes, n + 1, Len(bytes))

\* Read up to its loop.
Read(len) ==
  /\ reading = 0
  /\ IF data_ # <<>> THEN Copy(data_, len) /\ UNCHANGED <<reading, eof>>
     ELSE IF closed_ THEN eof' = TRUE /\ UNCHANGED <<data_, delivered, reading>>
     ELSE reading' = len /\ UNCHANGED <<data_, delivered, eof>>
  /\ UNCHANGED <<todo, next, finished, msgs_, asleep, closed_>>

\* One turn of the loop: no message, a message of another kind, the end of
\* input, or data.
ReadSleep ==
  /\ reading > 0 /\ ~asleep
  /\ msgs_ = <<>>
  /\ asleep' = TRUE
  /\ UNCHANGED <<todo, next, finished, msgs_, data_, closed_, reading, delivered, eof>>

ReadMessage ==
  /\ reading > 0 /\ ~asleep
  /\ msgs_ # <<>>
  /\ msgs_' = Tail(msgs_)
  /\ LET msg == Head(msgs_)
     IN  \/ /\ msg.type # "kPipe"
            /\ UNCHANGED <<data_, closed_, reading, delivered, eof>>
         \/ /\ msg.type = "kPipe" /\ msg.data = <<>>
            /\ closed_' = TRUE /\ eof' = TRUE /\ reading' = 0
            /\ UNCHANGED <<data_, delivered>>
         \/ /\ msg.type = "kPipe" /\ msg.data # <<>>
            /\ Copy(msg.data, reading) /\ reading' = 0
            /\ UNCHANGED <<closed_, eof>>
  /\ UNCHANGED <<todo, next, finished, asleep>>

Writes == WriteChunk \/ FinishWrite \/ \E len \in WriteSizes : Write(len)
Reads == ReadSleep \/ ReadMessage \/ \E len \in ReadSizes : Read(len)
PipeNext == Writes \/ Reads \/ OtherMessage

PipeSpec == PipeInit /\ [][PipeNext]_pipeVars

\* Both commands run on: the writer's Write goes on and ends, the reader
\* calls Read again (round robin at the same level, see TaskManager).
FairPipeSpec == PipeSpec /\ WF_pipeVars(WriteChunk) /\ WF_pipeVars(Reads)

-----------------------------------------------------------------------------
(* Properties. *)

PipeTypeOK ==
  /\ todo \in Nat /\ next \in Nat /\ next + todo <= MaxBytes
  /\ finished \in BOOLEAN /\ asleep \in BOOLEAN /\ closed_ \in BOOLEAN /\ eof \in BOOLEAN
  /\ msgs_ \in Seq(PipeMessages)
  /\ data_ \in Seq(Nat)
  /\ reading \in ReadSizes \cup {0}
  /\ delivered \in Seq(Nat)

\* The pipe is a channel: whatever the sizes of writes and reads, and
\* whatever other messages arrive in between, no byte is lost, repeated or
\* reordered, and the end of input is not reported early.
Channel == INSTANCE ByteChannel WITH sent <- next, closed <- finished
PipeIsChannel == Channel!Spec

\* When the writer has finished, the reader sees the end of input, with
\* everything that was written delivered before.
EndOfInputSeen == finished ~> (eof /\ Len(delivered) = next)
=============================================================================
