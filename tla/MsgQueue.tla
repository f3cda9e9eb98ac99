------------------------------ MODULE MsgQueue ------------------------------
(***************************************************************************)
(* The directory a node tells its blocks to: RegulateWriteDir appends a    *)
(* block's messages to the newest backup file, and begins the next file    *)
(* every FILEHEIGHT blocks; the goroutine of FileDeleter removes the       *)
(* oldest file when its reader is done with it.  A write may fail, with    *)
(* nothing or a part of the line written; SendMsg calls WriteKV again.     *)
(* The process may crash at any time; the files outlive it, the block it   *)
(* had not committed is sent again.                                        *)
(*                                                                         *)
(* A message is <<height, k>>: k = 0 is the block's height_info, with      *)
(* which it begins, and the others are its events.  `files' holds what was *)
(* written in full; the part a failed write leaves is no message, `torn'   *)
(* has the places where one stands before a line, or for want of it.       *)
(***************************************************************************)
EXTENDS Integers, SequencesExt

CONSTANTS
  FILEHEIGHT,
  InitChainHeight,   \* genesis_block_height
  NumEvents,         \* events of a block
  MaxBlocks, MaxCrashes, MaxOpenFailures, MaxWriteFailures   \* bounds

ASSUME MsgQueueAssumption ==
  /\ FILEHEIGHT \in Nat \ {0} /\ InitChainHeight \in Nat /\ NumEvents \in Nat
  /\ MaxBlocks \in Nat /\ MaxCrashes \in Nat
  /\ MaxOpenFailures \in Nat /\ MaxWriteFailures \in Nat

VARIABLES
  files,        \* [a set of file indices -> Seq(message)]: the directory
  torn,         \* {<<file, line>>}: that line begins with a part of itself
  up,           \* the process runs
  fileIndex, handle,    \* dirMsgWriter's file: "open", or "closed"
  rolled,       \* this call of WriteKV has made the message's new file
  begun,        \* the block after height is being sent
  sending,      \* its messages that SendMsg has yet to write
  pruner,       \* the goroutine: [pc, height, file, least]
  height,       \* the last committed block
  done,         \* the highest block the reader was ever done with
  crashes, openFailures, writeFailures

writerVars == <<fileIndex, handle, rolled, begun, sending>>
faultVars == <<crashes, openFailures, writeFailures>>
queueVars == <<files, torn, up, writerVars, pruner, height, done, faultVars>>
-----------------------------------------------------------------------------
Block(h) == [k \in 1..(NumEvents + 1) |-> <<h, k - 1>>]

Idle == [pc |-> "receive", height |-> 0, file |-> 0, least |-> 0]

TimeToNewFile_LastMsg(m) ==
  /\ m[2] = NumEvents
  /\ m[1] # InitChainHeight + 1 /\ (m[1] - InitChainHeight - 1) % FILEHEIGHT = 0

\* timeToNewFile, of a message
TimeToNewFile(m) ==
  /\ m[2] = 0
  /\ m[1] # InitChainHeight + 1 /\ (m[1] - InitChainHeight - 1) % FILEHEIGHT = 0

ReopenedIndex_Min(fs) == IF fs = {} THEN 0 ELSE Min(fs)

\* getFilePathAndIndex
ReopenedIndex(fs) == IF fs = {} THEN 0 ELSE Max(fs)

TimeToRemove_OneFile(least, doneHeight) == doneHeight - least >= FILEHEIGHT

TimeToRemove(least, doneHeight) == doneHeight - least >= 2 * FILEHEIGHT

Ready_AsksAgain(m) == ~TimeToNewFile(m)

\* A call of WriteKV asks for a new file once, the next call of Retry asks again.
Ready(m) == rolled \/ ~TimeToNewFile(m)

\* the file has a first line, and getHeight can make sense of it
Readable(f) == files[f] # <<>> /\ <<f, 1>> \notin torn
-----------------------------------------------------------------------------
(* The chain, external: it sends a block's messages, then commits it. *)

BeginBlock ==
  /\ up /\ ~begun /\ height < InitChainHeight + MaxBlocks
  /\ begun' = TRUE /\ sending' = Block(height + 1)
  /\ UNCHANGED <<files, torn, up, fileIndex, handle, rolled, pruner, height, done, faultVars>>

\* WriteKV's first half: the new file.  When it cannot be opened, or the old one cannot
\* be closed, the old one is closed all the same, and Retry fails to close it for ever.
RollFile ==
  /\ up /\ sending # <<>> /\ handle = "open" /\ ~rolled /\ TimeToNewFile(Head(sending))
  /\ \/ /\ fileIndex' = fileIndex + 1 /\ rolled' = TRUE
        /\ files' = [i \in DOMAIN files \cup {fileIndex + 1} |->
                       IF i \in DOMAIN files THEN files[i] ELSE <<>>]
        /\ UNCHANGED <<handle, faultVars>>
     \/ /\ openFailures < MaxOpenFailures
        /\ openFailures' = openFailures + 1 /\ handle' = "closed"
        /\ UNCHANGED <<fileIndex, rolled, files, crashes, writeFailures>>
  /\ UNCHANGED <<torn, up, begun, sending, pruner, height, done>>

AtWrite == up /\ sending # <<>> /\ handle = "open" /\ Ready(Head(sending))

\* WriteKV's second half; what is written to a removed file is lost
WriteMsg ==
  /\ AtWrite
  /\ files' = [i \in DOMAIN files |->
                 IF i = fileIndex THEN Append(files[i], Head(sending)) ELSE files[i]]
  /\ rolled' = FALSE /\ sending' = Tail(sending)
  /\ UNCHANGED <<torn, up, fileIndex, handle, begun, pruner, height, done, faultVars>>

\* Write returns an error, so WriteKV does, and Retry will call it from its beginning:
\* where it has made a new file it is going to make another one.
WriteFails ==
  /\ AtWrite /\ writeFailures < MaxWriteFailures /\ writeFailures' = writeFailures + 1
  /\ \/ torn' = torn
     \/ torn' = torn \cup {<<fileIndex, Len(files[fileIndex]) + 1>>}
  /\ rolled' = FALSE
  /\ UNCHANGED <<files, up, fileIndex, handle, begun, sending, pruner, height, done,
                 crashes, openFailures>>

CommitBlock ==
  /\ up /\ begun /\ sending = <<>>
  /\ begun' = FALSE /\ height' = height + 1
  /\ UNCHANGED <<files, torn, up, fileIndex, handle, rolled, sending, pruner, done, faultVars>>
-----------------------------------------------------------------------------
(* FileDeleter *)

\* the reader is done with h blocks, of those committed; it may skip some
ReceiveHeight ==
  /\ up /\ pruner.pc = "receive"
  /\ \E h \in (InitChainHeight + 1)..height :
       /\ pruner' = [Idle EXCEPT !.pc = "look", !.height = h]
       /\ done' = Max({done, h})
  /\ UNCHANGED <<files, torn, up, writerVars, height, faultVars>>

\* getLeastHeightFileFromDir; it panics where there is no height to read
FindLeast ==
  /\ up /\ pruner.pc = "look"
  /\ LET f == Min(DOMAIN files)
     IN  /\ Readable(f)
         /\ pruner' = [pruner EXCEPT !.pc = "remove", !.file = f, !.least = files[f][1][1]]
  /\ UNCHANGED <<files, torn, up, writerVars, height, done, faultVars>>

RemoveFile ==
  /\ up /\ pruner.pc = "remove"
  /\ files' = IF TimeToRemove(pruner.least, pruner.height)
              THEN [i \in DOMAIN files \ {pruner.file} |-> files[i]] ELSE files
  /\ torn' = {t \in torn : t[1] \in DOMAIN files'}
  /\ pruner' = Idle
  /\ UNCHANGED <<up, writerVars, height, done, faultVars>>
-----------------------------------------------------------------------------
(* Faults *)

\* What the process leaves: files, and a chain that will send its block again.  The
\* goroutine's panic, at a file that is not Readable, is one such crash.
Crash ==
  /\ up /\ crashes < MaxCrashes /\ crashes' = crashes + 1
  /\ up' = FALSE /\ handle' = "closed" /\ rolled' = FALSE
  /\ begun' = FALSE /\ sending' = <<>> /\ pruner' = Idle
  /\ UNCHANGED <<files, torn, fileIndex, height, done, openFailures, writeFailures>>

\* NewRegulateWriteDir
Restart ==
  /\ ~up /\ up' = TRUE /\ handle' = "open"
  /\ fileIndex' = ReopenedIndex(DOMAIN files)
  /\ files' = IF DOMAIN files = {} THEN [i \in {0} |-> <<>>] ELSE files
  /\ UNCHANGED <<torn, rolled, begun, sending, pruner, height, done, faultVars>>
-----------------------------------------------------------------------------
QueueInit ==
  /\ files = <<>> /\ torn = {} /\ up = FALSE
  /\ fileIndex = 0 /\ handle = "closed" /\ rolled = FALSE /\ begun = FALSE /\ sending = <<>>
  /\ pruner = Idle /\ height = InitChainHeight /\ done = InitChainHeight
  /\ crashes = 0 /\ openFailures = 0 /\ writeFailures = 0

WriterStep == BeginBlock \/ RollFile \/ WriteMsg \/ WriteFails \/ CommitBlock

PrunerStep == ReceiveHeight \/ FindLeast \/ RemoveFile

QueueNext == WriterStep \/ PrunerStep \/ Crash \/ Restart

\* the writer is not kept from running by the goroutine
QueueSpec == QueueInit /\ [][QueueNext]_queueVars /\ WF_queueVars(WriterStep)
-----------------------------------------------------------------------------
CompleteIn(s, h) == \E i \in 1..(Len(s) - NumEvents) : SubSeq(s, i, i + NumEvents) = Block(h)

\* A committed block is in a file, each of its messages written in full and in one
\* piece, for as long as the reader has not been done with FILEHEIGHT blocks more:
\* whatever crashes, fails, is sent again, and is removed by the goroutine while the
\* writer works (prune_file.go:50-52, producer.go:113-123).
KeptUntilDone ==
  \A h \in (InitChainHeight + 1)..height :
    done - FILEHEIGHT < h => \E f \in DOMAIN files : CompleteIn(files[f], h)

Follows(m, n) ==
  \/ n = <<m[1], m[2] + 1>>
  \/ m[2] = NumEvents /\ n = <<m[1] + 1, 0>>
  \/ crashes > 0 /\ n = <<m[1], 0>>

WrittenAfter(f) == {g \in DOMAIN files : g > f /\ files[g] # <<>>}

\* The files, read by their index, tell the blocks in their order: a message is
\* followed by the next one of its block, by the next block's first, or, where the
\* process crashed, by the first message of the same block again
\* (msg_writer_dir.go:50-73, utils.go:28-38).
ToldInOrder ==
  \A f \in DOMAIN files : files[f] # <<>> =>
    /\ \A i \in 1..(Len(files[f]) - 1) : Follows(files[f][i], files[f][i + 1])
    /\ WrittenAfter(f) # {} => Follows(Last(files[f]), files[Min(WrittenAfter(f))][1])

\* the newest file, where its first line is still to be tried
AwaitsFirst(f) ==
  /\ f = fileIndex /\ files[f] = <<>> /\ <<f, 1>> \notin torn
  /\ rolled \/ height = InitChainHeight

Spoilt == {f \in DOMAIN files : ~Readable(f) /\ ~AwaitsFirst(f)}

\* A file begins with a block's height_info.  Each file in which the goroutine finds no
\* height to read, and at which its process panics at every start, stands for a fault of
\* its own: a crash between a file's creation and its first line, or a write that failed,
\* also in a process that has never crashed.  The goroutine never looks at a file that
\* is just being begun (utils.go:105-137).
HeightReadable ==
  /\ \A f \in DOMAIN files : files[f] # <<>> => files[f][1][2] = 0
  /\ Cardinality(Spoilt) <= crashes + writeFailures
  /\ pruner.pc = "look" => ~AwaitsFirst(Min(DOMAIN files))

\* A write that fails is tried again until the block's messages are all written, but for
\* a crash and for a writer that is left without an open file (producer.go:113-123, 145-154).
BlockSent == begun ~> ~begun \/ handle = "closed"
=============================================================================
