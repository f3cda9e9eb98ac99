---------------------------- MODULE QueueProofs ----------------------------
(***************************************************************************)
(* The message queue keeps what its reader may still ask for, tells it in  *)
(* order, and has no more files without a readable height than there were  *)
(* faults.                                                                 *)
(*                                                                         *)
(* The argument rests on the spans of the files: no height that begins a   *)
(* new file lies within a file but for the first, so a file spans at most  *)
(* FILEHEIGHT heights; the goroutine, which waits for 2 * FILEHEIGHT,      *)
(* removes neither what is wanted nor the file that is being written.      *)
(***************************************************************************)
EXTENDS MsgQueue, SumLemmas

Messages == Nat \X (0..NumEvents)

\* a height with which a new file begins
Turn(r) == (r - InitChainHeight - 1) % FILEHEIGHT = 0

\* how many messages of the block that is sent are written
Written == IF begun THEN NumEvents + 1 - Len(sending) ELSE 0

\* block h stands in s from p on
StandsAt(s, p, h) ==
  /\ p \in 1..(Len(s) - NumEvents)
  /\ \A k \in 0..NumEvents : s[p + k] = <<h, k>>

\* f is the last file that has anything written
LastWritten(f) ==
  /\ f \in DOMAIN files /\ files[f] # <<>>
  /\ \A g \in DOMAIN files : g > f => files[g] = <<>>

QueueTypes ==
  /\ files \in [DOMAIN files -> Seq(Messages)] /\ DOMAIN files \subseteq Nat
  /\ torn \subseteq (DOMAIN files) \X Nat
  /\ fileIndex \in Nat /\ crashes \in Nat /\ writeFailures \in Nat
  /\ height \in Nat /\ InitChainHeight <= height
  /\ done \in Nat /\ InitChainHeight <= done /\ done <= height

\* dirMsgWriter's file is the newest one of the directory
NewestFile ==
  /\ DOMAIN files # {} => fileIndex \in DOMAIN files /\ \A i \in DOMAIN files : i <= fileIndex
  /\ DOMAIN files = {} => ~up /\ height = InitChainHeight
  /\ ~up => ~begun
  /\ ~up /\ crashes = 0 => DOMAIN files = {}

\* what of the block height + 1 is still to be sent, and where the rest is
SendingBlock ==
  /\ sending \in Seq(Messages) /\ Len(sending) <= NumEvents + 1
  /\ begun => \A j \in 1..Len(sending) : sending[j] = <<height + 1, Written + j - 1>>
  /\ ~begun => sending = <<>>
  /\ rolled => /\ begun /\ Written = 0 /\ files[fileIndex] = <<>>
               /\ InitChainHeight < height /\ Turn(height + 1)
  /\ Written > 0 =>
       /\ Written <= Len(files[fileIndex])
       /\ \A k \in 0..(Written - 1) :
            files[fileIndex][Len(files[fileIndex]) - Written + 1 + k] = <<height + 1, k>>

\* a file begins with a block and ends before the next file's height
FileSpans ==
  \A f \in DOMAIN files : files[f] # <<>> =>
    /\ files[f][1][2] = 0
    /\ \A i \in 1..Len(files[f]) :
         /\ InitChainHeight < files[f][i][1] /\ files[f][1][1] <= files[f][i][1]
         /\ \A r \in Nat : files[f][1][1] < r /\ r <= files[f][i][1] => ~Turn(r)

ToldWithin ==
  \A f \in DOMAIN files : \A i \in 1..(Len(files[f]) - 1) : Follows(files[f][i], files[f][i + 1])

ToldAcross ==
  \A f, g \in DOMAIN files :
    /\ f < g /\ files[f] # <<>> /\ files[g] # <<>>
    /\ \A e \in DOMAIN files : f < e /\ e < g => files[e] = <<>>
    => Follows(files[f][Len(files[f])], files[g][1])

\* the last message is the one before the next to be written, or a crash has cut it off
LastTold ==
  Written = 0 => \A f \in DOMAIN files : LastWritten(f) =>
    LET m == files[f][Len(files[f])]
    IN  m = <<height, NumEvents>> \/ (crashes > 0 /\ m[1] = height + 1)

KeptAt ==
  \A h \in (InitChainHeight + 1)..height :
    done - FILEHEIGHT < h => \E f \in DOMAIN files : \E p \in Nat : StandsAt(files[f], p, h)

PrunerKnows ==
  /\ pruner \in [pc : {"receive", "look", "remove"}, height : Nat, file : Nat, least : Nat]
  /\ pruner.pc # "receive" => up /\ pruner.height \in (InitChainHeight + 1)..done
  /\ pruner.pc = "remove" =>
       /\ pruner.file \in DOMAIN files /\ \A i \in DOMAIN files : pruner.file <= i
       /\ files[pruner.file] # <<>> /\ pruner.least = files[pruner.file][1][1]

\* a file that is not readable stands for a fault of its own
FewSpoilt == Cardinality(Spoilt) <= crashes + writeFailures

QInv ==
  /\ QueueTypes /\ NewestFile /\ SendingBlock /\ FileSpans /\ ToldWithin /\ ToldAcross
  /\ LastTold /\ KeptAt /\ PrunerKnows /\ FewSpoilt
-----------------------------------------------------------------------------
(* Facts about the operators *)

LEMMA LeastIndex ==
  ASSUME NEW S \in SUBSET Nat, S # {}
  PROVE Min(S) \in S /\ \A j \in S : Min(S) <= j
<1>1. PICK n \in S : TRUE
  OBVIOUS
<1> DEFINE T == {k \in 1..(n + 1) : k - 1 \in S}
<1>2. T \in SUBSET (1..(n + 1)) /\ n + 1 \in T
  BY <1>1
<1>3. PICK k \in T : \A j \in T : k <= j
  <2> HIDE DEF T
  <2>1. n + 1 \in Nat /\ T # {}
    BY <1>1, <1>2
  <2> QED BY <1>2, <2>1, SmallestOf
<1>4. k - 1 \in S /\ \A j \in S : k - 1 <= j
  <2>1. k - 1 \in S /\ k \in 1..(n + 1)
    BY <1>3
  <2>2. ASSUME NEW j \in S PROVE k - 1 <= j
    <3>1. CASE j <= n
      BY <1>3, <3>1
    <3>2. CASE ~(j <= n)
      BY <2>1, <3>2
    <3> QED BY <3>1, <3>2
  <2> QED BY <2>1, <2>2
<1> QED BY <1>4 DEF Min

LEMMA GreatestIndex ==
  ASSUME NEW S \in SUBSET Nat, NEW n \in S, \A j \in S : j <= n
  PROVE Max(S) = n
<1>1. \A k \in S : (\A y \in S : k >= y) => k = n
  OBVIOUS
<1>2. \A y \in S : n >= y
  OBVIOUS
<1> QED BY <1>1, <1>2 DEF Max

\* Among FILEHEIGHT heights that follow each other one begins a new file.
LEMMA TurnWithin ==
  ASSUME NEW b \in Nat, InitChainHeight < b
  PROVE \E r \in Nat : b < r /\ r <= b + FILEHEIGHT /\ Turn(r)
<1> DEFINE F == FILEHEIGHT
           a == b - InitChainHeight - 1
           q == a \div F
           r == F * (q + 1) + InitChainHeight + 1
<1>0. F \in Nat \ {0} /\ InitChainHeight \in Nat /\ a \in Nat
  BY MsgQueueAssumption
<1> HIDE DEF a, F
<1>1. q \in Nat /\ a = F * q + (a % F) /\ a % F \in 0..(F - 1)
  BY <1>0
<1> HIDE DEF q
<1>2. F * (q + 1) = F * q + F /\ F * q \in Nat
  BY <1>0, <1>1
<1>3. (F * (q + 1)) % F = 0
  BY <1>0, <1>1
<1>4. r \in Nat /\ b < r /\ r <= b + F /\ r - InitChainHeight - 1 = F * (q + 1)
  BY <1>0, <1>1, <1>2 DEF a
<1> QED BY <1>3, <1>4 DEF Turn, F

LEMMA BlockFacts ==
  ASSUME NEW h \in Nat
  PROVE /\ Block(h) \in Seq(Messages) /\ Len(Block(h)) = NumEvents + 1
        /\ \A j \in 1..(NumEvents + 1) : Block(h)[j] = <<h, j - 1>>
<1>1. NumEvents \in Nat
  BY MsgQueueAssumption
<1>2. Block(h) \in [1..(NumEvents + 1) -> Messages]
  BY <1>1 DEF Block, Messages
<1>3. Block(h) \in Seq(Messages) /\ Len(Block(h)) = NumEvents + 1
  BY <1>1, <1>2
<1> QED BY <1>3 DEF Block

LEMMA StandsComplete ==
  ASSUME NEW s \in Seq(Messages), NEW h \in Nat, NEW p \in Nat, StandsAt(s, p, h)
  PROVE CompleteIn(s, h)
<1> DEFINE t == SubSeq(s, p, p + NumEvents)
<1>0. NumEvents \in Nat /\ p \in 1..(Len(s) - NumEvents) /\ Len(s) \in Nat
  BY MsgQueueAssumption DEF StandsAt
<1>1. \A i \in p..(p + NumEvents) : s[i] \in Messages
  BY <1>0
<1>2. /\ t \in Seq(Messages) /\ Len(t) = NumEvents + 1
      /\ \A i \in 1..(NumEvents + 1) : t[i] = s[p + i - 1]
  BY <1>0, <1>1, SubSeqProperties
<1> HIDE DEF t
<1>3. ASSUME NEW i \in 1..(NumEvents + 1) PROVE t[i] = <<h, i - 1>>
  <2>1. i - 1 \in 0..NumEvents /\ p + (i - 1) = p + i - 1
    BY <1>0
  <2> QED BY <1>2, <2>1 DEF StandsAt
<1>4. t \in [1..(NumEvents + 1) -> Messages]
  BY <1>2, LenProperties
<1>5. t = Block(h)
  BY <1>3, <1>4 DEF Block
<1> QED BY <1>0, <1>5 DEF CompleteIn, t

\* A message more leaves what is written where it is.
LEMMA StandsAfterAppend ==
  ASSUME NEW s \in Seq(Messages), NEW m \in Messages, NEW h \in Nat, NEW p \in Nat, StandsAt(s, p, h)
  PROVE StandsAt(Append(s, m), p, h)
<1> DEFINE t == Append(s, m)
<1>1. Len(t) = Len(s) + 1 /\ Len(s) \in Nat /\ NumEvents \in Nat
  BY AppendProperties, MsgQueueAssumption
<1>2. \A i \in 1..Len(s) : t[i] = s[i]
  BY AppendProperties
<1> HIDE DEF t
<1>3. p \in 1..(Len(t) - NumEvents)
  BY <1>1 DEF StandsAt
<1>4. ASSUME NEW k \in 0..NumEvents PROVE t[p + k] = <<h, k>>
  <2>1. p + k \in 1..Len(s)
    BY <1>1 DEF StandsAt
  <2> QED BY <1>2, <2>1 DEF StandsAt
<1> QED BY <1>3, <1>4 DEF StandsAt, t
\* Counting the files whose height cannot be read
LEMMA SpoiltFinite ==
  ASSUME QueueTypes, NewestFile
  PROVE IsFiniteSet(Spoilt)
<1>1. DOMAIN files \subseteq 0..fileIndex /\ fileIndex \in Nat
  BY DEF QueueTypes, NewestFile
<1>2. Spoilt \in SUBSET (0..fileIndex)
  BY <1>1 DEF Spoilt
<1>3. IsFiniteSet(0..fileIndex)
  BY <1>1, FS_Interval
<1> QED BY <1>2, <1>3, FS_Subset

LEMMA FewStay ==
  ASSUME QueueTypes, NewestFile, FewSpoilt, Spoilt' \subseteq Spoilt,
         crashes' \in Nat, crashes <= crashes',
         writeFailures' \in Nat, writeFailures <= writeFailures'
  PROVE FewSpoilt'
<1> DEFINE S == Spoilt
           T == Spoilt'
<1>1. IsFiniteSet(S)
  BY SpoiltFinite
<1> HIDE DEF S, T
<1>2. T \in SUBSET S
  BY DEF S, T
<1>3. IsFiniteSet(T) /\ Cardinality(T) <= Cardinality(S)
  BY <1>1, <1>2, FS_Subset
<1>4. Cardinality(T) \in Nat /\ Cardinality(S) \in Nat
  BY <1>1, <1>3, FS_CardinalityType
<1>5. Cardinality(S) <= crashes + writeFailures /\ crashes \in Nat /\ writeFailures \in Nat
  BY DEF FewSpoilt, QueueTypes, S
<1>6. Cardinality(T) <= crashes' + writeFailures'
  BY <1>3, <1>4, <1>5
<1> QED BY <1>6 DEF FewSpoilt, T

\* A fault spoils one file at most.
LEMMA FewGrow ==
  ASSUME QueueTypes, NewestFile, FewSpoilt, NEW x, Spoilt' \subseteq Spoilt \cup {x},
         crashes' + writeFailures' = crashes + writeFailures + 1
  PROVE FewSpoilt'
<1> DEFINE S == Spoilt
           T == Spoilt'
           n == crashes + writeFailures
<1>1. IsFiniteSet(S)
  BY SpoiltFinite
<1> HIDE DEF S, T
<1>2. T \in SUBSET (S \cup {x})
  BY DEF S, T
<1>3. IsFiniteSet(S \cup {x}) /\ Cardinality(S \cup {x}) <= Cardinality(S) + 1
  <2>1. Cardinality(S) \in Nat
    BY <1>1, FS_CardinalityType
  <2> QED BY <1>1, <2>1, FS_AddElement
<1>4. IsFiniteSet(T) /\ Cardinality(T) <= Cardinality(S \cup {x})
  BY <1>2, <1>3, FS_Subset
<1>5. Cardinality(T) \in Nat /\ Cardinality(S) \in Nat /\ Cardinality(S \cup {x}) \in Nat
  BY <1>1, <1>3, <1>4, FS_CardinalityType
<1>6. Cardinality(S) <= n /\ n \in Nat
  BY DEF FewSpoilt, QueueTypes, S
<1> HIDE DEF n
<1>7. Cardinality(T) <= n + 1
  BY <1>3, <1>4, <1>5, <1>6
<1> QED BY <1>7 DEF FewSpoilt, T, n

LEMMA SpoiltStay ==
  ASSUME files' = files, torn' = torn, fileIndex' = fileIndex, rolled' = rolled, height' = height
  PROVE Spoilt' = Spoilt
BY DEF Spoilt, Readable, AwaitsFirst
-----------------------------------------------------------------------------
(* The steps of the chain *)

\* A step that leaves the files and the counters of faults alone.
LEMMA SameFiles ==
  ASSUME QueueTypes, files' = files, crashes' \in Nat, crashes <= crashes'
  PROVE /\ FileSpans => FileSpans'
        /\ ToldWithin => ToldWithin'
        /\ ToldAcross => ToldAcross'
<1>0. crashes \in Nat
  BY DEF QueueTypes
<1>1. \A m, n : Follows(m, n) => Follows(m, n)'
  BY <1>0 DEF Follows
<1>2. FileSpans => FileSpans'
  BY DEF FileSpans, Turn
<1>3. ToldWithin => ToldWithin'
  <2> SUFFICES ASSUME ToldWithin, NEW f \in DOMAIN files, NEW i \in 1..(Len(files[f]) - 1)
               PROVE Follows(files[f][i], files[f][i + 1])'
    BY DEF ToldWithin
  <2> QED BY <1>1 DEF ToldWithin
<1>4. ToldAcross => ToldAcross'
  <2> SUFFICES ASSUME ToldAcross, NEW f \in DOMAIN files, NEW g \in DOMAIN files,
                      f < g, files[f] # <<>>, files[g] # <<>>,
                      \A e \in DOMAIN files : f < e /\ e < g => files[e] = <<>>
               PROVE Follows(files[f][Len(files[f])], files[g][1])'
    BY DEF ToldAcross
  <2> QED BY <1>1 DEF ToldAcross
<1> QED BY <1>2, <1>3, <1>4

LEMMA BeginBlockInv ==
  ASSUME QInv, BeginBlock
  PROVE QInv'
<1>0. /\ up /\ ~begun /\ begun' = TRUE /\ sending' = Block(height + 1)
      /\ files' = files /\ up' = up /\ fileIndex' = fileIndex /\ rolled' = rolled
      /\ pruner' = pruner /\ height' = height /\ done' = done /\ crashes' = crashes
      /\ torn' = torn /\ writeFailures' = writeFailures
  BY DEF BeginBlock, faultVars
<1>1. /\ QueueTypes /\ NewestFile /\ SendingBlock /\ FileSpans /\ ToldWithin /\ ToldAcross
      /\ LastTold /\ KeptAt /\ PrunerKnows /\ FewSpoilt
  BY DEF QInv
<1>2. height + 1 \in Nat /\ NumEvents \in Nat /\ crashes \in Nat
  BY <1>1, MsgQueueAssumption DEF QueueTypes
<1>3. /\ Block(height + 1) \in Seq(Messages) /\ Len(Block(height + 1)) = NumEvents + 1
      /\ \A j \in 1..(NumEvents + 1) : Block(height + 1)[j] = <<height + 1, j - 1>>
  BY <1>2, BlockFacts
<1>4. Written = 0 /\ Written' = 0
  BY <1>0, <1>2, <1>3 DEF Written
<1>5. QueueTypes'
  BY <1>0, <1>1 DEF QueueTypes
<1>6. NewestFile'
  BY <1>0, <1>1 DEF NewestFile
<1>7. SendingBlock'
  <2>1. ~rolled
    BY <1>0, <1>1 DEF SendingBlock
  <2> QED BY <1>0, <1>2, <1>3, <1>4, <2>1 DEF SendingBlock
<1>8. FileSpans' /\ ToldWithin' /\ ToldAcross'
  BY <1>0, <1>1, <1>2, SameFiles
<1>9. LastTold'
  BY <1>0, <1>1, <1>4 DEF LastTold, LastWritten
<1>10. KeptAt'
  BY <1>0, <1>1 DEF KeptAt, StandsAt
<1>11. PrunerKnows'
  BY <1>0, <1>1 DEF PrunerKnows
<1>12. FewSpoilt'
  BY <1>1, <1>0, SpoiltStay, FewStay DEF QueueTypes
<1> QED BY <1>5, <1>6, <1>7, <1>8, <1>9, <1>10, <1>11, <1>12 DEF QInv

LEMMA CommitBlockInv ==
  ASSUME QInv, CommitBlock
  PROVE QInv'
<1>0. /\ up /\ begun /\ sending = <<>> /\ begun' = FALSE /\ sending' = sending /\ height' = height + 1
      /\ files' = files /\ up' = up /\ fileIndex' = fileIndex /\ rolled' = rolled
      /\ pruner' = pruner /\ done' = done /\ crashes' = crashes
      /\ torn' = torn /\ writeFailures' = writeFailures
  BY DEF CommitBlock, faultVars
<1>1. /\ QueueTypes /\ NewestFile /\ SendingBlock /\ FileSpans /\ ToldWithin /\ ToldAcross
      /\ LastTold /\ KeptAt /\ PrunerKnows /\ FewSpoilt
  BY DEF QInv
<1>2. /\ height \in Nat /\ height + 1 \in Nat /\ NumEvents \in Nat /\ crashes \in Nat /\ fileIndex \in Nat
      /\ InitChainHeight \in Nat /\ InitChainHeight <= height /\ done \in Nat /\ done <= height
  BY <1>1, MsgQueueAssumption DEF QueueTypes
<1>3. Written = NumEvents + 1 /\ Written > 0 /\ Written' = 0
  <2>1. Len(sending) = 0
    BY <1>0
  <2> QED BY <1>0, <1>2, <2>1 DEF Written
<1> DEFINE s == files[fileIndex]
           p == Len(s) - NumEvents
<1>4. fileIndex \in DOMAIN files /\ s \in Seq(Messages) /\ Len(s) \in Nat
  <2>1. fileIndex \in DOMAIN files
    BY <1>0, <1>1 DEF NewestFile
  <2> QED BY <1>1, <2>1 DEF QueueTypes
<1>5. /\ NumEvents + 1 <= Len(s) /\ p \in Nat /\ ~rolled /\ s # <<>>
      /\ StandsAt(s, p, height + 1) /\ s[Len(s)] = <<height + 1, NumEvents>>
  <2>1. /\ Written <= Len(s)
        /\ \A k \in 0..(Written - 1) : s[Len(s) - Written + 1 + k] = <<height + 1, k>>
        /\ ~rolled
    BY <1>1, <1>3 DEF SendingBlock
  <2> HIDE DEF s
  <2>2. NumEvents + 1 <= Len(s) /\ p \in 1..(Len(s) - NumEvents) /\ p \in Nat /\ s # <<>>
    BY <1>2, <1>3, <1>4, <2>1
  <2>3. \A k \in 0..NumEvents : s[p + k] = <<height + 1, k>>
    <3> SUFFICES ASSUME NEW k \in 0..NumEvents PROVE s[p + k] = <<height + 1, k>>
      OBVIOUS
    <3>1. Len(s) - Written + 1 + k = p + k /\ k \in 0..(Written - 1)
      BY <1>2, <1>3, <1>4
    <3> QED BY <2>1, <3>1
  <2>4. NumEvents \in 0..NumEvents /\ p + NumEvents = Len(s)
    BY <1>2, <1>4
  <2>5. s[Len(s)] = <<height + 1, NumEvents>>
    BY <2>3, <2>4
  <2> QED BY <2>1, <2>2, <2>3, <2>5 DEF StandsAt
<1> HIDE DEF p
<1>6. QueueTypes'
  BY <1>0, <1>1, <1>2 DEF QueueTypes
<1>7. NewestFile'
  BY <1>0, <1>1, <1>4 DEF NewestFile
<1>8. SendingBlock'
  BY <1>0, <1>1, <1>2, <1>3, <1>5 DEF SendingBlock
<1>9. FileSpans' /\ ToldWithin' /\ ToldAcross'
  BY <1>0, <1>1, <1>2, SameFiles
<1>10. LastTold'
  <2> SUFFICES ASSUME NEW f \in DOMAIN files, LastWritten(f)'
               PROVE files[f][Len(files[f])] = <<height + 1, NumEvents>>
    BY <1>0 DEF LastTold
  <2>1. f <= fileIndex /\ f \in Nat /\ LastWritten(f)
    BY <1>0, <1>1 DEF NewestFile, QueueTypes, LastWritten
  <2>2. f = fileIndex
    BY <1>2, <1>4, <1>5, <2>1 DEF LastWritten
  <2> QED BY <1>5, <2>2
<1>11. KeptAt'
  <2> SUFFICES ASSUME NEW h \in (InitChainHeight + 1)..(height + 1), done - FILEHEIGHT < h
               PROVE \E f \in DOMAIN files : \E i \in Nat : StandsAt(files[f], i, h)
    BY <1>0 DEF KeptAt, StandsAt
  <2>1. CASE h = height + 1
    BY <1>4, <1>5, <2>1
  <2>2. CASE h # height + 1
    <3>1. h \in (InitChainHeight + 1)..height
      BY <1>2, <2>2
    <3> QED BY <1>1, <3>1 DEF KeptAt
  <2> QED BY <2>1, <2>2
<1>12. PrunerKnows'
  BY <1>0, <1>1 DEF PrunerKnows
<1>13. FewSpoilt'
  <2>1. Spoilt' \subseteq Spoilt
    BY <1>0, <1>5 DEF Spoilt, Readable, AwaitsFirst
  <2> QED BY <1>0, <1>1, <2>1, FewStay DEF QueueTypes
<1> QED BY <1>6, <1>7, <1>8, <1>9, <1>10, <1>11, <1>12, <1>13 DEF QInv

\* A new file, which is empty, and the block's height with which it begins.
LEMMA NewFileInv ==
  ASSUME QInv, up, sending # <<>>, ~rolled, TimeToNewFile(Head(sending)),
         fileIndex' = fileIndex + 1, rolled' = TRUE,
         files' = [i \in DOMAIN files \cup {fileIndex + 1} |->
                     IF i \in DOMAIN files THEN files[i] ELSE <<>>],
         UNCHANGED <<up, torn, begun, sending, pruner, height, done, crashes, writeFailures>>
  PROVE QInv'
<1>1. /\ QueueTypes /\ NewestFile /\ SendingBlock /\ FileSpans /\ ToldWithin /\ ToldAcross
      /\ LastTold /\ KeptAt /\ PrunerKnows /\ FewSpoilt
  BY DEF QInv
<1>2. /\ height \in Nat /\ NumEvents \in Nat /\ crashes \in Nat /\ fileIndex \in Nat
      /\ InitChainHeight \in Nat /\ InitChainHeight <= height
  BY <1>1, MsgQueueAssumption DEF QueueTypes
<1> DEFINE n == fileIndex + 1
<1>3. /\ fileIndex \in DOMAIN files /\ n \notin DOMAIN files /\ n \in Nat
      /\ DOMAIN files \subseteq Nat /\ \A i \in DOMAIN files : i <= fileIndex /\ i < n
  <2>1. DOMAIN files # {}
    BY <1>1 DEF NewestFile
  <2>2. fileIndex \in DOMAIN files /\ DOMAIN files \subseteq Nat /\ \A i \in DOMAIN files : i <= fileIndex
    BY <1>1, <2>1 DEF NewestFile, QueueTypes
  <2>3. \A i \in DOMAIN files : i \in Nat /\ i < n
    BY <1>2, <2>2
  <2>4. n \in Nat /\ ~(n < n)
    BY <1>2
  <2> QED BY <2>2, <2>3, <2>4
<1>4. /\ DOMAIN files' = DOMAIN files \cup {n} /\ files'[n] = <<>>
      /\ \A i \in DOMAIN files : files'[i] = files[i]
  BY <1>3
<1>5. /\ up' = up /\ begun' = begun /\ sending' = sending /\ pruner' = pruner
      /\ height' = height /\ done' = done /\ crashes' = crashes
      /\ torn' = torn /\ writeFailures' = writeFailures
  OBVIOUS
<1>6. begun /\ Written = 0 /\ Written' = 0 /\ InitChainHeight < height /\ Turn(height + 1)
  <2>1. begun
    BY <1>1 DEF SendingBlock
  <2>2. /\ sending \in Seq(Messages) /\ Len(sending) <= NumEvents + 1 /\ Len(sending) \in Nat
        /\ 1 \in 1..Len(sending) /\ Head(sending) = sending[1]
    BY <1>1 DEF SendingBlock
  <2>3. Written = NumEvents + 1 - Len(sending)
    BY <2>1 DEF Written
  <2>4. sending[1] = <<height + 1, Written + 1 - 1>>
    BY <1>1, <2>1, <2>2 DEF SendingBlock
  <2>5. Written = 0 /\ height + 1 # InitChainHeight + 1 /\ Turn(height + 1)
    BY <1>2, <2>2, <2>3, <2>4 DEF TimeToNewFile, Turn
  <2>6. Written' = Written
    BY <1>5 DEF Written
  <2> QED BY <1>2, <2>1, <2>5, <2>6
<1> HIDE DEF n
<1>7. QueueTypes'
  <2>1. files' \in [DOMAIN files' -> Seq(Messages)]
    <3>1. <<>> \in Seq(Messages)
      OBVIOUS
    <3>2. \A i \in DOMAIN files' : files'[i] \in Seq(Messages)
      BY <1>1, <1>4, <3>1 DEF QueueTypes
    <3>3. files' = [i \in DOMAIN files' |-> files'[i]]
      BY <1>4
    <3> QED BY <3>2, <3>3
  <2>2. DOMAIN files' \subseteq Nat /\ fileIndex' \in Nat
    BY <1>2, <1>3, <1>4 DEF n
  <2>3. torn' \subseteq (DOMAIN files') \X Nat
    BY <1>1, <1>4, <1>5 DEF QueueTypes
  <2> QED BY <1>1, <1>5, <2>1, <2>2, <2>3 DEF QueueTypes
<1>8. NewestFile'
  <2>1. fileIndex' = n /\ up'
    BY <1>5 DEF n
  <2>2. \A i \in DOMAIN files' : i <= n
    BY <1>3, <1>4
  <2> QED BY <1>4, <2>1, <2>2 DEF NewestFile
<1>9. SendingBlock'
  <2>1. fileIndex' = n
    BY DEF n
  <2> QED BY <1>1, <1>4, <1>5, <1>6, <2>1 DEF SendingBlock
<1>10. FileSpans'
  BY <1>1, <1>4 DEF FileSpans, Turn
<1>11. \A x, y : Follows(x, y) => Follows(x, y)'
  BY <1>5 DEF Follows
<1>12. ToldWithin'
  <2> SUFFICES ASSUME NEW f \in DOMAIN files', NEW i \in 1..(Len(files'[f]) - 1)
               PROVE Follows(files[f][i], files[f][i + 1])'
    BY DEF ToldWithin
  <2>1. f \in DOMAIN files
    BY <1>4
  <2> QED BY <1>1, <1>4, <1>11, <2>1 DEF ToldWithin
<1>13. ToldAcross'
  <2> SUFFICES ASSUME NEW f \in DOMAIN files', NEW g \in DOMAIN files',
                      f < g, files'[f] # <<>>, files'[g] # <<>>,
                      \A e \in DOMAIN files' : f < e /\ e < g => files'[e] = <<>>
               PROVE Follows(files[f][Len(files[f])], files[g][1])'
    BY DEF ToldAcross
  <2>1. f \in DOMAIN files /\ g \in DOMAIN files
    BY <1>4
  <2>2. \A e \in DOMAIN files : f < e /\ e < g => files[e] = <<>>
    BY <1>4
  <2>3. Follows(files[f][Len(files[f])], files[g][1])
    BY <1>1, <1>4, <2>1, <2>2 DEF ToldAcross
  <2> QED BY <1>4, <1>11, <2>1, <2>3
<1>14. LastTold'
  <2> SUFFICES ASSUME NEW f \in DOMAIN files', LastWritten(f)'
               PROVE LET m == files'[f][Len(files'[f])]
                     IN  m = <<height, NumEvents>> \/ (crashes > 0 /\ m[1] = height + 1)
    BY <1>5 DEF LastTold
  <2>1. f \in DOMAIN files /\ LastWritten(f)
    BY <1>4 DEF LastWritten
  <2> QED BY <1>1, <1>4, <1>6, <2>1 DEF LastTold
<1>15. KeptAt'
  <2> SUFFICES ASSUME NEW h \in (InitChainHeight + 1)..height, done - FILEHEIGHT < h
               PROVE \E f \in DOMAIN files' : \E p \in Nat : StandsAt(files'[f], p, h)
    BY <1>5 DEF KeptAt, StandsAt
  <2>1. PICK f \in DOMAIN files : \E p \in Nat : StandsAt(files[f], p, h)
    BY <1>1 DEF KeptAt
  <2>2. f \in DOMAIN files' /\ files'[f] = files[f]
    BY <1>4, <2>1
  <2> QED BY <2>1, <2>2
<1>16. PrunerKnows'
  <2>1. ASSUME pruner.pc = "remove"
        PROVE /\ pruner.file \in DOMAIN files' /\ \A i \in DOMAIN files' : pruner.file <= i
              /\ files'[pruner.file] # <<>> /\ pruner.least = files'[pruner.file][1][1]
    <3>1. /\ pruner.file \in DOMAIN files /\ \A i \in DOMAIN files : pruner.file <= i
          /\ files[pruner.file] # <<>> /\ pruner.least = files[pruner.file][1][1]
      BY <1>1, <2>1 DEF PrunerKnows
    <3>2. pruner.file <= n
      BY <1>2, <1>3, <3>1
    <3> QED BY <1>4, <3>1, <3>2
  <2> QED BY <1>1, <1>5, <2>1 DEF PrunerKnows
<1>17. FewSpoilt'
  <2>1. <<n, 1>> \notin torn
    BY <1>1, <1>3 DEF QueueTypes
  <2>2. fileIndex' = n /\ rolled'
    BY DEF n
  <2>3. ASSUME NEW f \in DOMAIN files', ~Readable(f)', ~AwaitsFirst(f)' PROVE f \in Spoilt
    <3>1. f # n
      BY <1>4, <1>5, <2>1, <2>2, <2>3 DEF AwaitsFirst
    <3>2. f \in DOMAIN files /\ ~Readable(f)
      BY <1>4, <1>5, <2>3, <3>1 DEF Readable
    <3>3. ~AwaitsFirst(f)
      BY <1>2, <1>6 DEF AwaitsFirst
    <3> QED BY <3>2, <3>3 DEF Spoilt
  <2>4. Spoilt' \subseteq Spoilt
    BY <2>3 DEF Spoilt
  <2> QED BY <1>1, <1>5, <2>4, FewStay DEF QueueTypes
<1> QED BY <1>7, <1>8, <1>9, <1>10, <1>12, <1>13, <1>14, <1>15, <1>16, <1>17 DEF QInv

LEMMA RollFileInv ==
  ASSUME QInv, RollFile
  PROVE QInv'
<1>0. /\ up /\ sending # <<>> /\ ~rolled /\ TimeToNewFile(Head(sending))
      /\ UNCHANGED <<torn, up, begun, sending, pruner, height, done>>
  BY DEF RollFile
<1>1. CASE /\ fileIndex' = fileIndex + 1 /\ rolled' = TRUE
           /\ files' = [i \in DOMAIN files \cup {fileIndex + 1} |->
                          IF i \in DOMAIN files THEN files[i] ELSE <<>>]
           /\ UNCHANGED <<handle, faultVars>>
  BY <1>0, <1>1, NewFileInv DEF faultVars
<1>2. CASE UNCHANGED <<fileIndex, rolled, files, crashes, writeFailures>>
  <2>1. QueueTypes' /\ NewestFile'
    BY <1>0, <1>2 DEF QInv, QueueTypes, NewestFile
  <2>2. SendingBlock'
    BY <1>0, <1>2 DEF QInv, SendingBlock, Written, Turn
  <2>3. LastTold' /\ KeptAt'
    BY <1>0, <1>2 DEF QInv, LastTold, KeptAt, Written, LastWritten, StandsAt
  <2>4. PrunerKnows' /\ FewSpoilt'
    BY <1>0, <1>2, SpoiltStay, FewStay DEF QInv, QueueTypes, PrunerKnows
  <2>5. FileSpans' /\ ToldWithin' /\ ToldAcross'
    BY <1>2, SameFiles DEF QInv, QueueTypes
  <2> QED BY <2>1, <2>2, <2>3, <2>4, <2>5 DEF QInv
<1> QED BY <1>1, <1>2 DEF RollFile

\* The message that is written is the one that follows the last.
LEMMA WriteMsgInv ==
  ASSUME QInv, WriteMsg
  PROVE QInv'
<1>1. /\ QueueTypes /\ NewestFile /\ SendingBlock /\ FileSpans /\ ToldWithin /\ ToldAcross
      /\ LastTold /\ KeptAt /\ PrunerKnows /\ FewSpoilt
  BY DEF QInv
<1>2. /\ height \in Nat /\ NumEvents \in Nat /\ crashes \in Nat /\ fileIndex \in Nat
      /\ InitChainHeight \in Nat /\ InitChainHeight <= height
  BY <1>1, MsgQueueAssumption DEF QueueTypes
<1> DEFINE n == Head(sending)
           s == files[fileIndex]
           t == Append(s, n)
           w == Written
<1>3. /\ up' = up /\ begun' = begun /\ fileIndex' = fileIndex /\ rolled' = FALSE /\ sending' = Tail(sending)
      /\ pruner' = pruner /\ height' = height /\ done' = done /\ crashes' = crashes
      /\ torn' = torn /\ writeFailures' = writeFailures
      /\ up /\ sending # <<>> /\ Ready(n)
      /\ files' = [i \in DOMAIN files |-> IF i = fileIndex THEN t ELSE files[i]]
  BY DEF WriteMsg, AtWrite, faultVars
<1>4. /\ fileIndex \in DOMAIN files /\ s \in Seq(Messages) /\ DOMAIN files \subseteq Nat
      /\ \A i \in DOMAIN files : i <= fileIndex
  <2>1. DOMAIN files # {}
    BY <1>1, <1>3 DEF NewestFile
  <2> QED BY <1>1, <2>1 DEF NewestFile, QueueTypes
<1>5. /\ begun /\ n = <<height + 1, w>> /\ w \in 0..NumEvents /\ n \in Messages
      /\ Len(sending) = NumEvents + 1 - w
  <2>1. begun
    BY <1>1, <1>3 DEF SendingBlock
  <2>2. /\ sending \in Seq(Messages) /\ Len(sending) <= NumEvents + 1 /\ Len(sending) \in Nat
        /\ 1 \in 1..Len(sending) /\ n = sending[1] /\ sending[1] \in Messages
    BY <1>1, <1>3 DEF SendingBlock
  <2>3. w = NumEvents + 1 - Len(sending)
    BY <2>1 DEF Written
  <2>4. sending[1] = <<height + 1, w + 1 - 1>>
    BY <1>1, <2>1, <2>2 DEF SendingBlock
  <2> HIDE DEF w, n
  <2> QED BY <1>2, <2>1, <2>2, <2>3, <2>4
<1>6. /\ t \in Seq(Messages) /\ t # <<>> /\ Len(t) = Len(s) + 1 /\ t[Len(s) + 1] = n
      /\ Len(s) \in Nat /\ \A i \in 1..Len(s) : t[i] = s[i]
  <2> HIDE DEF n, s
  <2> QED BY <1>4, <1>5, AppendProperties
<1>7. /\ DOMAIN files' = DOMAIN files /\ files'[fileIndex] = t
      /\ \A i \in DOMAIN files : i # fileIndex => files'[i] = files[i]
  BY <1>3, <1>4
<1>8. sending' \in Seq(Messages) /\ Written' = w + 1
      /\ Len(sending') = Len(sending) - 1
      /\ \A j \in 1..Len(sending') : sending'[j] = <<height + 1, Written' + j - 1>>
  <2>1. /\ sending \in Seq(Messages) /\ Len(sending) \in Nat
        /\ \A j \in 1..Len(sending) : sending[j] = <<height + 1, w + j - 1>>
    BY <1>1, <1>5 DEF SendingBlock
  <2>2. /\ Tail(sending) \in Seq(Messages) /\ Len(Tail(sending)) = Len(sending) - 1
        /\ \A j \in 1..Len(Tail(sending)) : Tail(sending)[j] = sending[j + 1]
    BY <1>3, <2>1, HeadTailProperties
  <2>3. Written' = w + 1
    BY <1>2, <1>3, <1>5, <2>1, <2>2 DEF Written
  <2> HIDE DEF w
  <2>4. ASSUME NEW j \in 1..Len(Tail(sending)) PROVE Tail(sending)[j] = <<height + 1, w + 1 + j - 1>>
    <3>1. j + 1 \in 1..Len(sending) /\ w + (j + 1) - 1 = w + 1 + j - 1
      BY <1>5, <2>1, <2>2
    <3> QED BY <2>1, <2>2, <3>1
  <2> QED BY <1>3, <2>2, <2>3, <2>4
\* what the last message is
<1>9. w > 0 => s # <<>> /\ s[Len(s)] = <<height + 1, w - 1>>
  <2> SUFFICES ASSUME w > 0 PROVE s # <<>> /\ s[Len(s)] = <<height + 1, w - 1>>
    OBVIOUS
  <2>1. w <= Len(s) /\ \A k \in 0..(w - 1) : s[Len(s) - w + 1 + k] = <<height + 1, k>>
    BY <1>1 DEF SendingBlock
  <2> HIDE DEF w, s
  <2>2. w - 1 \in 0..(w - 1) /\ Len(s) - w + 1 + (w - 1) = Len(s) /\ s # <<>>
    BY <1>5, <1>6, <2>1
  <2> QED BY <2>1, <2>2
<1>10. s # <<>> => LastWritten(fileIndex)
  BY <1>2, <1>4 DEF LastWritten
<1>11. ASSUME NEW f, LastWritten(f), w > 0 => f = fileIndex
       PROVE LET m == files[f][Len(files[f])]
             IN  Follows(m, n) /\ m[1] \in {height, height + 1} /\ (w > 0 => m[1] = height + 1)
  <2>1. f \in DOMAIN files
    BY <1>11 DEF LastWritten
  <2>2. CASE w > 0
    <3>1. n = <<height + 1, (w - 1) + 1>>
      BY <1>5
    <3> HIDE DEF w, n
    <3> QED BY <1>9, <1>11, <2>2, <3>1 DEF Follows
  <2>3. CASE ~(w > 0)
    <3>1. w = 0
      BY <1>5, <2>3
    <3> DEFINE m == files[f][Len(files[f])]
    <3>2. m = <<height, NumEvents>> \/ (crashes > 0 /\ m[1] = height + 1)
      BY <1>1, <1>11, <2>1, <3>1 DEF LastTold
    <3> HIDE DEF m, w, n
    <3>3. n = <<height + 1, 0>>
      BY <1>5, <3>1
    <3>4. Follows(m, n)
      BY <1>2, <1>3, <3>2, <3>3 DEF Follows
    <3>5. m[1] \in {height, height + 1}
      BY <3>2
    <3> QED BY <2>3, <3>4, <3>5 DEF m
  <2> QED BY <2>2, <2>3
<1> HIDE DEF n, s, t, w
<1>12. QueueTypes'
  <2>1. files' \in [DOMAIN files' -> Seq(Messages)]
    <3>1. \A i \in DOMAIN files : files'[i] \in Seq(Messages)
      BY <1>1, <1>6, <1>7 DEF QueueTypes
    <3> QED BY <1>3, <1>7, <3>1
  <2> QED BY <1>1, <1>3, <1>7, <2>1 DEF QueueTypes
<1>13. NewestFile'
  BY <1>1, <1>3, <1>7 DEF NewestFile
<1>14. SendingBlock'
  <2>1. w + 1 <= Len(t)
    <3>1. w > 0 => w <= Len(s)
      BY <1>1 DEF SendingBlock, w, s
    <3> QED BY <1>5, <1>6, <3>1
  <2>2. ASSUME NEW k \in 0..w PROVE t[Len(t) - (w + 1) + 1 + k] = <<height + 1, k>>
    <3>1. CASE k = w
      <4>1. Len(t) - (w + 1) + 1 + k = Len(s) + 1
        BY <1>5, <1>6, <3>1
      <4> QED BY <1>5, <1>6, <3>1, <4>1
    <3>2. CASE k # w
      <4>1. w > 0 /\ k \in 0..(w - 1)
        BY <1>5, <3>2
      <4>2. w <= Len(s) /\ s[Len(s) - w + 1 + k] = <<height + 1, k>>
        BY <1>1, <4>1 DEF SendingBlock, w, s
      <4>3. Len(t) - (w + 1) + 1 + k = Len(s) - w + 1 + k /\ Len(s) - w + 1 + k \in 1..Len(s)
        BY <1>5, <1>6, <4>1, <4>2
      <4> QED BY <1>6, <4>2, <4>3
    <3> QED BY <3>1, <3>2
  <2>3. Written' - 1 = w
    BY <1>5, <1>8
  <2>4. Len(sending') <= NumEvents + 1
    BY <1>2, <1>5, <1>8
  <2>5. \A k \in 0..(Written' - 1) :
            files'[fileIndex'][Len(files'[fileIndex']) - Written' + 1 + k] = <<height' + 1, k>>
    BY <1>3, <1>7, <1>8, <2>2, <2>3
  <2>6. Written' <= Len(files'[fileIndex'])
    BY <1>3, <1>7, <1>8, <2>1
  <2>7. \A j \in 1..Len(sending') : sending'[j] = <<height' + 1, Written' + j - 1>>
    BY <1>3, <1>8
  <2> QED BY <1>3, <1>5, <1>8, <2>4, <2>5, <2>6, <2>7 DEF SendingBlock
<1>15. FileSpans'
  <2> SUFFICES ASSUME NEW f \in DOMAIN files, files'[f] # <<>>
               PROVE /\ files'[f][1][2] = 0
                     /\ \A i \in 1..Len(files'[f]) :
                          /\ InitChainHeight < files'[f][i][1] /\ files'[f][1][1] <= files'[f][i][1]
                          /\ \A r \in Nat : files'[f][1][1] < r /\ r <= files'[f][i][1] => ~Turn(r)
    BY <1>7 DEF FileSpans, Turn
  <2>1. CASE f # fileIndex
    BY <1>1, <1>7, <2>1 DEF FileSpans
  <2>2. CASE f = fileIndex /\ s = <<>>
    <3>1. Len(s) = 0 /\ w = 0
      BY <1>5, <1>9, <2>2
    <3>2. files'[f] = t /\ Len(t) = 1 /\ t[1] = <<height + 1, 0>>
      BY <1>5, <1>6, <1>7, <2>2, <3>1
    <3> QED BY <1>2, <3>2
  <2>3. CASE f = fileIndex /\ s # <<>>
    <3> DEFINE m == s[Len(s)]
    <3>1. files'[f] = t /\ t[1] = s[1] /\ 1 \in 1..Len(s) /\ Len(s) \in 1..Len(s)
      BY <1>4, <1>6, <1>7, <2>3
    <3>2. /\ s[1][2] = 0
          /\ \A i \in 1..Len(s) :
               /\ InitChainHeight < s[i][1] /\ s[1][1] <= s[i][1]
               /\ \A r \in Nat : s[1][1] < r /\ r <= s[i][1] => ~Turn(r)
      BY <1>1, <1>4, <2>3 DEF FileSpans, s
    <3>3. m[1] \in {height, height + 1} /\ (w > 0 => m[1] = height + 1)
      BY <1>10, <1>11, <2>3 DEF s
    <3>4. InitChainHeight < s[1][1] /\ s[1][1] <= m[1] /\ s[1][1] \in Nat
      <4>1. s[1] \in Messages
        BY <1>4, <3>1
      <4> QED BY <3>1, <3>2, <4>1 DEF Messages
    <3>5. w = 0 => height + 1 = InitChainHeight + 1 \/ ~Turn(height + 1)
      <4>1. ~rolled
        BY <1>1, <2>3 DEF SendingBlock, s
      <4> QED BY <1>3, <1>5, <4>1 DEF Ready, TimeToNewFile, Turn
    <3>6. ASSUME NEW r \in Nat, s[1][1] < r, r <= height + 1 PROVE ~Turn(r)
      <4>1. CASE r <= m[1]
        BY <3>1, <3>2, <3>6, <4>1
      <4>2. CASE ~(r <= m[1])
        <5>1. m[1] = height /\ r = height + 1 /\ w = 0
          BY <1>2, <1>5, <3>3, <3>6, <4>2
        <5>2. height + 1 # InitChainHeight + 1
          BY <1>2, <3>4, <3>6, <5>1
        <5> QED BY <3>5, <5>1, <5>2
      <4> QED BY <4>1, <4>2
    <3>7. InitChainHeight < height + 1 /\ s[1][1] <= height + 1
      BY <1>2, <3>3, <3>4
    <3> HIDE DEF m
    <3>8. ASSUME NEW i \in 1..Len(t)
          PROVE /\ InitChainHeight < t[i][1] /\ s[1][1] <= t[i][1]
                /\ \A r \in Nat : s[1][1] < r /\ r <= t[i][1] => ~Turn(r)
      <4>1. CASE i \in 1..Len(s)
        <5>1. t[i] = s[i]
          BY <1>6, <4>1
        <5> QED BY <3>2, <4>1, <5>1
      <4>2. CASE i \notin 1..Len(s)
        <5>1. i = Len(s) + 1
          BY <1>6, <4>2
        <5>2. t[i][1] = height + 1
          BY <1>5, <1>6, <5>1
        <5> QED BY <3>6, <3>7, <5>2
      <4> QED BY <4>1, <4>2
    <3> QED BY <3>1, <3>2, <3>8
  <2> QED BY <2>1, <2>2, <2>3
<1>16. \A x, y : Follows(x, y) => Follows(x, y)'
  BY <1>3 DEF Follows
<1>17. ToldWithin'
  <2> SUFFICES ASSUME NEW f \in DOMAIN files, NEW i \in 1..(Len(files'[f]) - 1)
               PROVE Follows(files[f][i], files[f][i + 1])'
    BY <1>7 DEF ToldWithin
  <2>1. CASE f # fileIndex
    BY <1>1, <1>7, <1>16, <2>1 DEF ToldWithin
  <2>2. CASE f = fileIndex /\ i \in 1..(Len(s) - 1)
    <3>1. files'[f][i] = s[i] /\ files'[f][i + 1] = s[i + 1]
      BY <1>6, <1>7, <2>2
    <3>2. Follows(s[i], s[i + 1])
      BY <1>1, <2>2 DEF ToldWithin, s
    <3> QED BY <1>3, <1>16, <3>1, <3>2
  <2>3. CASE f = fileIndex /\ i \notin 1..(Len(s) - 1)
    <3>1. i = Len(s) /\ s # <<>> /\ i \in 1..Len(s)
      BY <1>4, <1>6, <1>7, <2>3
    <3>2. files'[f][i] = s[Len(s)] /\ files'[f][i + 1] = n
      BY <1>6, <1>7, <2>3, <3>1
    <3>3. Follows(s[Len(s)], n)
      BY <1>10, <1>11, <3>1 DEF s
    <3> QED BY <1>16, <3>2, <3>3
  <2> QED BY <2>1, <2>2, <2>3
<1>18. ToldAcross'
  <2> SUFFICES ASSUME NEW f \in DOMAIN files, NEW g \in DOMAIN files,
                      f < g, files'[f] # <<>>, files'[g] # <<>>,
                      \A e \in DOMAIN files : f < e /\ e < g => files'[e] = <<>>
               PROVE Follows(files[f][Len(files[f])], files[g][1])'
    BY <1>7 DEF ToldAcross
  <2>0. /\ f \in Nat /\ g \in Nat /\ g <= fileIndex /\ f # fileIndex /\ files'[f] = files[f]
        /\ \A e \in DOMAIN files : e \in Nat /\ e <= fileIndex
    BY <1>2, <1>4, <1>7
  <2>1. \A e \in DOMAIN files : f < e /\ e < g => files[e] = <<>>
    <3> SUFFICES ASSUME NEW e \in DOMAIN files, f < e, e < g PROVE files[e] = <<>>
      OBVIOUS
    <3>1. e # fileIndex
      BY <1>2, <2>0
    <3> QED BY <1>7, <3>1
  <2>2. CASE g # fileIndex
    <3>1. files'[g] = files[g]
      BY <1>7, <2>2
    <3> QED BY <1>1, <1>16, <2>0, <2>1, <3>1 DEF ToldAcross
  <2>3. CASE g = fileIndex /\ s # <<>>
    <3>1. files'[g][1] = s[1]
      BY <1>4, <1>6, <1>7, <2>3
    <3>2. Follows(files[f][Len(files[f])], s[1])
      BY <1>1, <2>0, <2>1, <2>3 DEF ToldAcross, s
    <3> QED BY <1>16, <2>0, <3>1, <3>2
  <2>4. CASE g = fileIndex /\ s = <<>>
    <3>1. w = 0
      BY <1>5, <1>9, <2>4
    <3>2. files'[g][1] = n
      BY <1>6, <1>7, <2>4
    <3>3. LastWritten(f)
      <4> SUFFICES ASSUME NEW e \in DOMAIN files, e > f PROVE files[e] = <<>>
        BY <2>0 DEF LastWritten
      <4>1. CASE e = fileIndex
        BY <2>4, <4>1 DEF s
      <4>2. CASE e # fileIndex
        BY <2>0, <2>1, <2>4, <4>2
      <4> QED BY <4>1, <4>2
    <3>4. Follows(files[f][Len(files[f])], n)
      BY <1>11, <3>1, <3>3
    <3> QED BY <1>16, <2>0, <3>2, <3>4
  <2> QED BY <2>2, <2>3, <2>4
<1>19. LastTold'
  BY <1>5, <1>8 DEF LastTold
<1>20. KeptAt'
  <2> SUFFICES ASSUME NEW h \in (InitChainHeight + 1)..height, done - FILEHEIGHT < h
               PROVE \E f \in DOMAIN files : \E p \in Nat : StandsAt(files'[f], p, h)
    BY <1>3, <1>7 DEF KeptAt, StandsAt
  <2>1. PICK f \in DOMAIN files : \E p \in Nat : StandsAt(files[f], p, h)
    BY <1>1 DEF KeptAt
  <2>2. PICK p \in Nat : StandsAt(files[f], p, h)
    BY <2>1
  <2>3. CASE f = fileIndex
    <3>1. h \in Nat
      BY <1>2
    <3>2. StandsAt(t, p, h)
      BY <1>4, <1>5, <2>2, <2>3, <3>1, StandsAfterAppend DEF s, t
    <3> QED BY <1>7, <2>3, <3>2
  <2>4. CASE f # fileIndex
    BY <1>7, <2>2, <2>4
  <2> QED BY <2>3, <2>4
<1>21. PrunerKnows'
  <2> SUFFICES ASSUME pruner.pc = "remove"
               PROVE files'[pruner.file] # <<>> /\ pruner.least = files'[pruner.file][1][1]
    BY <1>1, <1>3, <1>7 DEF PrunerKnows
  <2>1. /\ pruner.file \in DOMAIN files
        /\ files[pruner.file] # <<>> /\ pruner.least = files[pruner.file][1][1]
    BY <1>1 DEF PrunerKnows
  <2>2. CASE pruner.file = fileIndex
    <3>1. t[1] = s[1]
      BY <1>4, <1>6, <2>1, <2>2 DEF s
    <3> QED BY <1>6, <1>7, <2>1, <2>2, <3>1 DEF s
  <2>3. CASE pruner.file # fileIndex
    BY <1>7, <2>1, <2>3
  <2> QED BY <2>2, <2>3
<1>22. FewSpoilt'
  <2>1. ASSUME NEW f \in DOMAIN files, ~Readable(f)', ~AwaitsFirst(f)' PROVE f \in Spoilt
    <3>1. CASE f = fileIndex
      <4>1. <<f, 1>> \in torn
        BY <1>3, <1>6, <1>7, <2>1, <3>1 DEF Readable
      <4> QED BY <4>1 DEF Spoilt, Readable, AwaitsFirst
    <3>2. CASE f # fileIndex
      BY <1>3, <1>7, <2>1, <3>2 DEF Spoilt, Readable, AwaitsFirst
    <3> QED BY <3>1, <3>2
  <2>2. Spoilt' \subseteq Spoilt
    BY <1>7, <2>1 DEF Spoilt
  <2> QED BY <1>1, <1>3, <2>2, FewStay DEF QueueTypes
<1> QED BY <1>12, <1>13, <1>14, <1>15, <1>17, <1>18, <1>19, <1>20, <1>21, <1>22 DEF QInv

\* A write that fails leaves the messages that are written; the file may be spoilt.
LEMMA WriteFailsInv ==
  ASSUME QInv, WriteFails
  PROVE QInv'
<1>1. /\ QueueTypes /\ NewestFile /\ SendingBlock /\ FileSpans /\ ToldWithin /\ ToldAcross
      /\ LastTold /\ KeptAt /\ PrunerKnows /\ FewSpoilt
  BY DEF QInv
<1>2. /\ files' = files /\ up' = up /\ up /\ fileIndex' = fileIndex /\ rolled' = FALSE
      /\ begun' = begun /\ sending' = sending /\ pruner' = pruner /\ height' = height
      /\ done' = done /\ crashes' = crashes /\ writeFailures' = writeFailures + 1 /\ sending # <<>>
  BY DEF WriteFails, AtWrite
<1>3. torn' = torn \/ torn' = torn \cup {<<fileIndex, Len(files[fileIndex]) + 1>>}
  BY DEF WriteFails
<1>4. begun /\ fileIndex \in DOMAIN files /\ Len(files[fileIndex]) \in Nat
  <2>1. begun
    BY <1>1, <1>2 DEF SendingBlock
  <2>2. fileIndex \in DOMAIN files
    BY <1>1, <1>2 DEF NewestFile
  <2>3. files[fileIndex] \in Seq(Messages)
    BY <1>1, <2>2 DEF QueueTypes
  <2> QED BY <2>1, <2>2, <2>3
<1>5. QueueTypes'
  <2>1. torn' \subseteq (DOMAIN files') \X Nat
    BY <1>1, <1>2, <1>3, <1>4 DEF QueueTypes
  <2> QED BY <1>1, <1>2, <2>1 DEF QueueTypes
<1>6. NewestFile'
  BY <1>1, <1>2 DEF NewestFile
<1>7. SendingBlock'
  BY <1>1, <1>2 DEF SendingBlock, Written, Turn
<1>8. FileSpans' /\ ToldWithin' /\ ToldAcross'
  BY <1>1, <1>2, SameFiles DEF QueueTypes
<1>9. LastTold' /\ KeptAt'
  BY <1>1, <1>2 DEF LastTold, KeptAt, Written, LastWritten, StandsAt
<1>10. PrunerKnows'
  BY <1>1, <1>2 DEF PrunerKnows
<1>11. FewSpoilt'
  <2>1. Spoilt' \subseteq Spoilt \cup {fileIndex}
    BY <1>2, <1>3 DEF Spoilt, Readable, AwaitsFirst
  <2>2. crashes' + writeFailures' = crashes + writeFailures + 1
    BY <1>1, <1>2 DEF QueueTypes
  <2> QED BY <1>1, <2>1, <2>2, FewGrow
<1> QED BY <1>5, <1>6, <1>7, <1>8, <1>9, <1>10, <1>11 DEF QInv
-----------------------------------------------------------------------------
(* The steps of the goroutine *)

LEMMA ReceiveHeightInv ==
  ASSUME QInv, ReceiveHeight
  PROVE QInv'
<1>1. /\ QueueTypes /\ NewestFile /\ SendingBlock /\ FileSpans /\ ToldWithin /\ ToldAcross
      /\ LastTold /\ KeptAt /\ PrunerKnows /\ FewSpoilt
  BY DEF QInv
<1>2. PICK h \in (InitChainHeight + 1)..height :
        /\ pruner' = [Idle EXCEPT !.pc = "look", !.height = h]
        /\ done' = Max({done, h})
  BY DEF ReceiveHeight
<1>3. /\ up /\ files' = files /\ up' = up /\ fileIndex' = fileIndex /\ rolled' = rolled
      /\ begun' = begun /\ sending' = sending /\ height' = height /\ crashes' = crashes
      /\ torn' = torn /\ writeFailures' = writeFailures
  BY DEF ReceiveHeight, writerVars, faultVars
<1>4. /\ height \in Nat /\ done \in Nat /\ InitChainHeight \in Nat /\ h \in Nat /\ done <= height
      /\ InitChainHeight <= done /\ crashes \in Nat /\ FILEHEIGHT \in Nat
  BY <1>1, MsgQueueAssumption DEF QueueTypes
<1>5. done' \in Nat /\ done <= done' /\ h <= done' /\ done' <= height
  <2>1. CASE h <= done
    <3>1. Max({done, h}) = done
      BY <1>4, <2>1, GreatestIndex
    <3> QED BY <1>2, <1>4, <2>1, <3>1
  <2>2. CASE ~(h <= done)
    <3>1. Max({done, h}) = h
      BY <1>4, <2>2, GreatestIndex
    <3> QED BY <1>2, <1>4, <2>2, <3>1
  <2> QED BY <2>1, <2>2
<1>6. /\ pruner'.pc = "look" /\ pruner'.height = h
      /\ pruner' \in [pc : {"receive", "look", "remove"}, height : Nat, file : Nat, least : Nat]
  BY <1>2, <1>4 DEF Idle
<1>7. QueueTypes' /\ NewestFile'
  BY <1>1, <1>3, <1>4, <1>5 DEF QueueTypes, NewestFile
<1>8. SendingBlock'
  BY <1>1, <1>3 DEF SendingBlock, Written, Turn
<1>9. FileSpans' /\ ToldWithin' /\ ToldAcross'
  BY <1>1, <1>3, <1>4, SameFiles
<1>10. LastTold'
  BY <1>1, <1>3 DEF LastTold, LastWritten, Written
<1>11. KeptAt'
  <2> SUFFICES ASSUME NEW i \in (InitChainHeight + 1)..height, done' - FILEHEIGHT < i
               PROVE \E f \in DOMAIN files : \E p \in Nat : StandsAt(files[f], p, i)
    BY <1>3 DEF KeptAt, StandsAt
  <2>1. done - FILEHEIGHT < i
    <3>1. i \in Nat /\ done' - FILEHEIGHT < i
      BY <1>4
    <3>2. done \in Nat /\ done' \in Nat /\ done <= done' /\ FILEHEIGHT \in Nat
      BY <1>4, <1>5
    <3> DEFINE d == done'
    <3>3. d \in Nat /\ done <= d /\ d - FILEHEIGHT < i
      BY <3>1, <3>2
    <3> HIDE DEF d
    <3>4. done - FILEHEIGHT <= d - FILEHEIGHT
      BY <3>2, <3>3
    <3> QED BY <3>1, <3>2, <3>3, <3>4
  <2> QED BY <1>1, <2>1 DEF KeptAt
<1>12. PrunerKnows'
  BY <1>3, <1>4, <1>5, <1>6 DEF PrunerKnows
<1>13. FewSpoilt'
  BY <1>1, <1>3, SpoiltStay, FewStay DEF QueueTypes
<1> QED BY <1>7, <1>8, <1>9, <1>10, <1>11, <1>12, <1>13 DEF QInv

LEMMA FindLeastInv ==
  ASSUME QInv, FindLeast
  PROVE QInv'
<1>1. /\ QueueTypes /\ NewestFile /\ SendingBlock /\ FileSpans /\ ToldWithin /\ ToldAcross
      /\ LastTold /\ KeptAt /\ PrunerKnows /\ FewSpoilt
  BY DEF QInv
<1> DEFINE f == Min(DOMAIN files)
<1>2. /\ up /\ files' = files /\ up' = up /\ fileIndex' = fileIndex /\ rolled' = rolled
      /\ begun' = begun /\ sending' = sending /\ height' = height /\ done' = done /\ crashes' = crashes
      /\ torn' = torn /\ writeFailures' = writeFailures
      /\ pruner.pc = "look" /\ files[f] # <<>>
      /\ pruner' = [pruner EXCEPT !.pc = "remove", !.file = f, !.least = files[f][1][1]]
  BY DEF FindLeast, Readable, writerVars, faultVars
<1>3. f \in DOMAIN files /\ \A i \in DOMAIN files : f <= i
  <2>1. DOMAIN files # {} /\ DOMAIN files \in SUBSET Nat
    BY <1>1, <1>2 DEF NewestFile, QueueTypes
  <2> QED BY <2>1, LeastIndex
<1> HIDE DEF f
<1>4. QueueTypes' /\ NewestFile'
  BY <1>1, <1>2 DEF QueueTypes, NewestFile
<1>5. SendingBlock'
  BY <1>1, <1>2 DEF SendingBlock, Written, Turn
<1>6. FileSpans' /\ ToldWithin' /\ ToldAcross'
  <2>1. crashes' \in Nat /\ crashes <= crashes'
    BY <1>1, <1>2 DEF QueueTypes
  <2> QED BY <1>1, <1>2, <2>1, SameFiles
<1>7. LastTold'
  BY <1>1, <1>2 DEF LastTold, LastWritten, Written
<1>8. KeptAt'
  BY <1>1, <1>2 DEF KeptAt, StandsAt
<1>9. PrunerKnows'
  <2>1. pruner'.height = pruner.height
    BY <1>2
  <2>2. pruner'.pc = "remove" => pruner'.file = f /\ pruner'.least = files[f][1][1]
    BY <1>1, <1>2 DEF PrunerKnows
  <2>3. pruner' \in [pc : {"receive", "look", "remove"}, height : Nat, file : Nat, least : Nat]
    <3>1. files[f] \in Seq(Messages) /\ f \in Nat
      BY <1>1, <1>3 DEF QueueTypes
    <3>2. files[f][1] \in Messages
      BY <1>2, <3>1 DEF f
    <3>3. files[f][1][1] \in Nat
      BY <3>2 DEF Messages
    <3> QED BY <1>1, <1>2, <3>1, <3>3 DEF PrunerKnows
  <2> QED BY <1>1, <1>2, <1>3, <2>1, <2>2, <2>3 DEF PrunerKnows
<1>10. FewSpoilt'
  BY <1>1, <1>2, SpoiltStay, FewStay DEF QueueTypes
<1> QED BY <1>4, <1>5, <1>6, <1>7, <1>8, <1>9, <1>10 DEF QInv

\* Of a file that is old enough to be removed nothing is wanted, and it is not the last.
LEMMA OldEnough ==
  ASSUME QInv, pruner.pc = "remove", TimeToRemove(pruner.least, pruner.height)
  PROVE /\ \A h \in (InitChainHeight + 1)..height, p \in Nat :
             done - FILEHEIGHT < h => ~StandsAt(files[pruner.file], p, h)
        /\ Written = 0 => ~LastWritten(pruner.file)
        /\ pruner.file # fileIndex
<1> DEFINE F == FILEHEIGHT
           s == files[pruner.file]
           b == s[1][1]
<1>1. /\ height \in Nat /\ done \in Nat /\ InitChainHeight \in Nat /\ done <= height
      /\ F \in Nat \ {0} /\ NumEvents \in Nat
  BY MsgQueueAssumption DEF QInv, QueueTypes
<1>2. /\ pruner.file \in DOMAIN files /\ s \in Seq(Messages) /\ s # <<>>
      /\ 1 \in 1..Len(s) /\ Len(s) \in 1..Len(s) /\ Len(s) \in Nat
  BY DEF QInv, PrunerKnows, QueueTypes
<1>3. b \in Nat /\ InitChainHeight < b
  <2>1. s[1] \in Messages
    BY <1>2
  <2>2. InitChainHeight < s[1][1]
    BY <1>2 DEF QInv, FileSpans
  <2> QED BY <2>1, <2>2 DEF Messages
<1>4. b + 2 * F <= done
  <2>1. pruner.height \in (InitChainHeight + 1)..done /\ pruner.least = b
    BY DEF QInv, PrunerKnows
  <2> QED BY <1>1, <1>3, <2>1 DEF TimeToRemove
<1>5. PICK r \in Nat : b < r /\ r <= b + F /\ Turn(r)
  BY <1>3, TurnWithin
<1>6. \A i \in 1..Len(s) : ~(r <= s[i][1])
  BY <1>2, <1>5 DEF QInv, FileSpans
<1>7. \A i \in 1..Len(s) : s[i][1] \in Nat
  <2>1. \A i \in 1..Len(s) : s[i] \in Messages
    BY <1>2
  <2> QED BY <2>1 DEF Messages
<1>8. ASSUME NEW h \in (InitChainHeight + 1)..height, NEW p \in Nat, done - F < h, StandsAt(s, p, h)
      PROVE FALSE
  <2>1. p \in 1..Len(s) /\ s[p + 0] = <<h, 0>> /\ p + 0 = p
    BY <1>1, <1>2, <1>8 DEF StandsAt
  <2>2. s[p][1] = h
    BY <2>1
  <2>3. ~(r <= h)
    BY <1>6, <2>1, <2>2
  <2> QED BY <1>1, <1>3, <1>4, <1>5, <1>8, <2>3
<1>9. ASSUME LastWritten(pruner.file), Written = 0 PROVE FALSE
  <2>1. s[Len(s)] = <<height, NumEvents>> \/ s[Len(s)][1] = height + 1
    BY <1>2, <1>9 DEF QInv, LastTold
  <2>2. s[Len(s)][1] \in {height, height + 1}
    BY <2>1
  <2> QED BY <1>1, <1>2, <1>3, <1>4, <1>5, <1>6, <2>2
<1>10. ASSUME pruner.file = fileIndex PROVE FALSE
  <2>1. LastWritten(pruner.file)
    BY <1>2, <1>10 DEF QInv, NewestFile, QueueTypes, LastWritten
  <2>2. CASE Written = 0
    BY <1>9, <2>1, <2>2
  <2>3. CASE Written > 0
    <3>1. /\ Written <= Len(s)
          /\ \A k \in 0..(Written - 1) : s[Len(s) - Written + 1 + k] = <<height + 1, k>>
      BY <1>10, <2>3 DEF QInv, SendingBlock
    <3>2. Written \in Nat
      BY <1>1 DEF QInv, SendingBlock, Written
    <3>3. 0 \in 0..(Written - 1) /\ Len(s) - Written + 1 + 0 \in 1..Len(s)
      BY <1>2, <2>3, <3>1, <3>2
    <3>4. s[Len(s) - Written + 1 + 0][1] = height + 1
      BY <3>1, <3>3
    <3>5. ~(r <= height + 1)
      BY <1>6, <3>3, <3>4
    <3> QED BY <1>1, <1>3, <1>4, <1>5, <3>5
  <2>4. Written \in Nat
    BY <1>1 DEF QInv, SendingBlock, Written
  <2> QED BY <2>2, <2>3, <2>4
<1> QED BY <1>8, <1>9, <1>10

LEMMA RemoveFileInv ==
  ASSUME QInv, RemoveFile
  PROVE QInv'
<1>1. /\ QueueTypes /\ NewestFile /\ SendingBlock /\ FileSpans /\ ToldWithin /\ ToldAcross
      /\ LastTold /\ KeptAt /\ PrunerKnows /\ FewSpoilt
  BY DEF QInv
<1>2. /\ up /\ up' = up /\ fileIndex' = fileIndex /\ rolled' = rolled
      /\ begun' = begun /\ sending' = sending /\ height' = height /\ done' = done /\ crashes' = crashes
      /\ writeFailures' = writeFailures /\ torn' = {t \in torn : t[1] \in DOMAIN files'}
      /\ pruner.pc = "remove" /\ pruner' = Idle
  BY DEF RemoveFile, writerVars, faultVars
<1>3. PrunerKnows'
  BY <1>2 DEF PrunerKnows, Idle
<1>4. /\ crashes' \in Nat /\ crashes <= crashes' /\ Written' = Written
  BY <1>1, <1>2 DEF QueueTypes, Written
<1>5. CASE ~TimeToRemove(pruner.least, pruner.height)
  <2>1. files' = files
    BY <1>5 DEF RemoveFile
  <2>0. torn' = torn
    BY <1>1, <1>2, <2>1 DEF QueueTypes
  <2>2. QueueTypes' /\ NewestFile'
    BY <1>1, <1>2, <2>0, <2>1 DEF QueueTypes, NewestFile
  <2>3. SendingBlock' /\ LastTold'
    BY <1>1, <1>2, <1>4, <2>1 DEF SendingBlock, LastTold, LastWritten, Turn
  <2>4. FileSpans' /\ ToldWithin' /\ ToldAcross'
    BY <1>1, <1>4, <2>1, SameFiles
  <2>5. KeptAt' /\ FewSpoilt'
    <3>1. KeptAt'
      BY <1>1, <1>2, <2>1 DEF KeptAt, StandsAt
    <3>2. FewSpoilt'
      BY <1>1, <1>2, <2>0, <2>1, SpoiltStay, FewStay DEF QueueTypes
    <3> QED BY <3>1, <3>2
  <2> QED BY <1>3, <2>2, <2>3, <2>4, <2>5 DEF QInv
<1>6. CASE TimeToRemove(pruner.least, pruner.height)
  <2> DEFINE x == pruner.file
  <2>1. files' = [i \in DOMAIN files \ {x} |-> files[i]]
    BY <1>6 DEF RemoveFile
  <2>2. /\ \A h \in (InitChainHeight + 1)..height, p \in Nat :
             done - FILEHEIGHT < h => ~StandsAt(files[x], p, h)
        /\ Written = 0 => ~LastWritten(x)
        /\ x # fileIndex
    BY <1>2, <1>6, OldEnough
  <2>3. x \in DOMAIN files /\ \A i \in DOMAIN files : x <= i
    BY <1>1, <1>2 DEF PrunerKnows
  <2>4. /\ fileIndex \in DOMAIN files /\ DOMAIN files \subseteq Nat
        /\ \A i \in DOMAIN files : i <= fileIndex
    BY <1>1, <1>2 DEF NewestFile, QueueTypes
  <2> HIDE DEF x
  <2>5. /\ DOMAIN files' = DOMAIN files \ {x} /\ fileIndex \in DOMAIN files'
        /\ \A i \in DOMAIN files' : files'[i] = files[i] /\ i \in DOMAIN files
    BY <2>1, <2>2, <2>4
  <2>6. QueueTypes'
    <3>1. \A i \in DOMAIN files' : files'[i] \in Seq(Messages)
      BY <1>1, <2>5 DEF QueueTypes
    <3>2. files' \in [DOMAIN files' -> Seq(Messages)]
      BY <2>1, <2>5, <3>1
    <3>3. torn' \subseteq (DOMAIN files') \X Nat
      BY <1>1, <1>2 DEF QueueTypes
    <3> QED BY <1>1, <1>2, <2>5, <3>2, <3>3 DEF QueueTypes
  <2>7. NewestFile'
    BY <1>2, <2>4, <2>5 DEF NewestFile
  <2>8. SendingBlock'
    BY <1>1, <1>2, <1>4, <2>5 DEF SendingBlock, Turn
  <2>9. FileSpans'
    BY <1>1, <2>5 DEF FileSpans, Turn
  <2>10. \A m, n : Follows(m, n) => Follows(m, n)'
    BY <1>2 DEF Follows
  <2>11. ToldWithin'
    <3> SUFFICES ASSUME NEW f \in DOMAIN files', NEW i \in 1..(Len(files'[f]) - 1)
                 PROVE Follows(files[f][i], files[f][i + 1])'
      BY DEF ToldWithin
    <3>1. Follows(files[f][i], files[f][i + 1])
      BY <1>1, <2>5 DEF ToldWithin
    <3> QED BY <2>5, <2>10, <3>1
  <2>12. ToldAcross'
    <3> SUFFICES ASSUME NEW f \in DOMAIN files', NEW g \in DOMAIN files',
                        f < g, files'[f] # <<>>, files'[g] # <<>>,
                        \A e \in DOMAIN files' : f < e /\ e < g => files'[e] = <<>>
                 PROVE Follows(files[f][Len(files[f])], files[g][1])'
      BY DEF ToldAcross
    <3>1. \A e \in DOMAIN files : f < e /\ e < g => files[e] = <<>>
      <4> SUFFICES ASSUME NEW e \in DOMAIN files, f < e, e < g PROVE files[e] = <<>>
        OBVIOUS
      <4>1. e # x
        BY <2>3, <2>4, <2>5
      <4> QED BY <2>5, <4>1
    <3>2. Follows(files[f][Len(files[f])], files[g][1])
      BY <1>1, <2>5, <3>1 DEF ToldAcross
    <3> QED BY <2>5, <2>10, <3>2
  <2>13. LastTold'
    <3> SUFFICES ASSUME Written = 0, NEW f \in DOMAIN files', LastWritten(f)'
                 PROVE LET m == files'[f][Len(files'[f])]
                       IN  m = <<height, NumEvents>> \/ (crashes > 0 /\ m[1] = height + 1)
      BY <1>2, <1>4 DEF LastTold
    <3>1. LastWritten(f)
      <4> SUFFICES ASSUME NEW g \in DOMAIN files, g > f PROVE files[g] = <<>>
        BY <2>5 DEF LastWritten
      <4>1. g # x
        BY <2>3, <2>4, <2>5
      <4> QED BY <2>5, <4>1 DEF LastWritten
    <3> QED BY <1>1, <2>5, <3>1 DEF LastTold
  <2>14. KeptAt'
    <3> SUFFICES ASSUME NEW h \in (InitChainHeight + 1)..height, done - FILEHEIGHT < h
                 PROVE \E f \in DOMAIN files' : \E p \in Nat : StandsAt(files'[f], p, h)
      BY <1>2 DEF KeptAt, StandsAt
    <3>1. PICK f \in DOMAIN files : \E p \in Nat : StandsAt(files[f], p, h)
      BY <1>1 DEF KeptAt
    <3>2. f # x
      BY <2>2, <3>1
    <3> QED BY <2>5, <3>1, <3>2
  <2>15. FewSpoilt'
    <3>1. Spoilt' \subseteq Spoilt
      BY <1>2, <2>5 DEF Spoilt, Readable, AwaitsFirst
    <3> QED BY <1>1, <1>2, <3>1, FewStay DEF QueueTypes
  <2> QED BY <1>3, <2>6, <2>7, <2>8, <2>9, <2>11, <2>12, <2>13, <2>14, <2>15 DEF QInv
<1> QED BY <1>5, <1>6
-----------------------------------------------------------------------------
(* Faults *)

LEMMA CrashInv ==
  ASSUME QInv, Crash
  PROVE QInv'
<1>1. /\ QueueTypes /\ NewestFile /\ SendingBlock /\ FileSpans /\ ToldWithin /\ ToldAcross
      /\ LastTold /\ KeptAt /\ PrunerKnows /\ FewSpoilt
  BY DEF QInv
<1>2. /\ up /\ up' = FALSE /\ rolled' = FALSE /\ begun' = FALSE /\ sending' = <<>> /\ pruner' = Idle
      /\ files' = files /\ fileIndex' = fileIndex /\ height' = height /\ done' = done
      /\ crashes' = crashes + 1 /\ torn' = torn /\ writeFailures' = writeFailures
  BY DEF Crash
<1>3. /\ crashes \in Nat /\ crashes' \in Nat /\ crashes <= crashes' /\ crashes' > 0 /\ crashes' # 0
      /\ height \in Nat /\ NumEvents \in Nat
  BY <1>1, <1>2, MsgQueueAssumption DEF QueueTypes
<1>4. ~up' /\ ~rolled' /\ ~begun' /\ Written' = 0
  BY <1>2 DEF Written
<1>5. QueueTypes' /\ NewestFile'
  BY <1>1, <1>2, <1>3, <1>4 DEF QueueTypes, NewestFile
<1>6. SendingBlock'
  <2>1. <<>> \in Seq(Messages) /\ Len(<<>>) = 0
    OBVIOUS
  <2> QED BY <1>2, <1>3, <1>4, <2>1 DEF SendingBlock
<1>7. FileSpans' /\ ToldWithin' /\ ToldAcross'
  BY <1>1, <1>2, <1>3, SameFiles
<1>8. LastTold'
  <2> SUFFICES ASSUME NEW f \in DOMAIN files, LastWritten(f)
               PROVE LET m == files[f][Len(files[f])]
                     IN  m = <<height, NumEvents>> \/ m[1] = height + 1
    BY <1>2, <1>3 DEF LastTold, LastWritten
  <2>1. CASE Written = 0
    BY <1>1, <2>1 DEF LastTold
  <2>2. CASE Written # 0
    <3> DEFINE s == files[fileIndex]
               w == Written
    <3>1. w \in Nat /\ w > 0
      BY <1>1, <1>3, <2>2 DEF SendingBlock, Written
    <3>2. w <= Len(s) /\ \A k \in 0..(w - 1) : s[Len(s) - w + 1 + k] = <<height + 1, k>>
      BY <1>1, <3>1 DEF SendingBlock
    <3>3. fileIndex \in DOMAIN files /\ f <= fileIndex /\ f \in Nat /\ fileIndex \in Nat
          /\ s \in Seq(Messages)
      BY <1>1 DEF NewestFile, QueueTypes
    <3> HIDE DEF w, s
    <3>4. w - 1 \in 0..(w - 1) /\ Len(s) - w + 1 + (w - 1) = Len(s) /\ s # <<>>
      BY <3>1, <3>2, <3>3
    <3>5. s[Len(s)] = <<height + 1, w - 1>>
      BY <3>2, <3>4
    <3>6. f = fileIndex
      BY <3>3, <3>4 DEF LastWritten, s
    <3> QED BY <3>5, <3>6 DEF s
  <2> QED BY <2>1, <2>2
<1>9. KeptAt'
  BY <1>1, <1>2 DEF KeptAt, StandsAt
<1>10. PrunerKnows'
  BY <1>2 DEF PrunerKnows, Idle
<1>11. FewSpoilt'
  <2>1. Spoilt' \subseteq Spoilt \cup {fileIndex}
    BY <1>2 DEF Spoilt, Readable, AwaitsFirst
  <2>2. crashes' + writeFailures' = crashes + writeFailures + 1
    BY <1>1, <1>2 DEF QueueTypes
  <2> QED BY <1>1, <2>1, <2>2, FewGrow
<1> QED BY <1>5, <1>6, <1>7, <1>8, <1>9, <1>10, <1>11 DEF QInv

LEMMA RestartInv ==
  ASSUME QInv, Restart
  PROVE QInv'
<1>1. /\ QueueTypes /\ NewestFile /\ SendingBlock /\ FileSpans /\ ToldWithin /\ ToldAcross
      /\ LastTold /\ KeptAt /\ PrunerKnows /\ FewSpoilt
  BY DEF QInv
<1>2. /\ ~up /\ up' = TRUE
      /\ fileIndex' = ReopenedIndex(DOMAIN files)
      /\ files' = IF DOMAIN files = {} THEN [i \in {0} |-> <<>>] ELSE files
      /\ rolled' = rolled /\ begun' = begun /\ sending' = sending /\ pruner' = pruner
      /\ height' = height /\ done' = done /\ crashes' = crashes
      /\ torn' = torn /\ writeFailures' = writeFailures
  BY DEF Restart, faultVars
<1>3. ~begun /\ ~rolled /\ pruner.pc = "receive" /\ Written = 0 /\ Written' = 0
  <2>1. ~begun
    BY <1>1, <1>2 DEF NewestFile
  <2> QED BY <1>1, <1>2, <2>1 DEF SendingBlock, PrunerKnows, Written
<1>4. crashes \in Nat /\ crashes' \in Nat /\ crashes <= crashes' /\ height \in Nat
  BY <1>1, <1>2 DEF QueueTypes
<1>5. PrunerKnows'
  BY <1>1, <1>2, <1>3 DEF PrunerKnows
<1>6. CASE DOMAIN files = {}
  <2>1. fileIndex' = 0 /\ files' = [i \in {0} |-> <<>>] /\ height = InitChainHeight
    BY <1>1, <1>2, <1>6 DEF ReopenedIndex, NewestFile
  <2>2. DOMAIN files' = {0} /\ files'[0] = <<>> /\ <<>> \in Seq(Messages)
    BY <2>1
  <2>3. QueueTypes' /\ torn = {}
    BY <1>1, <1>2, <1>6, <2>1, <2>2 DEF QueueTypes
  <2>4. NewestFile'
    BY <1>2, <2>1, <2>2 DEF NewestFile
  <2>5. SendingBlock'
    BY <1>1, <1>2, <1>3 DEF SendingBlock
  <2>6. FileSpans' /\ ToldAcross' /\ LastTold'
    BY <2>2 DEF FileSpans, ToldAcross, LastTold, LastWritten
  <2>7. ToldWithin'
    <3>1. Len(<<>>) = 0 /\ 1..(0 - 1) = {}
      OBVIOUS
    <3> QED BY <2>2, <3>1 DEF ToldWithin
  <2>8. KeptAt'
    <3>1. (InitChainHeight + 1)..height = {}
      BY <1>4, <2>1
    <3> QED BY <1>2, <3>1 DEF KeptAt
  <2>9. FewSpoilt'
    <3>1. Spoilt' = {}
      BY <1>2, <2>1, <2>2, <2>3 DEF Spoilt, Readable, AwaitsFirst
    <3> QED BY <1>1, <1>2, <3>1, FewStay DEF QueueTypes
  <2> QED BY <1>5, <2>3, <2>4, <2>5, <2>6, <2>7, <2>8, <2>9 DEF QInv
<1>7. CASE DOMAIN files # {}
  <2>1. files' = files /\ crashes # 0
    BY <1>1, <1>2, <1>7 DEF NewestFile
  <2>2. fileIndex' = fileIndex
    <3>1. DOMAIN files \in SUBSET Nat /\ fileIndex \in DOMAIN files /\ \A i \in DOMAIN files : i <= fileIndex
      BY <1>1, <1>7 DEF NewestFile, QueueTypes
    <3> QED BY <1>2, <1>7, <3>1, GreatestIndex DEF ReopenedIndex
  <2>3. QueueTypes' /\ NewestFile'
    BY <1>1, <1>2, <1>3, <1>7, <2>1, <2>2 DEF QueueTypes, NewestFile
  <2>4. SendingBlock'
    BY <1>1, <1>2, <1>3 DEF SendingBlock
  <2>5. FileSpans' /\ ToldWithin' /\ ToldAcross'
    BY <1>1, <1>4, <2>1, SameFiles
  <2>6. LastTold'
    BY <1>1, <1>2, <1>3, <2>1 DEF LastTold, LastWritten
  <2>7. KeptAt'
    <3>1. height' = height /\ done' = done
      BY <1>2
    <3> QED BY <1>1, <2>1, <3>1 DEF KeptAt, StandsAt
  <2>8. FewSpoilt'
    BY <1>1, <1>2, <2>1, <2>2, SpoiltStay, FewStay DEF QueueTypes
  <2> QED BY <1>5, <2>3, <2>4, <2>5, <2>6, <2>7, <2>8 DEF QInv
<1> QED BY <1>6, <1>7
-----------------------------------------------------------------------------
(* The theorems *)

LEMMA QueueInitInv ==
  QueueInit => QInv
<1> SUFFICES ASSUME QueueInit PROVE QInv
  OBVIOUS
<1>0. /\ files = <<>> /\ ~up /\ fileIndex = 0 /\ ~rolled /\ ~begun /\ sending = <<>>
      /\ pruner = Idle /\ height = InitChainHeight /\ done = InitChainHeight /\ crashes = 0
      /\ torn = {} /\ writeFailures = 0
  BY DEF QueueInit
<1>1. InitChainHeight \in Nat /\ NumEvents \in Nat
  BY MsgQueueAssumption
<1>2. DOMAIN files = {} /\ files = [i \in DOMAIN files |-> files[i]]
  BY <1>0
<1>3. Written = 0
  BY <1>0 DEF Written
<1>4. QueueTypes
  <2>1. files \in [DOMAIN files -> Seq(Messages)]
    BY <1>2
  <2> QED BY <1>0, <1>1, <1>2, <2>1 DEF QueueTypes
<1>5. NewestFile
  BY <1>0, <1>2 DEF NewestFile
<1>6. SendingBlock
  <2>1. <<>> \in Seq(Messages) /\ Len(<<>>) = 0
    OBVIOUS
  <2> QED BY <1>0, <1>1, <1>3, <2>1 DEF SendingBlock
<1>7. FileSpans /\ ToldWithin /\ ToldAcross /\ LastTold
  BY <1>2 DEF FileSpans, ToldWithin, ToldAcross, LastTold, LastWritten
<1>8. KeptAt
  <2>1. (InitChainHeight + 1)..height = {}
    BY <1>0, <1>1
  <2> QED BY <2>1 DEF KeptAt
<1>9. PrunerKnows
  BY <1>0 DEF PrunerKnows, Idle
<1>10. FewSpoilt
  <2>1. Spoilt = {}
    BY <1>2 DEF Spoilt
  <2> QED BY <1>0, <2>1, FS_EmptySet DEF FewSpoilt
<1> QED BY <1>4, <1>5, <1>6, <1>7, <1>8, <1>9, <1>10 DEF QInv

LEMMA QueueStepInv ==
  QInv /\ [QueueNext]_queueVars => QInv'
<1> SUFFICES ASSUME QInv, [QueueNext]_queueVars PROVE QInv'
  OBVIOUS
<1>1. CASE BeginBlock
  BY <1>1, BeginBlockInv
<1>2. CASE RollFile
  BY <1>2, RollFileInv
<1>3. CASE WriteMsg
  BY <1>3, WriteMsgInv
<1>4. CASE CommitBlock
  BY <1>4, CommitBlockInv
<1>5. CASE ReceiveHeight
  BY <1>5, ReceiveHeightInv
<1>6. CASE FindLeast
  BY <1>6, FindLeastInv
<1>7. CASE RemoveFile
  BY <1>7, RemoveFileInv
<1>8. CASE Crash
  BY <1>8, CrashInv
<1>9. CASE Restart
  BY <1>9, RestartInv
<1>10. CASE UNCHANGED queueVars
  <2>0. /\ files' = files /\ up' = up /\ fileIndex' = fileIndex /\ rolled' = rolled /\ begun' = begun
        /\ sending' = sending /\ pruner' = pruner /\ height' = height /\ done' = done /\ crashes' = crashes
        /\ torn' = torn /\ writeFailures' = writeFailures
    BY <1>10 DEF queueVars, writerVars, faultVars
  <2>1. QueueTypes' /\ NewestFile' /\ PrunerKnows'
    BY <2>0 DEF QInv, QueueTypes, NewestFile, PrunerKnows
  <2>2. SendingBlock'
    BY <2>0 DEF QInv, SendingBlock, Written, Turn
  <2>3. FileSpans' /\ ToldWithin' /\ ToldAcross'
    <3>1. crashes' \in Nat /\ crashes <= crashes'
      BY <2>0 DEF QInv, QueueTypes
    <3> QED BY <2>0, <3>1, SameFiles DEF QInv
  <2>4. LastTold'
    BY <2>0 DEF QInv, LastTold, LastWritten, Written
  <2>5. KeptAt'
    BY <2>0 DEF QInv, KeptAt, StandsAt
  <2>6. FewSpoilt'
    BY <2>0, SpoiltStay, FewStay DEF QInv, QueueTypes
  <2> QED BY <2>1, <2>2, <2>3, <2>4, <2>5, <2>6 DEF QInv
<1>11. CASE WriteFails
  BY <1>11, WriteFailsInv
<1> QED BY <1>1, <1>2, <1>3, <1>4, <1>5, <1>6, <1>7, <1>8, <1>9, <1>10, <1>11
        DEF QueueNext, WriterStep, PrunerStep

\* What is needed of the queue's state holds in every state.
THEOREM QueueAlwaysInv == QueueSpec => []QInv
<1>1. QueueInit => QInv
  BY QueueInitInv
<1>2. QInv /\ [QueueNext]_queueVars => QInv'
  BY QueueStepInv
<1> QED BY <1>1, <1>2, PTL DEF QueueSpec

\* A committed block is whole in a file until the reader is done with FILEHEIGHT more,
\* for any height of the files, any number of blocks, crashes and failures
\* (prune_file.go:50-52).
THEOREM AlwaysKeptUntilDone == QueueSpec => []KeptUntilDone
<1>1. QInv => KeptUntilDone
  <2> SUFFICES ASSUME QInv, NEW h \in (InitChainHeight + 1)..height, done - FILEHEIGHT < h
               PROVE \E f \in DOMAIN files : CompleteIn(files[f], h)
    BY DEF KeptUntilDone
  <2>1. PICK f \in DOMAIN files : \E p \in Nat : StandsAt(files[f], p, h)
    BY DEF QInv, KeptAt
  <2>2. files[f] \in Seq(Messages) /\ h \in Nat
    BY MsgQueueAssumption DEF QInv, QueueTypes
  <2> QED BY <2>1, <2>2, StandsComplete
<1> QED BY <1>1, QueueAlwaysInv, PTL

\* The files tell the blocks in their order (msg_writer_dir.go:50-73).
THEOREM AlwaysToldInOrder == QueueSpec => []ToldInOrder
<1>1. QInv => ToldInOrder
  <2> SUFFICES ASSUME QInv, NEW f \in DOMAIN files, files[f] # <<>>
               PROVE /\ \A i \in 1..(Len(files[f]) - 1) : Follows(files[f][i], files[f][i + 1])
                     /\ WrittenAfter(f) # {} =>
                          Follows(Last(files[f]), files[Min(WrittenAfter(f))][1])
    BY DEF ToldInOrder
  <2>1. \A i \in 1..(Len(files[f]) - 1) : Follows(files[f][i], files[f][i + 1])
    BY DEF QInv, ToldWithin
  <2>2. ASSUME WrittenAfter(f) # {}
        PROVE Follows(Last(files[f]), files[Min(WrittenAfter(f))][1])
    <3> DEFINE S == WrittenAfter(f)
               g == Min(S)
    <3>1. DOMAIN files \subseteq Nat
      BY DEF QInv, QueueTypes
    <3>2. S \in SUBSET Nat /\ S # {}
      BY <2>2, <3>1 DEF WrittenAfter
    <3> HIDE DEF S
    <3>3. g \in S /\ \A j \in S : g <= j
      BY <3>2, LeastIndex
    <3> HIDE DEF g
    <3>4. g \in DOMAIN files /\ f < g /\ files[g] # <<>>
      BY <3>1, <3>3 DEF S, WrittenAfter
    <3>5. ASSUME NEW e \in DOMAIN files, f < e, e < g PROVE files[e] = <<>>
      <4>1. e \notin S
        BY <3>1, <3>3, <3>4, <3>5
      <4>2. e > f
        BY <3>1, <3>5
      <4> QED BY <4>1, <4>2 DEF S, WrittenAfter
    <3>6. Follows(files[f][Len(files[f])], files[g][1])
      BY <3>4, <3>5 DEF QInv, ToldAcross
    <3> QED BY <3>6 DEF Last, S, g
  <2> QED BY <2>1, <2>2
<1> QED BY <1>1, QueueAlwaysInv, PTL

\* A file begins with a block, the files whose height cannot be read are no more than
\* the faults there were, and the goroutine looks at no file that is just being begun,
\* for any number of blocks, crashes, and writes that fail and are tried again
\* (msg_writer_dir.go:50-73, utils.go:105-137).
THEOREM AlwaysHeightReadable == QueueSpec => []HeightReadable
<1>1. QInv => HeightReadable
  <2> SUFFICES ASSUME QInv PROVE HeightReadable
    OBVIOUS
  <2>1. \A f \in DOMAIN files : files[f] # <<>> => files[f][1][2] = 0
    BY DEF QInv, FileSpans
  <2>2. Cardinality(Spoilt) <= crashes + writeFailures
    BY DEF QInv, FewSpoilt
  <2>3. ASSUME pruner.pc = "look", AwaitsFirst(Min(DOMAIN files)) PROVE FALSE
    <3>1. /\ height \in Nat /\ done \in Nat /\ InitChainHeight \in Nat /\ done <= height
          /\ FILEHEIGHT \in Nat \ {0} /\ NumEvents \in Nat /\ DOMAIN files \in SUBSET Nat
      BY MsgQueueAssumption DEF QInv, QueueTypes
    <3>2. height \in (InitChainHeight + 1)..height /\ done - FILEHEIGHT < height
      BY <2>3, <3>1 DEF QInv, PrunerKnows
    <3>3. PICK f \in DOMAIN files : \E p \in Nat : StandsAt(files[f], p, height)
      BY <3>2 DEF QInv, KeptAt
    <3>4. files[f] # <<>>
      <4>1. Len(<<>>) = 0
        OBVIOUS
      <4> QED BY <3>1, <3>3, <4>1 DEF StandsAt
    <3>5. Min(DOMAIN files) <= f /\ Min(DOMAIN files) = fileIndex /\ files[fileIndex] = <<>>
      BY <2>3, <3>1, <3>3, LeastIndex DEF AwaitsFirst
    <3>6. f <= fileIndex /\ f \in Nat /\ fileIndex \in Nat
      BY <3>1, <3>3 DEF QInv, NewestFile, QueueTypes
    <3>7. f = fileIndex
      BY <3>5, <3>6
    <3> QED BY <3>4, <3>5, <3>7
  <2> QED BY <2>1, <2>2, <2>3 DEF HeightReadable
<1> QED BY <1>1, QueueAlwaysInv, PTL
=============================================================================
