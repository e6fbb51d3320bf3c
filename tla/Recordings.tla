----------------------------- MODULE Recordings -----------------------------
(***************************************************************************)
(* A market's logs as files (src/history/recording.rs).  A recorder scans  *)
(* the raw logs and writes them beside a manifest, the logs first, and may *)
(* die at any byte of either.  A reader takes the manifest and then the    *)
(* logs, while a recorder may be writing them again.  A tail check asks    *)
(* the chain whether the recording's end still stands.                     *)
(*                                                                         *)
(* A hash is the logs it is the hash of: two files hash alike only when    *)
(* they are the same file.                                                 *)
(***************************************************************************)
EXTENDS HistoryReads, SequenceTheorems, TLAPS

CONSTANTS MaxRecordings,   \* bound: recordings made
          Torn             \* what a file holds after a write that was cut

VARIABLES made,      \* the recordings made, each [manifest, logs]
          held,      \* the recording being written, or None
          disk,      \* the directory: [logs, manifest], each None until written
          writing,   \* the file being written: "none", "logs", "logged", "manifest"
          reading,   \* the manifest a reader has read and not its logs, or None
          copy       \* the recording read back, or None

files == <<made, held, disk, writing, reading, copy>>
vars == <<node, job, answer, files>>

-----------------------------------------------------------------------------
(* record.                                                                 *)

BeginRecord ==
    /\ held = None /\ copy = None /\ Len(made) < MaxRecordings
    /\ BeginRead("record")
    \* bound: a later one is of the whole of a chain still growing
    /\ made # <<>> => job'.from = 1 /\ job'.to = Height /\ Height < MaxHead
    /\ UNCHANGED files

\* header_hash: the hash of a block's header, if the replica has it.
FinishRecord ==
    /\ AllRead /\ Unstamped = {} /\ job.op = "record"
    /\ \E behind \in 0..Behind :
        LET tip == HeaderAt(job.to, behind)
            logs == Stamped(job.logs, Perp, job.headers)
            recording == [manifest |-> [from |-> job.from, to |-> job.to, tip |-> tip,
                                        logs_hash |-> logs, undecodable |-> Undecodable(logs)],
                          logs |-> logs]
        IN  IF tip = None THEN Fail /\ UNCHANGED files
            ELSE /\ held' = recording /\ made' = Append(made, recording)
                 /\ job' = None
                 /\ UNCHANGED <<answer, disk, writing, reading, copy>>
    /\ UNCHANGED node

\* Recording::tape: None at a log it cannot decode.
RecordingTape(recording) ==
    IF \E i \in DOMAIN recording.logs : Garbled(recording.logs[i]) THEN None
    ELSE NewTape(DecodeKnown(recording.logs))

-----------------------------------------------------------------------------
(* write: each file is truncated, then written.                            *)

NextWrite(from, to) ==
    /\ held # None /\ writing = from /\ writing' = to
    /\ UNCHANGED <<node, job, answer, made, reading, copy>>

WriteLogs ==
    /\ NextWrite("none", "logs")
    /\ \E k \in 0..Len(held.logs), cut \in BOOLEAN :
        disk' = [disk EXCEPT !.logs = IF cut THEN Torn ELSE SubSeq(held.logs, 1, k)]
    /\ UNCHANGED held

FinishLogs ==
    /\ NextWrite("logs", "logged")
    /\ disk' = [disk EXCEPT !.logs = held.logs]
    /\ UNCHANGED held

WriteManifest ==
    /\ NextWrite("logged", "manifest")
    /\ disk' = [disk EXCEPT !.manifest = Torn]
    /\ UNCHANGED held

FinishManifest ==
    /\ NextWrite("manifest", "none")
    /\ disk' = [disk EXCEPT !.manifest = held.manifest]
    /\ held' = None

\* The recorder dies: what it had written of the file stays.
Crash ==
    /\ writing # "none"
    /\ writing' = "none" /\ held' = None
    /\ UNCHANGED <<node, job, answer, made, disk, reading, copy>>

-----------------------------------------------------------------------------
(* read.                                                                   *)

ReadManifest ==
    /\ reading = None /\ copy = None /\ disk.manifest \notin {None, Torn}
    /\ reading' = disk.manifest
    /\ UNCHANGED <<node, job, answer, made, held, disk, writing, copy>>

\* Mutant: only the number of logs is compared.
ReadLogs_Counted ==
    /\ reading # None
    /\ copy' = IF disk.logs # Torn /\ Len(disk.logs) = Len(reading.logs_hash)
               THEN [manifest |-> reading, logs |-> disk.logs] ELSE None
    /\ reading' = None
    /\ UNCHANGED <<node, job, answer, made, held, disk, writing>>

ReadLogs ==
    /\ reading # None
    /\ copy' = IF disk.logs = reading.logs_hash
               THEN [manifest |-> reading, logs |-> disk.logs] ELSE None
    /\ reading' = None
    /\ UNCHANGED <<node, job, answer, made, held, disk, writing>>

-----------------------------------------------------------------------------
(* check_tail.                                                             *)

TailFrom(blocks) == Max({Saturating(copy.manifest.to - Saturating(blocks - 1)), copy.manifest.from})

BeginCheck ==
    /\ job = None /\ answer = None /\ copy # None /\ held = None /\ Len(made) = 1
    /\ \E blocks \in 1..MaxHead :
        Begin("check_tail", TailFrom(blocks), copy.manifest.to, FALSE, 0)
    /\ UNCHANGED <<node, answer, files>>

\* The header is read beside the scan.
ReadTip ==
    /\ job # None /\ job.op = "check_tail" /\ job.tip = None
    /\ \E behind \in 0..Behind :
        LET hash == HeaderAt(job.to, behind)
        IN  IF hash = None THEN Fail
            ELSE job' = [job EXCEPT !.tip = hash] /\ UNCHANGED answer
    /\ UNCHANGED <<node, files>>

\* Mutant: the tail's first block left out.
RecordedTail_AfterFrom(from) == SelectSeq(copy.logs, LAMBDA l : l.block > from)

RecordedTail(from) == SelectSeq(copy.logs, LAMBDA l : l.block >= from)

FinishCheck ==
    /\ AllRead /\ Unstamped = {} /\ job.op = "check_tail" /\ job.tip # None
    /\ answer' = [op |-> "check_tail", from |-> job.from, to |-> job.to, safe |-> job.safe,
                  tip_hash_matches |-> job.tip = copy.manifest.tip,
                  logs_match |-> RecordedTail(job.from) = Stamped(job.logs, Perp, job.headers)]
    /\ job' = None
    /\ UNCHANGED <<node, files>>

-----------------------------------------------------------------------------
Init ==
    /\ HistoryInit
    /\ made = <<>> /\ held = None /\ reading = None /\ copy = None
    /\ disk = [logs |-> None, manifest |-> None] /\ writing = "none"

\* Reads keep nothing between them but the scan's width, which is LogScan's:
\* one is made in a history of its own, recordings in another, and a check where
\* there is one recording.  The directory is the recorder's and the reader's and
\* the chain's steps commute with theirs: they wait for it to be quiet.  The chain
\* moves under the first recording and between it and its check.
Quiet == writing = "none" /\ reading = None

Next ==
    \/ Quiet /\ (made = <<>> \/ copy # None) /\ ChainNext /\ UNCHANGED files
    \/ made = <<>> /\ ReadNext /\ UNCHANGED files
    \/ Quiet /\ made # <<>> /\ (Ask \/ ReadHeader) /\ UNCHANGED files
    \/ Quiet /\ (BeginRecord \/ FinishRecord \/ BeginCheck \/ ReadTip \/ FinishCheck)
    \/ WriteLogs \/ FinishLogs \/ WriteManifest \/ FinishManifest \/ Crash
    \/ ReadManifest \/ ReadLogs

Spec == Init /\ [][Next]_vars

-----------------------------------------------------------------------------
(* Properties.                                                             *)

\* A read to the lagged head, or to a block no reorganization reaches and every
\* replica has, answers exactly what the chain says: each market's events under
\* that market whatever the order its scans were answered in, what would not
\* decode counted, or the read refused.
LaggedReadsAreExact ==
    answer # None /\ answer.safe /\ answer.op # "check_tail" =>
        LET tape(p) == TapeOf(p, answer.from, answer.to)
            own == SelectSeq(tape(Perp), LAMBDA l : l.at = Perp)
            logs(at, of) == SelectSeq(RecordOf(of, answer.from, answer.to),
                                      LAMBDA l : l.at = at /\ l.says # "other")
            strict(rows) == IF \E i \in DOMAIN rows : Garbled(rows[i]) THEN None ELSE rows
            points(rows) == IF rows = None THEN None ELSE [i \in DOMAIN rows |-> rows[i].point]
        IN  CASE answer.op = "market_tape" ->
                    /\ answer.returned = tape(Perp)
                    /\ answer.undecodable = Undecodable(RecordOf(Perp, answer.from, answer.to))
              [] answer.op = "market_events" -> answer.returned = own
              [] answer.op = "latest_market_events" ->
                    answer.returned = NewestOf(own, answer.limit)
              [] answer.op = "markets_tape" ->
                    \A p \in Perps : answer.returned[p] = tape(p)
              [] answer.op = "markets_tape_skip" ->
                    \A p \in Perps :
                        answer.returned[p] = SelectSeq(tape(p), LAMBDA l : l.at # "manager")
              [] answer.op = "beacon_prints" -> answer.returned = strict(logs("beacon", Perp))
              [] answer.op = "latest_beacon_prints" ->
                    answer.returned = strict(NewestOf(logs("beacon", Perp), answer.limit))
              [] answer.op = "token_transfers" ->
                    points(answer.returned) = points(strict(logs("token", "recipient")))

\* However a tape is cut, into blocks, transactions, windows or segments, the
\* pieces put end to end are the tape, no block is in two segments and there
\* are no more of them than asked for; and its rows handed over twice, out of
\* order, are the tape again.
TapesRejoin ==
    answer # None /\ answer.op = "market_tape" /\ answer.returned # None =>
        LET tape == answer.returned
            rejoin(runs) == FlattenSeq(runs)
            whole(runs) == rejoin(runs) = tape /\ \A i \in DOMAIN runs : runs[i] # <<>>
        IN  /\ whole(BlocksOf(tape)) /\ whole(TransactionsOf(tape))
            /\ \A secs \in 0..2 : whole(WindowsOf(tape, secs))
            /\ \A parts \in 0..3 :
                LET runs == Segments(tape, parts)
                IN  /\ whole(runs) /\ Len(runs) <= Max({1, parts})
                    /\ \A i, j \in DOMAIN runs : i < j =>
                            Last(runs[i]).block < Head(runs[j]).block
            /\ \A k \in 0..Len(tape) :
                LET early == SubSeq(tape, 1, k)
                    late == SubSeq(tape, k + 1, Len(tape))
                IN  /\ TapeAppend(early, late) = tape
                    /\ FoldLeft(TapePush, early, tape) = tape
                    /\ Collected(late \o tape \o early) = tape

\* A recording read back is one that was made, its logs and its manifest of the
\* same one, whatever was being written or had been left half written.
RecordingReadsWhole == copy # None => copy \in ToSet(made)

\* A tail check of a range that can no longer change holds exactly when the
\* recording's tip is the chain's and its last logs are all the chain's; and
\* one of the whole range holds only for a recording whose tape is the market's.
TailCheckIsTrue ==
    answer # None /\ answer.safe /\ answer.op = "check_tail" =>
        LET holds == answer.tip_hash_matches /\ answer.logs_match
            of == copy.manifest
            tail == SelectSeq(copy.logs, LAMBDA l : l.block >= answer.from)
        IN  /\ holds <=> /\ of.tip = chain[of.to].hash
                         /\ tail = RecordOf(Perp, answer.from, of.to)
            /\ holds /\ answer.from = of.from =>
                  /\ of.undecodable = Undecodable(RecordOf(Perp, of.from, of.to))
                  /\ RecordingTape(copy) =
                        IF of.undecodable > 0 THEN None ELSE TapeOf(Perp, of.from, of.to)

-----------------------------------------------------------------------------
(***************************************************************************)
(* A theorem, for every chain, every scan and every number of recordings.  *)
(*                                                                         *)
(* That a recording read back is one that was made says nothing of the     *)
(* directory.  What keeps it is what the logs' hash ties together: every   *)
(* manifest there is, on disk, in a reader's hands or in the recorder's,   *)
(* is that of a recording made, and names that recording's logs.           *)
(***************************************************************************)

Manifests == {r.manifest : r \in ToSet(made)}

\* A recording is its manifest and the logs its manifest has the hash of.
HashesNameLogs ==
    \A r \in ToSet(made) : r = [manifest |-> r.manifest, logs |-> r.manifest.logs_hash]

ManifestsAreOfRecordings ==
    /\ held # None => held \in ToSet(made)
    /\ disk.manifest \in {None, Torn} \/ disk.manifest \in Manifests
    /\ reading # None => reading \in Manifests

IInv ==
    /\ made \in Seq(ToSet(made))
    /\ disk = [logs |-> disk.logs, manifest |-> disk.manifest]
    /\ HashesNameLogs
    /\ ManifestsAreOfRecordings
    /\ RecordingReadsWhole

-----------------------------------------------------------------------------
\* A recording made is one more of those there were.
LEMMA OneMore ==
    ASSUME NEW S, NEW s \in Seq(S), NEW r
    PROVE  ToSet(Append(s, r)) = ToSet(s) \cup {r} /\ Append(s, r) \in Seq(ToSet(Append(s, r)))
<1>1. s \in Seq(S \cup {r}) /\ r \in S \cup {r}
  BY ElementOfSeq, SeqDef
<1>2. /\ Append(s, r) \in Seq(S \cup {r}) /\ Len(Append(s, r)) = Len(s) + 1
      /\ \A i \in 1..Len(s) : Append(s, r)[i] = s[i]
      /\ Append(s, r)[Len(s) + 1] = r
  BY <1>1, AppendProperties
<1>3. Len(s) \in Nat /\ DOMAIN s = 1..Len(s) /\ DOMAIN Append(s, r) = 1..(Len(s) + 1)
  BY <1>1, <1>2, LenProperties
<1>4. ToSet(Append(s, r)) = ToSet(s) \cup {r}
  BY <1>2, <1>3 DEF ToSet
<1>5. Append(s, r) \in Seq(ToSet(Append(s, r)))
  BY <1>2, <1>3, SeqDef DEF ToSet
<1> QED
  BY <1>4, <1>5

\* A step that makes no recording keeps what there is of them.
LEMMA SameMade ==
    ASSUME IInv, UNCHANGED made, disk' = [logs |-> disk'.logs, manifest |-> disk'.manifest],
           ManifestsAreOfRecordings', RecordingReadsWhole'
    PROVE  IInv'
BY DEF IInv, HashesNameLogs

LEMMA FilesUnchanged ==
    ASSUME IInv, UNCHANGED files
    PROVE  IInv'
BY DEF IInv, files, HashesNameLogs, ManifestsAreOfRecordings, Manifests, RecordingReadsWhole

LEMMA RecordKeeps ==
    ASSUME IInv, FinishRecord
    PROVE  IInv'
<1>1. CASE UNCHANGED files
  BY <1>1, FilesUnchanged
<1>2. ASSUME NEW tip, NEW logs,
             LET recording == [manifest |-> [from |-> job.from, to |-> job.to, tip |-> tip,
                                             logs_hash |-> logs, undecodable |-> Undecodable(logs)],
                               logs |-> logs]
             IN held' = recording /\ made' = Append(made, recording),
             UNCHANGED <<disk, reading, copy>>
      PROVE  IInv'
  <2> DEFINE recording == [manifest |-> [from |-> job.from, to |-> job.to, tip |-> tip,
                                         logs_hash |-> logs, undecodable |-> Undecodable(logs)],
                           logs |-> logs]
  <2>1. recording = [manifest |-> recording.manifest, logs |-> recording.manifest.logs_hash]
    OBVIOUS
  <2>2. held' = recording /\ made' = Append(made, recording)
    BY <1>2
  <2> HIDE DEF recording
  <2>3. ToSet(made') = ToSet(made) \cup {recording} /\ made' \in Seq(ToSet(made'))
    BY <2>2, OneMore DEF IInv
  <2>4. HashesNameLogs'
    BY <2>1, <2>3 DEF IInv, HashesNameLogs
  <2>5. ManifestsAreOfRecordings' /\ RecordingReadsWhole'
    BY <1>2, <2>2, <2>3 DEF IInv, ManifestsAreOfRecordings, Manifests, RecordingReadsWhole
  <2> QED
    BY <1>2, <2>3, <2>4, <2>5 DEF IInv
<1> QED
  BY <1>1, <1>2 DEF FinishRecord, files

\* What the recorder writes, and what it has written when it dies.
LEMMA WritesKeep ==
    ASSUME IInv, WriteLogs \/ FinishLogs \/ WriteManifest \/ FinishManifest \/ Crash
    PROVE  IInv'
<1> USE DEF IInv, ManifestsAreOfRecordings, Manifests, RecordingReadsWhole
<1>1. CASE WriteLogs \/ FinishLogs
  <2>1. /\ UNCHANGED <<made, held, reading, copy>> /\ disk'.manifest = disk.manifest
        /\ disk' = [logs |-> disk'.logs, manifest |-> disk'.manifest]
    BY <1>1 DEF WriteLogs, FinishLogs, NextWrite
  <2> QED
    BY <2>1, SameMade
<1>2. CASE WriteManifest
  <2>1. /\ UNCHANGED <<made, held, reading, copy>> /\ disk'.manifest = Torn
        /\ disk' = [logs |-> disk'.logs, manifest |-> disk'.manifest]
    BY <1>2 DEF WriteManifest, NextWrite
  <2> QED
    BY <2>1, SameMade
<1>3. CASE FinishManifest
  <2>1. /\ held # None /\ UNCHANGED <<made, reading, copy>> /\ disk'.manifest = held.manifest
        /\ disk' = [logs |-> disk'.logs, manifest |-> disk'.manifest] /\ held' = None
    BY <1>3 DEF FinishManifest, NextWrite
  <2> QED
    BY <2>1, SameMade
<1>4. CASE Crash
  BY <1>4, SameMade DEF Crash
<1> QED
  BY <1>1, <1>2, <1>3, <1>4

\* A reader's two files are of one recording: the logs are the manifest's.
LEMMA ReadsKeep ==
    ASSUME IInv, ReadManifest \/ ReadLogs
    PROVE  IInv'
<1> USE DEF IInv, ManifestsAreOfRecordings, Manifests
<1>1. CASE ReadManifest
  BY <1>1, SameMade DEF ReadManifest, RecordingReadsWhole
<1>2. CASE ReadLogs
  <2>1. UNCHANGED <<made, held, disk>> /\ reading' = None /\ reading # None
    BY <1>2 DEF ReadLogs
  <2>2. PICK r \in ToSet(made) : reading = r.manifest
    BY <2>1
  <2>3. r = [manifest |-> reading, logs |-> reading.logs_hash]
    BY <2>2 DEF HashesNameLogs
  <2>4. copy' = None \/ copy' = r
    BY <1>2, <2>3 DEF ReadLogs
  <2>5. RecordingReadsWhole'
    BY <2>1, <2>2, <2>4 DEF RecordingReadsWhole
  <2> QED
    BY <2>1, <2>5, SameMade
<1> QED
  BY <1>1, <1>2

-----------------------------------------------------------------------------
\* However often a market is recorded again over the files of an earlier
\* recording, at whatever byte the recorder died and between whichever of its
\* writes a reader took the manifest and the logs, a recording read back is
\* one that was made, whole (recording.rs, write and read).
THEOREM RecordingsAlwaysReadWhole == Spec => []RecordingReadsWhole
<1>1. Init => IInv
  <2>1. Init => made = <<>> /\ ToSet(made) = {} /\ made \in Seq({})
    BY EmptySeq DEF Init, ToSet
  <2> QED
    BY <2>1 DEF Init, IInv, HashesNameLogs, ManifestsAreOfRecordings, RecordingReadsWhole
<1>2. IInv /\ [Next]_vars => IInv'
  BY FilesUnchanged, RecordKeeps, WritesKeep, ReadsKeep DEF Next, vars, BeginRecord, BeginCheck, ReadTip, FinishCheck
<1>3. IInv => RecordingReadsWhole
  BY DEF IInv
<1> QED
  BY <1>1, <1>2, <1>3, PTL DEF Spec
=============================================================================
