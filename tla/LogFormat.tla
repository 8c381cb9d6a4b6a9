------------------------------- MODULE LogFormat -------------------------------
(***************************************************************************)
(* The log file under the engine's write-ahead log and manifest:           *)
(* log::Writer cuts a record into physical records, none of which crosses  *)
(* a block, and log::Reader puts them together again from a file that a    *)
(* crash cut short anywhere or in which a byte went bad.                   *)
(*                                                                         *)
(* A fragment is [start, type, data, of], where data lists the bytes it    *)
(* holds of record of, each as <<record, index>>.  Every record has at least*)
(* one byte, as each batch and each version edit has; initial_offset is    *)
(* the 0 that every caller passes.                                         *)
(***************************************************************************)
EXTENDS Integers, Sequences, FiniteSets, SequencesExt

CONSTANTS BlockSize,    \* kBlockSize
          HeaderSize,   \* kHeaderSize: checksum, length and type, in this order
          Lengths,      \* lengths of records
          MaxRecords    \* bound: records added

VARIABLES
  file,       \* the fragments written, and size
  left,       \* the bytes of the current record still to be written
  begin,      \* none of them was
  records,    \* the records added, each as its bytes
  damaged,    \* the offset of the byte that went bad, or -1
  buffer,     \* the reader: [pos, scratch, inFragment], or Closed
  got,        \* the records it returned
  reports,    \* the corruptions it reported
  done        \* ReadRecord returned false

logVars == <<file, left, begin, records, damaged, buffer, got, reports, done>>

Closed == [pos |-> -1, scratch |-> <<>>, inFragment |-> FALSE]

Init ==
  /\ file = [fragments |-> <<>>, size |-> 0]
  /\ left = <<>> /\ begin = TRUE /\ records = <<>>
  /\ damaged = -1
  /\ buffer = Closed /\ got = <<>> /\ reports = 0 /\ done = FALSE

-----------------------------------------------------------------------------
(* Writer.                                                                 *)

AddRecord(length) ==
  /\ buffer = Closed /\ left = <<>> /\ Len(records) < MaxRecords
  /\ left' = [i \in 1..length |-> <<Len(records) + 1, i>>]
  /\ begin' = TRUE
  /\ records' = Append(records, left')
  /\ UNCHANGED <<file, damaged, buffer, got, reports, done>>

\* Where the next header goes: in a new block if this one has no room for it.
NextHeader ==
  LET leftover == BlockSize - (file.size % BlockSize)
  IN IF leftover < HeaderSize THEN file.size + leftover ELSE file.size

TypeOf(isFirst, isLast) ==
  IF isFirst THEN IF isLast THEN "full" ELSE "first"
  ELSE IF isLast THEN "last" ELSE "middle"

\* One turn of AddRecord's loop.
EmitPhysicalRecord ==
  /\ buffer = Closed /\ left # <<>>
  /\ LET avail == BlockSize - (NextHeader % BlockSize) - HeaderSize
         data == SubSeq(left, 1, IF Len(left) < avail THEN Len(left) ELSE avail)
     IN /\ file' = [fragments |-> Append(file.fragments,
                      [start |-> NextHeader, data |-> data, of |-> Len(records),
                       type |-> TypeOf(begin, data = left)]),
                    size |-> NextHeader + HeaderSize + Len(data)]
        /\ left' = SubSeq(left, Len(data) + 1, Len(left))
  /\ begin' = FALSE
  /\ UNCHANGED <<records, damaged, buffer, got, reports, done>>

\* The writer dies: what reached the file is a beginning of what it wrote; or
\* it is closed and a byte goes bad.  Either way the file is read.
Crash(size) ==
  /\ buffer = Closed
  /\ file' = [file EXCEPT !.size = size]
  /\ buffer' = [Closed EXCEPT !.pos = 0]
  /\ UNCHANGED <<left, begin, records, damaged, got, reports, done>>

Damage(offset) ==
  /\ buffer = Closed /\ left = <<>>
  /\ damaged' = offset
  /\ buffer' = [Closed EXCEPT !.pos = 0]
  /\ UNCHANGED <<file, left, begin, records, got, reports, done>>

-----------------------------------------------------------------------------
(* Reader.                                                                 *)

NextBlock(pos) == pos + BlockSize - (pos % BlockSize)
Eof(pos) == file.size < NextBlock(pos)      \* the last read was short
BufferEnd(pos) == IF Eof(pos) THEN file.size ELSE NextBlock(pos)
FragmentAt(pos) == CHOOSE f \in ToSet(file.fragments): f.start = pos

\* What ReadPhysicalRecord finds at pos, and where it goes on: a fragment, the
\* end, or something bad, with or without a report; the rest of a block with a
\* bad record in it is dropped.
Found(type, f, next, reported) ==
  [type |-> type, data |-> f.data, next |-> next, reported |-> reported]

ReadPhysicalRecord(pos) ==
  LET f == FragmentAt(pos)
      end == pos + HeaderSize + Len(f.data)
      lengthBad == damaged = pos + HeaderSize - 2
      typeBad == damaged = pos + HeaderSize - 1
      bad(reported) == Found("bad", [data |-> <<>>], BufferEnd(pos), reported)
      eof == Found("eof", [data |-> <<>>], pos, FALSE)
  IN IF BufferEnd(pos) - pos < HeaderSize \/ end > BufferEnd(pos) THEN {eof}
     ELSE IF damaged \notin pos..(end - 1) THEN {Found(f.type, f, end, FALSE)}
     \* kZeroType and no payload, like a region of preallocated zeros
     ELSE {bad(TRUE)} \cup (IF typeBad /\ f.data = <<>> THEN {bad(FALSE)} ELSE {})
                      \cup (IF lengthBad /\ Eof(pos) THEN {eof} ELSE {})

\* A trailer is skipped first.
SkipTrailer(pos) ==
  IF ~Eof(pos) /\ NextBlock(pos) - pos < HeaderSize THEN NextBlock(pos) ELSE pos

\* Mutant: a bad record does not end the fragmented record it is in.
InFragmentPastBad(r, type) == type = "first" \/ (type \in {"middle", "bad"} /\ r.inFragment)
InFragment(r, type) == type = "first" \/ (type = "middle" /\ r.inFragment)

\* Fragments that fit nowhere, and a record that is given up, are reported.
Orphaned(r, type) ==
  \/ type \in {"full", "first"} /\ r.inFragment /\ r.scratch # <<>>
  \/ type \in {"middle", "last"} /\ ~r.inFragment
  \/ type = "bad" /\ r.inFragment

\* One turn of ReadRecord's loop, or of its caller's.
Take(r, found) ==
  LET whole == (IF found.type \in {"full", "first"} THEN <<>> ELSE r.scratch) \o found.data
      goesOn == InFragment(r, found.type)
  IN /\ done' = (found.type = "eof")
     /\ got' = IF found.type = "full" \/ (found.type = "last" /\ r.inFragment)
               THEN Append(got, whole) ELSE got
     /\ buffer' = [pos |-> found.next, inFragment |-> goesOn,
                   scratch |-> IF goesOn THEN whole ELSE <<>>]
     /\ reports' = reports + (IF found.reported THEN 1 ELSE 0)
                            + (IF Orphaned(r, found.type) THEN 1 ELSE 0)

ReadRecord ==
  /\ buffer # Closed /\ ~done
  /\ \E found \in ReadPhysicalRecord(SkipTrailer(buffer.pos)): Take(buffer, found)
  /\ UNCHANGED <<file, left, begin, records, damaged>>

Next ==
  \/ \E n \in Lengths: AddRecord(n)
  \/ EmitPhysicalRecord
  \/ \E size \in 0..file.size: Crash(size)
  \/ \E offset \in 0..(file.size - 1): Damage(offset)
  \/ ReadRecord

Spec == Init /\ [][Next]_logVars

-----------------------------------------------------------------------------
(* Properties.                                                             *)

FragmentsOf(n) == {f \in ToSet(file.fragments): f.of = n}
End(f) == f.start + HeaderSize + Len(f.data)
Whole(n) == /\ \E f \in FragmentsOf(n): f.type \in {"full", "last"}
            /\ \A f \in FragmentsOf(n): End(f) <= file.size
BlockOf(offset) == offset \div BlockSize
Spared(n) == \A f \in FragmentsOf(n): BlockOf(f.start) # BlockOf(damaged)

\* No fragment crosses a block, and no record ends up in the middle of another.
Placed ==
  \A i \in DOMAIN file.fragments:
    /\ BlockOf(file.fragments[i].start) = BlockOf(End(file.fragments[i]) - 1)
    /\ i > 1 => End(file.fragments[i - 1]) <= file.fragments[i].start

\* After a crash the reader returns the records that are there as a whole, in
\* order, and takes the rest for the trace of the crash, not for a corruption.
CrashIsSilent ==
  damaged = -1 /\ done =>
    /\ reports = 0
    /\ got = SelectSeq(records, LAMBDA r: \E n \in DOMAIN records: records[n] = r /\ Whole(n))

\* A bad byte never makes a record of the fragments of others, costs no record
\* that has nothing in its block, and is reported unless it is in the last one.
DamageIsContained ==
  damaged # -1 /\ done =>
    /\ \E kept \in SUBSET DOMAIN records:
         /\ got = SelectSeq(records, LAMBDA r: \E n \in kept: records[n] = r)
         /\ \A n \in DOMAIN records: Spared(n) => n \in kept
    /\ Len(got) < Len(records) /\ ~Eof(damaged) => reports > 0

\* What is read back (log_reader.cc:56-271) of what was written (log_writer.cc:34-108).
LogRight == Placed /\ CrashIsSilent /\ DamageIsContained
=================================================================================
