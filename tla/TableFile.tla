-------------------------------- MODULE TableFile --------------------------------
(***************************************************************************)
(* One table file: TableBuilder cuts sorted entries into blocks with       *)
(* shared prefixes and writes them one after the other, with an index of   *)
(* short separators and a filter for every kFilterBase bytes of the file;  *)
(* Table finds a key again through index, filter and block.                *)
(*                                                                         *)
(* A key is the bytes of a user key followed by its tag, which stands for  *)
(* the eight bytes of sequence number and type and sorts downwards; a      *)
(* value is the number of its entry.  The size of a written block, with    *)
(* its values, compression and trailer, is any of Sizes.  A filter is the  *)
(* set of its user keys: a policy may only match more, which costs a read  *)
(* of the block and changes no answer.                                     *)
(***************************************************************************)
EXTENDS Integers, Sequences, FiniteSets, SequencesExt

CONSTANTS UserKeys,          \* sequences of bytes
          MaxByte,           \* 0xff
          Tags, MaxTag,      \* tags of entries, and that of kMaxSequenceNumber
          RestartInterval,   \* block_restart_interval
          FilterBase,        \* kFilterBase
          Sizes,             \* of written blocks
          MaxEntries         \* bound: entries added

VARIABLES entries,    \* the keys added, in their order
          builder     \* TableBuilder::Rep, and the blocks appended to its file

Nowhere == -1         \* no offset

-----------------------------------------------------------------------------
(* InternalKeyComparator over BytewiseComparator.                          *)

User(key) == Front(key)
Shared(a, b) == Max({n \in 0..Min({Len(a), Len(b)}): SubSeq(a, 1, n) = SubSeq(b, 1, n)})

UserBefore(a, b) ==
  LET n == Shared(a, b)
  IN n < Len(b) /\ (n < Len(a) => a[n + 1] < b[n + 1])

Before(a, b) ==
  UserBefore(User(a), User(b)) \/ (User(a) = User(b) /\ Last(a) > Last(b))

\* FindShortestSeparator: the first byte that differs is incremented, if that
\* leaves the result below b.
Shorter(a, b) ==
  LET n == Shared(a, b) + 1
  IN IF n > Min({Len(a), Len(b)}) \/ a[n] = MaxByte \/ a[n] + 1 >= b[n] THEN a
     ELSE Append(SubSeq(a, 1, n - 1), a[n] + 1)

\* FindShortSuccessor: the first byte that can be incremented is.
Above(a) ==
  LET free == {i \in DOMAIN a: a[i] # MaxByte}
  IN IF free = {} THEN a ELSE Append(SubSeq(a, 1, Min(free) - 1), a[Min(free)] + 1)

\* The user key of key if it has become physically shorter and logically larger.
Shortened(key, user) ==
  IF Len(user) < Len(User(key)) /\ UserBefore(User(key), user) THEN Append(user, MaxTag) ELSE key

Separator(key, limit) == Shortened(key, Shorter(User(key), User(limit)))
Successor(key) == Shortened(key, Above(User(key)))

-----------------------------------------------------------------------------
(* Blocks: entries without the prefix they share with the one before, but  *)
(* at restart points.                                                      *)

EmptyBlock == [entries |-> <<>>, restarts |-> <<1>>, counter |-> 0, lastKey |-> <<>>]

BlockAdd(block, interval, key, value) ==
  LET restart == block.counter >= interval
      shared == IF restart THEN 0 ELSE Shared(block.lastKey, key)
  IN [entries |-> Append(block.entries,
                    [shared |-> shared, delta |-> SubSeq(key, shared + 1, Len(key)), value |-> value]),
      restarts |-> IF restart THEN Append(block.restarts, Len(block.entries) + 1) ELSE block.restarts,
      counter |-> IF restart THEN 1 ELSE block.counter + 1,
      lastKey |-> key]

\* What ParseNextKey makes of the entries from a restart point on.
KeysFrom(block, restart) ==
  FoldLeft(LAMBDA keys, e: Append(keys, (IF keys = <<>> THEN <<>> ELSE SubSeq(Last(keys), 1, e.shared)) \o e.delta),
           <<>>, SubSeq(block.entries, restart, Len(block.entries)))

NotFound == [key |-> <<>>, value |-> Nowhere]
Unreadable == [key |-> <<>>, value |-> Nowhere - 1]

\* Iter::Seek: from the last restart point before target on.
BlockSeek(block, target) ==
  LET before == {r \in ToSet(block.restarts) \cap DOMAIN block.entries:
                   Before(block.entries[r].delta, target)}
      left == Max({1} \cup before)
      keys == KeysFrom(block, left)
      found == {i \in DOMAIN keys: ~Before(keys[i], target)}
  IN IF found = {} THEN NotFound
     ELSE [key |-> keys[Min(found)], value |-> block.entries[left + Min(found) - 1].value]

-----------------------------------------------------------------------------
(* The filter block: filter i is of the blocks that begin in the i-th      *)
(* stretch of FilterBase bytes.                                            *)

\* StartBlock: the keys so far make one filter, the stretches that no block
\* begins in have empty ones.
StartBlock(filter, at) ==
  LET missing == at \div FilterBase - Len(filter.filters)
  IN IF missing <= 0 THEN filter
     ELSE [filters |-> filter.filters \o [i \in 1..missing |-> IF i = 1 THEN filter.keys ELSE {}],
           keys |-> {}]

AddKey(filter, key) == [filter EXCEPT !.keys = @ \cup {User(key)}]

FinishFilter(filter) ==
  IF filter.keys = {} THEN filter
  ELSE [filters |-> Append(filter.filters, filter.keys), keys |-> {}]

KeyMayMatch(filters, at, key) ==
  LET i == at \div FilterBase + 1
  IN i \in DOMAIN filters => User(key) \in filters[i]

-----------------------------------------------------------------------------
(* TableBuilder.                                                           *)

Init ==
  /\ entries = <<>>
  /\ builder = [data |-> EmptyBlock, index |-> EmptyBlock,
                filter |-> [filters |-> <<>>, keys |-> {}],
                pending |-> Nowhere, lastKey |-> <<>>,
                file |-> <<>>, offset |-> 0, status |-> "ok"]

IndexWith(b, key) ==
  IF b.pending = Nowhere THEN b
  ELSE [b EXCEPT !.index = BlockAdd(@, 1, key, b.pending), !.pending = Nowhere]

\* Mutant: the filter is told where the block began that was just written.
FlushStartsOld(b, size, fault) ==
  IF b.data.entries = <<>> THEN b
  ELSE IF fault = "append" THEN [b EXCEPT !.data = EmptyBlock, !.status = "error"]
  ELSE [b EXCEPT !.data = EmptyBlock, !.pending = b.offset,
                 !.file = (b.offset :> b.data) @@ @, !.offset = @ + size,
                 !.filter = StartBlock(@, b.offset),
                 !.status = IF fault = "flush" THEN "error" ELSE "ok"]

\* Flush and WriteBlock; the file may refuse the block, or to be flushed.
Flush(b, size, fault) ==
  IF b.data.entries = <<>> THEN b
  ELSE IF fault = "append" THEN [b EXCEPT !.data = EmptyBlock, !.status = "error"]
  ELSE [b EXCEPT !.data = EmptyBlock, !.pending = b.offset,
                 !.file = (b.offset :> b.data) @@ @, !.offset = @ + size,
                 !.filter = StartBlock(@, b.offset + size),
                 !.status = IF fault = "flush" THEN "error" ELSE "ok"]

\* full: the block has reached block_size.
Add(key, full, size, fault) ==
  /\ builder.status = "ok"
  /\ Len(entries) < MaxEntries
  /\ entries # <<>> => Before(Last(entries), key)
  /\ entries' = Append(entries, key)
  /\ LET b == [IndexWith(builder, Separator(builder.lastKey, key)) EXCEPT
                 !.filter = AddKey(@, key), !.lastKey = key,
                 !.data = BlockAdd(@, RestartInterval, key, Len(entries'))]
     IN builder' = IF full THEN Flush(b, size, fault) ELSE b

\* The last block, the filters, the index and the footer; fault "footer" is a
\* failure of any write after the last block's.
Finish(size, fault) ==
  /\ builder.status \in {"ok", "error"}
  /\ UNCHANGED entries
  /\ LET b == IF builder.status = "ok" THEN Flush(builder, size, fault) ELSE builder
     IN builder' =
          IF b.status = "error" \/ fault = "footer" THEN [b EXCEPT !.status = "failed"]
          ELSE [IndexWith(b, Successor(b.lastKey)) EXCEPT
                  !.filter = FinishFilter(@), !.status = "finished"]

\* What was built is given up.
Abandon ==
  /\ builder.status \in {"ok", "error"}
  /\ builder' = [builder EXCEPT !.status = "failed"]
  /\ UNCHANGED entries

Next ==
  \/ \E user \in UserKeys, tag \in Tags, size \in Sizes, fault \in {"none", "append", "flush"}:
       Add(Append(user, tag), TRUE, size, fault)
  \/ \E user \in UserKeys, tag \in Tags: Add(Append(user, tag), FALSE, 0, "none")
  \/ \E size \in Sizes, fault \in {"none", "append", "flush", "footer"}: Finish(size, fault)
  \/ Abandon

Spec == Init /\ [][Next]_<<entries, builder>>

-----------------------------------------------------------------------------
(* Table.                                                                  *)

\* InternalGet: bad is the offset of a block that cannot be read, filtered
\* whether the filter block could be.
InternalGet(key, filtered, bad) ==
  LET at == BlockSeek(builder.index, key).value
  IN IF at = Nowhere \/ (filtered /\ ~KeyMayMatch(builder.filter.filters, at, key)) THEN NotFound
     ELSE IF at = bad THEN Unreadable
     ELSE BlockSeek(builder.file[at], key)

\* NewIterator: the blocks in the order of the index.
Contents == FlattenSeq([i \in DOMAIN builder.index.entries |->
                          KeysFrom(builder.file[builder.index.entries[i].value], 1)])

-----------------------------------------------------------------------------
(* Properties.                                                             *)

Sorted(keys) == \A i \in 1..(Len(keys) - 1): Before(keys[i], keys[i + 1])

\* What the builder asserts: an index entry is pending only while the block is
\* empty, keys enter a block in their order, separators into the index, and
\* no filter is closed before its blocks began.
AssertionsHold ==
  /\ builder.status = "ok" /\ builder.pending # Nowhere => builder.data.entries = <<>>
  /\ Sorted(KeysFrom(builder.data, 1)) /\ Sorted(KeysFrom(builder.index, 1))
  /\ builder.status = "ok" => builder.offset \div FilterBase >= Len(builder.filter.filters)

\* The entry a reader at sequence number tag is after: the newest of its key.
Wanted(user, tag) ==
  LET found == {i \in DOMAIN entries: User(entries[i]) = user /\ Last(entries[i]) <= tag}
  IN IF found = {} THEN NotFound ELSE [key |-> entries[Min(found)], value |-> Min(found)]

\* A lookup finds it, with or without the filters, and nothing of another key
\* passes for it; with a block that cannot be read it may say so, but not that
\* there is nothing.
LookupsRight ==
  \A user \in UserKeys, tag \in Tags \cup {MaxTag}, filtered \in BOOLEAN, bad \in {Nowhere} \cup DOMAIN builder.file:
    LET got == InternalGet(Append(user, tag), filtered, bad)
    IN \/ got = Unreadable /\ bad # Nowhere
       \/ got = Wanted(user, tag)
       \/ Wanted(user, tag) = NotFound /\ User(got.key) # user

\* A table file that was finished without an error holds what was added.
TableRight ==
  /\ AssertionsHold
  /\ builder.status = "finished" => Contents = entries /\ LookupsRight
=================================================================================
