---------------------------- MODULE Acknowledgement ----------------------------
(***************************************************************************)
(* The range encoding of Ack and Nack packets: the loop of serialize() that *)
(* folds sorted sequence numbers into records, and the loop of             *)
(* deserialize() that unfolds them at the other end.  A record is a single *)
(* number or the first and the last of a run.  The loops of the code run   *)
(* without interruption; their passes are steps here so that what they     *)
(* maintain can be stated.  Fields keep within their width: a session      *)
(* numbers its frame sets below 2^24, and its windows hold fewer than 2^16 *)
(* of them.                                                                *)
(***************************************************************************)
EXTENDS Integers, Sequences

VARIABLES
  phase,      \* "idle", "write" or "read" while a loop runs, "done"
  sequences,  \* what is serialized, sorted
  cursor,     \* the next of them to look at, then the next record
  start, last,\* the run being gathered
  records,    \* what is written
  unfolded    \* "sequences" of the packet that is deserialized

codecVars == <<phase, sequences, cursor, start, last, records, unfolded>>

\* sequences.sort(): what it leaves of the members of a Set
Increasing(s) == \A i, j \in DOMAIN s : i < j => s[i] < s[j]
Sorted == {s \in Seq(Nat) : Increasing(s)}

CodecInit ==
  /\ phase = "idle" /\ sequences = <<>> /\ cursor = 1
  /\ start = 0 /\ last = 0 /\ records = <<>> /\ unfolded = <<>>

Serialize(seqs) ==
  /\ phase \in {"idle", "done"}
  /\ phase' = IF seqs = <<>> THEN "read" ELSE "write"
  /\ sequences' = seqs
  /\ cursor' = IF seqs = <<>> THEN 1 ELSE 2
  /\ start' = IF seqs = <<>> THEN 0 ELSE seqs[1]
  /\ last' = IF seqs = <<>> THEN 0 ELSE seqs[1]
  /\ records' = <<>> /\ unfolded' = <<>>

\* A run of one number is written as a single one.
Record_AlwaysSingle == [single |-> TRUE, first |-> start, final |-> start]
Record == [single |-> start = last, first |-> start, final |-> last]

Continues_Never(current) == FALSE
Continues(current) == current - last = 1

\* A pass of the loop: the number continues the run, or it ends it and begins
\* a new one.
WriteNext ==
  /\ phase = "write" /\ cursor <= Len(sequences)
  /\ LET current == sequences[cursor] IN
     \/ /\ Continues(current)
        /\ last' = current
        /\ UNCHANGED <<start, records>>
     \/ /\ ~Continues(current)
        /\ records' = Append(records, Record)
        /\ start' = current /\ last' = current
  /\ cursor' = cursor + 1
  /\ UNCHANGED <<phase, sequences, unfolded>>

\* After the loop the last run is written.
WriteLast ==
  /\ phase = "write" /\ cursor > Len(sequences)
  /\ records' = Append(records, Record)
  /\ phase' = "read" /\ cursor' = 1
  /\ UNCHANGED <<sequences, start, last, unfolded>>

\* A pass over the records, with its inner loop over the numbers of a run.
Numbers(record) ==
  IF record.single THEN <<record.first>>
  ELSE [k \in 1..(record.final - record.first + 1) |-> record.first + k - 1]

ReadNext ==
  /\ phase = "read" /\ cursor <= Len(records)
  /\ unfolded' = unfolded \o Numbers(records[cursor])
  /\ cursor' = cursor + 1
  /\ UNCHANGED <<phase, sequences, start, last, records>>

ReadEnds ==
  /\ phase = "read" /\ cursor > Len(records)
  /\ phase' = "done"
  /\ UNCHANGED <<sequences, cursor, start, last, records, unfolded>>

CodecStep == WriteNext \/ WriteLast \/ ReadNext \/ ReadEnds

CodecNext == CodecStep \/ \E seqs \in Sorted : Serialize(seqs)

CodecSpec == CodecInit /\ [][CodecNext]_codecVars

-------------------------------------------------------------------------------
(* Properties *)

Members(s) == {s[i] : i \in DOMAIN s}

\* The peer acknowledges, or asks for, exactly the frame sets that the session
\* named: one that is not named is sent again for ever, one named too much is
\* forgotten before it has arrived.
RoundTrip == phase = "done" => Members(unfolded) = Members(sequences)

\* Records are as few as can be: between two of them a number is missing.
RecordsApart ==
  \A k \in 1..(Len(records) - 1) : records[k].final + 1 < records[k + 1].first
===============================================================================
