-------------------------------- MODULE SFTData --------------------------------
(***************************************************************************)
(* The data of an SFT job (examples/sft): from the records of a data set   *)
(* to a JSON lines file (code_data.py, real_data.py), from its lines to    *)
(* examples, to token sequences with a loss weight per position, and to    *)
(* batches (data.py).                                                      *)
(*                                                                         *)
(* A text is the number of its tokens: a token stands for where it is in   *)
(* the example, since what is at stake is which token is trained where.    *)
(***************************************************************************)
EXTENDS Integers, FiniteSets, SequencesExt

Least(m, n) == IF m < n THEN m ELSE n

\* What a loop adds for one item that it may pass over.
OnlyIf(kept, value) == IF kept THEN <<value>> ELSE <<>>

Raised == [ok |-> FALSE, value |-> <<>>]
Returned(value) == [ok |-> TRUE, value |-> value]

-----------------------------------------------------------------------------
(* Records to examples.  A source: its format, its shards in the order of   *)
(* their paths, and the bounds it was asked for, those that are not refused *)
(* before anything is read.  A record: its language ("" if it names none),  *)
(* whether its columns are strings with text, and the prompt and completion *)
(* they come to.  A line of a file: blank, or a record and what it says.    *)

SourceRecords ==
  [language : STRING, columns : BOOLEAN, prompt : Nat, completion : Nat]

Shards ==
  [language : STRING, parquet : BOOLEAN, excluded : BOOLEAN, records : Seq(SourceRecords)]

Sources ==
  [format : {"alpaca", "code", "starcoder"}, languages : SUBSET STRING, shards : Seq(Shards),
   max_files : Nat \ {0}, max_examples : Nat \ {0}, min_chars : Nat, max_chars : Nat \ {0}]

SFTExamples == [prompt : Nat, completion : Nat, weight : Int]

FileLines ==
  [blank : BOOLEAN, columns : BOOLEAN, prompt : Nat, completion : Nat, weight : Int]

InLanguages(source, language) ==
  source.languages = {} \/ language \in source.languages

Eligible(source, shard) ==
  shard.parquet /\ ~shard.excluded /\ InLanguages(source, shard.language)

\* select_starcoder_parquet_files: the first files of each language; the other
\* sources are read whole.
SelectedShards(source) ==
  LET Earlier(i) == {k \in 1 .. i - 1 : /\ Eligible(source, source.shards[k])
                                        /\ source.shards[k].language = source.shards[i].language}
      Chosen(i) == /\ Eligible(source, source.shards[i])
                   /\ Cardinality(Earlier(i)) < source.max_files
  IN IF source.format = "starcoder"
     THEN FlattenSeq([i \in DOMAIN source.shards |-> OnlyIf(Chosen(i), source.shards[i])])
     ELSE source.shards

\* A record that names no language is never filtered out.
Wanted(source, record) ==
  source.format # "alpaca" /\ record.language # "" =>
    InLanguages(source, record.language)

\* Whether code_record_to_sft_example, or alpaca_record_to_sft_example, finds an
\* example in the record.
HasExample(source, record) ==
  /\ record.columns
  /\ IF source.format = "alpaca" THEN record.completion > 0
     ELSE record.completion >= source.min_chars

ExampleOf(source, record) ==
  [prompt |-> record.prompt,
   completion |-> IF source.format = "alpaca" THEN record.completion
                  ELSE Least(record.completion, source.max_chars),
   weight |-> 1]

\* The first max_examples examples of the wanted records, in order.
Examples(source) ==
  LET shards == SelectedShards(source)
      records == FlattenSeq([i \in DOMAIN shards |-> shards[i].records])
      Kept(record) == Wanted(source, record) /\ HasExample(source, record)
      found == FlattenSeq([i \in DOMAIN records |->
                 OnlyIf(Kept(records[i]), ExampleOf(source, records[i]))])
  IN SubSeq(found, 1, Least(Len(found), source.max_examples))

\* write_sft_jsonl: one line per example, with string columns.
Lines(source) ==
  LET examples == Examples(source)
  IN [i \in DOMAIN examples |->
        [blank |-> FALSE, columns |-> TRUE, prompt |-> examples[i].prompt,
         completion |-> examples[i].completion, weight |-> examples[i].weight]]

\* The file after materialize_hf_sft_jsonl, or materialize_hf_code_sft_jsonl, at a
\* path that held before.  The first raises for want of examples before it opens
\* the file, the second after it has emptied it, but not where no shard was found.
FileAfter(source, before) ==
  IF Lines(source) = <<>> /\ (source.format = "alpaca" \/ SelectedShards(source) = <<>>)
  THEN before
  ELSE Lines(source)

-----------------------------------------------------------------------------
(* Lines to examples                                                        *)

\* load_jsonl_examples: one bad line, or no example at all, fails the whole file.
LoadExamples(lines) ==
  LET Bad(line) == ~line.blank /\ (~line.columns \/ line.weight < 0)
      Example(line) ==
        [prompt |-> line.prompt, completion |-> line.completion, weight |-> line.weight]
  IN IF (\A i \in DOMAIN lines : lines[i].blank) \/ \E i \in DOMAIN lines : Bad(lines[i])
     THEN Raised
     ELSE Returned(FlattenSeq([i \in DOMAIN lines |->
                                 OnlyIf(~lines[i].blank, Example(lines[i]))]))

-----------------------------------------------------------------------------
(* Examples to datums                                                       *)

\* bos, the prompt, the completion, eos.
InputIds(example) ==
  [i \in 1 .. example.prompt + example.completion + 2 |->
     CASE i = 1 -> <<"bos", 0>>
       [] i \in 2 .. example.prompt + 1 -> <<"prompt", i - 1>>
       [] i = example.prompt + example.completion + 2 -> <<"eos", 0>>
       [] OTHER -> <<"completion", i - 1 - example.prompt>>]

\* Cut or padded to the sequence length.
Fitted(seq, length, fill) ==
  [i \in 1 .. length |-> IF i <= Len(seq) THEN seq[i] ELSE fill]

Pad == <<"pad", 0>>

\* Mutant: the loss starts at the first completion token, not at the token before.
LossPositionsLate(example) ==
  example.prompt + 2 .. example.prompt + example.completion + 1

\* The positions that predict a token of the completion, or eos: position i
\* predicts token i + 1, so they start at the last token of the prompt.
LossPositions(example) ==
  example.prompt + 1 .. example.prompt + example.completion + 1

\* The datum that encode_sft_example builds.
Datum(example, length) ==
  LET ids == InputIds(example)
      weights == [i \in DOMAIN ids |->
                    IF i \in LossPositions(example) /\ i < Len(ids)
                    THEN example.weight ELSE 0]
  IN [input |-> Fitted(ids, length, Pad),
      target |-> Fitted(Append(Tail(ids), Pad), length, Pad),
      weights |-> Fitted(weights, length, 0)]

\* An example no position of which is trained is dropped: its weight is 0, or its
\* prompt fills the sequence.  Overlong examples are cut (drop_overlong is off).
DatumsOf(example, length) ==
  LET datum == Datum(example, length)
  IN OnlyIf(\E i \in 1 .. length : datum.weights[i] > 0, datum)

\* A completion without a token fails the whole file, as does a sequence length for
\* which there is nothing to predict.
EncodeAll(examples, length) ==
  IF length < 2 \/ \E i \in DOMAIN examples : examples[i].completion = 0
  THEN Raised
  ELSE Returned(FlattenSeq([i \in DOMAIN examples |-> DatumsOf(examples[i], length)]))

-----------------------------------------------------------------------------
(* Datums to batches                                                        *)

\* batch_datums: the last batch may be shorter; no datum at all is an error.
Batches(datums, batch_size) ==
  LET count == (Len(datums) + batch_size - 1) \div batch_size
  IN [b \in 1 .. count |->
        SubSeq(datums, (b - 1) * batch_size + 1, Least(b * batch_size, Len(datums)))]

\* load_jsonl_sft_batches, in the order the seed shuffled the file into.
LoadBatches(lines, length, batch_size) ==
  LET examples == LoadExamples(lines)
      datums == EncodeAll(examples.value, length)
  IN IF ~examples.ok \/ ~datums.ok \/ datums.value = <<>>
     THEN Raised
     ELSE Returned(Batches(datums.value, batch_size))
=============================================================================
