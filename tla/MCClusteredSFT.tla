--------------------------- MODULE MCClusteredSFT ---------------------------
(* Clustered jobs of at most four ranks on two nodes: each parallel layout, *)
(* each mode, sizes and data that are refused, and data from a data set.    *)
EXTENDS ClusteredSFT

Line(prompt, completion) ==
  [blank |-> FALSE, columns |-> TRUE, prompt |-> prompt, completion |-> completion, weight |-> 1]

FiveLines == <<Line(1, 1), Line(1, 2), Line(2, 1), Line(1, 1), Line(2, 2)>>
\* A blank line, one whose prompt fills the sequence, one that is cut.
MixedLines == <<[Line(1, 1) EXCEPT !.blank = TRUE], Line(6, 1), Line(2, 5), Line(1, 1)>>
BadLines == <<Line(1, 1), [Line(1, 1) EXCEPT !.columns = FALSE]>>

Record(language, completion) ==
  [language |-> language, columns |-> TRUE, prompt |-> 1, completion |-> completion]
Shard(language, records) ==
  [language |-> language, parquet |-> TRUE, excluded |-> FALSE, records |-> records]
Starcoder ==
  [format |-> "starcoder", languages |-> {"c"}, max_files |-> 1, max_examples |-> 2,
   min_chars |-> 1, max_chars |-> 2,
   shards |-> <<[Shard("c", <<Record("c", 3)>>) EXCEPT !.excluded = TRUE],
                Shard("c", <<Record("c", 0), Record("", 3), Record("go", 3), Record("c", 1)>>),
                Shard("c", <<Record("c", 3)>>), Shard("go", <<Record("go", 3)>>)>>]
\* No completion is long enough, or an empty one is.
Empty == [Starcoder EXCEPT !.format = "code", !.min_chars = 4]
Unchecked == [Starcoder EXCEPT !.min_chars = 0]
Alpaca == [Starcoder EXCEPT !.format = "alpaca"]

Base == [app |-> "qwen", mode |-> "qwen-lora-sft", nodes |-> 2, gpus |-> 2, tp |-> 1, pp |-> 1,
         micro_batch_size |-> 1, global_batch_size |-> 4, steps |-> 1, writer |-> 0,
         lines |-> FiveLines, sources |-> <<>>, sequence_length |-> 6, max_faults |-> 0]

SmallJobs ==
  {\* data parallel, twice round the data; a rank or a node fails
   [Base EXCEPT !.steps = 2],
   [Base EXCEPT !.max_faults = 1],
   \* tensor parallel in a node; pipeline over the nodes; both, with accumulation
   [Base EXCEPT !.tp = 2, !.steps = 2, !.writer = 1],
   [Base EXCEPT !.pp = 2, !.writer = 3],
   [Base EXCEPT !.tp = 2, !.pp = 2, !.global_batch_size = 2, !.steps = 2, !.max_faults = 1],
   \* the short last batch is dealt to one replica
   [Base EXCEPT !.gpus = 1, !.micro_batch_size = 2],
   [Base EXCEPT !.gpus = 1, !.micro_batch_size = 2, !.global_batch_size = 8],
   \* one replica trains the short batch twice, as one microbatch
   [Base EXCEPT !.gpus = 1, !.micro_batch_size = 2, !.global_batch_size = 8,
                !.lines = SubSeq(FiveLines, 1, 3), !.steps = 2],
   \* fewer batches than replicas
   [Base EXCEPT !.lines = SubSeq(FiveLines, 1, 3)],
   \* sizes that are refused
   [Base EXCEPT !.pp = 2, !.global_batch_size = 2],
   [Base EXCEPT !.tp = 3],
   [Base EXCEPT !.mode = "hf-ddp-baseline", !.tp = 2],
   \* the baseline and the smoke tests
   [Base EXCEPT !.mode = "hf-ddp-baseline", !.gpus = 1, !.global_batch_size = 2, !.steps = 2,
                !.max_faults = 1],
   [Base EXCEPT !.mode = "hf-ddp-baseline", !.gpus = 1, !.global_batch_size = 2, !.steps = 0],
   [Base EXCEPT !.mode = "torchrun-env", !.max_faults = 1],
   [Base EXCEPT !.mode = "nccl-smoke", !.max_faults = 1],
   \* data sets
   [Base EXCEPT !.app = "starcoder", !.gpus = 1, !.global_batch_size = 2, !.lines = <<>>,
                !.sources = <<Starcoder>>],
   [Base EXCEPT !.app = "starcoder-single", !.sources = <<Unchecked>>],
   [Base EXCEPT !.app = "starcoder-single", !.sources = <<Empty>>],
   [Base EXCEPT !.app = "starcoder-single", !.tp = 2],
   [Base EXCEPT !.app = "qwen-single", !.tp = 2, !.sources = <<Alpaca>>, !.steps = 4],
   [Base EXCEPT !.app = "qwen-single", !.lines = MixedLines],
   [Base EXCEPT !.app = "qwen-single", !.lines = BadLines]}
=============================================================================
