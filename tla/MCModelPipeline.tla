-------------------------- MODULE MCModelPipeline --------------------------
(***************************************************************************)
(* Constants of the instance of ModelPipeline.                             *)
(***************************************************************************)
EXTENDS ModelPipeline, TLC

Tensors == {"t1", "t2"}
First == <<1, 2>>
Second == <<2, 2>>

\* Every assignment of the tensors to two shards, and every index of them; the tensors are
\* interchangeable, so if the first shard has just one of them it is t1.
Sharded == {[weights |-> w, index |-> i] :
              w \in {v \in [{First, Second} -> SUBSET Tensors] : v[First] # {"t2"}},
              i \in UNION {[T -> {First, Second}] : T \in SUBSET Tensors \ {{}}}}
OneFile == [weights |-> [f \in {Single} |-> Tensors], index |-> NoIndex]
TwoFiles == [weights |-> [f \in {First, Second} |-> IF f = First THEN {"t1"} ELSE {"t2"}],
             index |-> [t \in Tensors |-> IF t = "t1" THEN First ELSE Second]]

MCLayouts == {OneFile, TwoFiles}

Model(layout) ==
    [kinds |-> {"config", "tokenizer_config", "tokenizer"}, weights |-> layout.weights,
     index |-> layout.index, torn |-> {}, typed |-> TRUE, remote |-> FALSE]

\* One thing that is unusual in a model.
Unusual ==
    LET m == Model(OneFile)
        two == Model(TwoFiles)
    IN  {[m EXCEPT !.kinds = @ \ {"tokenizer"}],
         [m EXCEPT !.kinds = (@ \ {"tokenizer"}) \cup {"sentencepiece"}],
         [m EXCEPT !.kinds = @ \cup {"blank"}], [m EXCEPT !.kinds = @ \cup {"code"}],
         [m EXCEPT !.kinds = @ \cup {"pickle"}], [m EXCEPT !.kinds = @ \cup {"nested"}],
         [m EXCEPT !.kinds = @ \cup {"unfit"}],
         [m EXCEPT !.typed = FALSE], [m EXCEPT !.remote = TRUE], [m EXCEPT !.torn = {Single}],
         [m EXCEPT !.index = TwoFiles.index],
         [m EXCEPT !.weights = (Foreign :> Tensors) @@ @],
         [two EXCEPT !.weights = (First :> {"t1"})],
         [two EXCEPT !.weights = (First :> {"t1"}), !.index = ("t1" :> First)],
         [two EXCEPT !.weights = (Foreign :> {"t1"}) @@ @]}

MCOrigins ==
    [source : {"online"}, directory : {Model(TwoFiles)}]
    \cup [source : {"inbox"}, directory : {Model(l) : l \in Sharded \cup {OneFile}} \cup Unusual]
=============================================================================
