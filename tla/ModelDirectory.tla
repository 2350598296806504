--------------------------- MODULE ModelDirectory ---------------------------
(***************************************************************************)
(* What counts as a model.                                                 *)
(*                                                                         *)
(* Three validators look at the same directory at different times: the     *)
(* importer before it stores a model, the runtime of the training          *)
(* container (and the agent with it) before it calls a training result     *)
(* complete, and the control plane before it trains on, accepts or         *)
(* publishes a directory.  They were written separately.                   *)
(***************************************************************************)
EXTENDS Naturals, FiniteSets, Functions

\* Kinds of files.  "tokenizer" is a tokenizer payload all validators know, "sentencepiece"
\* the one the runtime does not know, "blank" a payload without a byte, "code" a .py or .so
\* file, "nested" a .safetensors file of a subdirectory, "unfit" a file whose name, depth or
\* hard links a scan refuses, or one with which there are too many files or bytes.
Kinds == {"config", "tokenizer_config", "tokenizer", "sentencepiece", "blank", "pickle",
          "code", "nested", "unfit", "adapter", "manifest"}

\* Names of weight files: model.safetensors, the shard k of n, and any other name.
Single == <<0, 0>>
Foreign == <<0, 1>>
ShardNames == (Nat \ {0}) \X (Nat \ {0})

\* A directory: its other files, what config.json says, the tensors of each weight file, the
\* weight files whose header and data do not fit together, and the index.
NoIndex == [t \in {} |-> Single]
Stored(d) == UNION Range(d.weights)

-----------------------------------------------------------------------------
(***************************************************************************)
(* Reference: a loader finds each stored tensor where it looks for it, and *)
(* nowhere else, and no shard of the set is missing.                       *)
(***************************************************************************)
Opened(d, t) == IF Single \in DOMAIN d.weights THEN Single
                ELSE IF t \in DOMAIN d.index THEN d.index[t] ELSE Foreign
Loadable(d) ==
    /\ Stored(d) # {} /\ d.torn = {}
    /\ \A t \in Stored(d) : {f \in DOMAIN d.weights : t \in d.weights[f]} = {Opened(d, t)}
    /\ \A s \in DOMAIN d.weights \ {Single} : \A k \in 1..s[2] : <<k, s[2]>> \in DOMAIN d.weights

-----------------------------------------------------------------------------
(***************************************************************************)
(* The importer.                                                           *)
(***************************************************************************)
WholeSequence(names) ==
    /\ names \subseteq ShardNames
    /\ \E s \in names : names = {<<k, s[2]>> : k \in 1..s[2]}

OneWeight(d) == DOMAIN d.weights = {Single} /\ d.index = NoIndex
SelectWeightFiles(d) ==
    \/ OneWeight(d)
    \/ /\ d.index # NoIndex /\ DOMAIN d.weights = Range(d.index)
       /\ WholeSequence(Range(d.index))

\* Every selected file has a tensor, and its header covers its data without gaps.
ReadableWeights(d) == d.torn = {} /\ \A f \in DOMAIN d.weights : d.weights[f] # {}

IndexIsTrue(d) ==
    /\ \A f, g \in DOMAIN d.weights : f # g => d.weights[f] \cap d.weights[g] = {}
    /\ DOMAIN d.index = Stored(d)
    /\ \A t \in DOMAIN d.index : t \in d.weights[d.index[t]]

ImporterAccepts(d) ==
    /\ {"config", "tokenizer_config"} \subseteq d.kinds
    /\ {"tokenizer", "sentencepiece"} \cap d.kinds # {}
    /\ {"manifest", "blank", "pickle", "nested"} \cap d.kinds = {}
    /\ d.typed /\ ~d.remote
    /\ SelectWeightFiles(d) /\ ReadableWeights(d)
    /\ d.index # NoIndex => IndexIsTrue(d)

-----------------------------------------------------------------------------
(***************************************************************************)
(* The runtime of the training container, and the agent.                   *)
(***************************************************************************)
ValidateFullModel(d) ==
    /\ {"config", "tokenizer_config"} \subseteq d.kinds
    /\ {"tokenizer", "blank"} \cap d.kinds # {}
    /\ "pickle" \notin d.kinds /\ ~d.remote
    /\ DOMAIN d.weights # {} /\ Range(d.index) \subseteq DOMAIN d.weights

ValidateAdapter(kinds) == "adapter" \in kinds /\ "pickle" \notin kinds

-----------------------------------------------------------------------------
(***************************************************************************)
(* The control plane.                                                      *)
(***************************************************************************)
\* _scan_tree: neither the importer nor the agent looks at any of this.
ScanTree(kinds) == "unfit" \notin kinds

RejectsExport(kinds) == {"pickle", "code"} \cap kinds # {}

ValidateDeployable(d) ==
    /\ ScanTree(d.kinds) /\ ~RejectsExport(d.kinds)
    /\ {"config", "tokenizer_config"} \subseteq d.kinds
    /\ {"tokenizer", "sentencepiece", "blank"} \cap d.kinds # {}
    /\ d.typed /\ ~d.remote
    /\ \/ Single \in DOMAIN d.weights /\ d.index = NoIndex
       \/ /\ Single \notin DOMAIN d.weights /\ d.index # NoIndex
          /\ Range(d.index) \subseteq ShardNames
          /\ Range(d.index) = DOMAIN d.weights \cap ShardNames
    /\ DOMAIN d.weights \subseteq ShardNames \cup {Single}
    /\ \A f \in (IF d.index = NoIndex THEN {Single} ELSE Range(d.index)) :
          f \notin d.torn /\ d.weights[f] # {}
=============================================================================
