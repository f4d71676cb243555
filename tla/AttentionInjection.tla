-------------------------- MODULE AttentionInjection --------------------------
(* The life of the attention blocks in a detector: injected into the neck of a
   YOLO model, stripped, trained and saved, and injected again where the
   checkpoint is loaded (src/edge/detect/attention_injector.py,
   src/training/detection/train_yolo.py, src/edge/detect/yolo_attention_detector.py).

   A model is the sequence of its layers [channels, head, blocks]: the output
   channels that module_output_channels finds (0 for none), whether it is the
   Detect head, and how many times it was wrapped as Sequential(layer, block).
   A key of a state dict is [layer, depth, attention]: the layer, how deep the
   wrapping has moved the parameter, and whether it belongs to a block. *)
EXTENDS Integers, Sequences, FiniteSets

CONSTANTS Architectures,          \* the layers of the models that are loaded
          NeckWindow, MinChannels, MaxChannels,
          MaxSteps                \* bound of the model

\* YOLO(yaml) builds layers without attention blocks.
ASSUME ArchitectureAssumption ==
    /\ MaxSteps \in Nat
    /\ \A layers \in Architectures :
          layers \in Seq([channels : Nat, head : BOOLEAN, blocks : {0}])

VARIABLES
    base,         \* the layers of the architecture, as YOLO(yaml) builds it
    model,        \* the loaded model
    checkpoint,   \* the last checkpoint saved: [layout, blocks, keys, cleaned]
    steps

vars == <<base, model, checkpoint, steps>>

Bare(layers)    == [k \in DOMAIN layers |-> [layers[k] EXCEPT !.blocks = 0]]
NoCheckpoint    == [layout |-> "none", model |-> <<>>, keys |-> {}, cleaned |-> FALSE]

\* find_detect_layer_index: the first one whose class name holds "Detect".
Heads(layers)   == {k \in DOMAIN layers : layers[k].head}
HeadOf(layers)  == CHOOSE k \in Heads(layers) : \A j \in Heads(layers) : k <= j

\* find_neck_scale_outputs: in the window before the head, the last layer of each
\* plausible channel count, and of those the last three.  A wrapped layer shows
\* the channels of its block, which are the same.
NeckScaleOutputs(layers) ==
    LET head       == HeadOf(layers)
        candidates == {k \in DOMAIN layers :
                         /\ head - NeckWindow <= k /\ k < head
                         /\ layers[k].channels \in MinChannels .. MaxChannels}
        finals     == {k \in candidates :
                         \A j \in candidates :
                            layers[j].channels = layers[k].channels => j <= k}
    IN {k \in finals : Cardinality({j \in finals : j > k}) < 3}

\* inject_attention_to_yolo raises without a head or with fewer than three scales.
CanInject(layers) ==
    Heads(layers) # {} /\ Cardinality(NeckScaleOutputs(layers)) >= 3

\* In the faulty variant a block shows its hidden channels.
InjectedHidden(layers) ==
    [k \in DOMAIN layers |->
       IF k \in NeckScaleOutputs(layers)
       THEN [layers[k] EXCEPT !.blocks = @ + 1, !.channels = @ \div 2]
       ELSE layers[k]]
Injected(layers) ==
    [k \in DOMAIN layers |->
       IF k \in NeckScaleOutputs(layers) THEN [layers[k] EXCEPT !.blocks = @ + 1]
       ELSE layers[k]]

\* strip_attention_from_yolo: the outer block of each wrapped layer.  The faulty
\* variant strips one layer only.
StripsFirst(layers) ==
    [k \in DOMAIN layers |->
       IF layers[k].blocks > 0 /\ \A j \in 1 .. k - 1 : layers[j].blocks = 0
       THEN [layers[k] EXCEPT !.blocks = @ - 1]
       ELSE layers[k]]
Stripped(layers) ==
    [k \in DOMAIN layers |->
       IF layers[k].blocks > 0 THEN [layers[k] EXCEPT !.blocks = @ - 1]
       ELSE layers[k]]

\* The keys of model.state_dict(): a block nests the layer's own parameters and
\* those of the blocks inside it one level deeper.
Keys(layers) ==
    {[layer |-> k, depth |-> layers[k].blocks, attention |-> FALSE] : k \in DOMAIN layers}
    \cup UNION {{[layer |-> k, depth |-> d, attention |-> TRUE] :
                   d \in 0 .. layers[k].blocks - 1} : k \in DOMAIN layers}

Saved(layout, layers, keys, cleaned) ==
    [layout |-> layout, model |-> layers, keys |-> keys, cleaned |-> cleaned]

\* _strip_and_resave_checkpoint: what is left of best.pt.  In a checkpoint that
\* holds the module, loading the filtered dict leaves the module as it was.
Filtered(ckpt) ==
    LET clean == {key \in ckpt.keys : ~key.attention}
    IN IF clean = ckpt.keys THEN ckpt
       ELSE Saved(ckpt.layout, ckpt.model,
                  IF ckpt.layout = "module" THEN ckpt.keys ELSE clean, TRUE)

Init ==
    /\ base \in Architectures
    /\ model = base /\ checkpoint = NoCheckpoint /\ steps = 0

Step == steps < MaxSteps /\ steps' = steps + 1

Inject ==
    /\ Step /\ CanInject(model)
    /\ model' = Injected(model)
    /\ UNCHANGED <<base, checkpoint>>

Strip ==
    /\ Step
    /\ model' = Stripped(model)
    /\ UNCHANGED <<base, checkpoint>>

\* save_clean_checkpoint strips the model that is in use, too.
SaveClean ==
    /\ Step
    /\ model' = Stripped(model)
    /\ checkpoint' = Saved("dict", Bare(base), Keys(Stripped(model)), FALSE)
    /\ UNCHANGED base

\* _run_ultralytics_training: inject, train, which saves best.pt in the layout of
\* the installed version, and clean it.  Without attention nothing is cleaned.
Train(attention, layout) ==
    LET trained == IF attention THEN Injected(model) ELSE model
        best    == Saved(layout, trained, Keys(trained), FALSE)
    IN /\ Step
       /\ attention => CanInject(model)
       /\ model' = trained
       /\ checkpoint' = IF attention THEN Filtered(best) ELSE best
       /\ UNCHANGED base

\* YOLO(weights): a checkpoint with the module gives the module; one with a dict
\* loads only if its keys are those of the architecture.
Load ==
    /\ Step
    /\ \/ checkpoint.layout = "module" /\ model' = checkpoint.model
       \/ checkpoint.layout = "dict" /\ checkpoint.keys = Keys(base) /\ model' = base
    /\ UNCHANGED <<base, checkpoint>>

Next ==
    \/ Inject \/ Strip \/ SaveClean \/ Load
    \/ \E attention \in BOOLEAN, layout \in {"module", "dict"} : Train(attention, layout)

Spec == Init /\ [][Next]_vars

-----------------------------------------------------------------------------
\* Each variable has its type, and blocks are all that changes in a model.
TypeOK ==
    /\ base \in Architectures
    /\ Bare(model) = base
    /\ checkpoint.layout \in {"none", "module", "dict"} /\ steps \in 0 .. MaxSteps

\* However often blocks are injected and stripped, and whatever is loaded, they
\* sit on the same layers, the scale outputs of the neck, as deep on each: the
\* probe for channels sees through a block (module_output_channels), and strip
\* takes away what the last injection put there and nothing else.
WrappedTogether ==
    /\ TypeOK
    /\ CanInject(model) => Stripped(Injected(model)) = model
    /\ \E depth \in 0 .. MaxSteps :
          \A k \in DOMAIN model :
             model[k].blocks =
               (IF Heads(base) # {} /\ k \in NeckScaleOutputs(base) THEN depth ELSE 0)

\* The file of save_clean_checkpoint has the keys of the architecture, and so loads,
\* exactly if no layer of the model had more than one block; it has more after an
\* injection into a model that had some, as when a checkpoint that kept its blocks
\* is loaded for attention again.  The copy that training cleans
\* (_strip_and_resave_checkpoint) never has them: what is left of a wrapped layer
\* stays as deep as it was.
SavedCleanUnlessNested ==
    [][/\ SaveClean => ( checkpoint'.keys = Keys(base)
                         <=> \A k \in DOMAIN model : model[k].blocks <= 1 )
       /\ \A layout \in {"module", "dict"} :
             Train(TRUE, layout) => checkpoint'.keys # Keys(base)]_vars
===============================================================================
