----------------------------- MODULE LayerAction ------------------------------
(***************************************************************************)
(* The three programs of an action that makes a layer: the wrapper around  *)
(* it (ActionWrapper), extract_package (ExtractPackage), and the           *)
(* conversion of its output, which extract_package ends with and which     *)
(* other processes may start on the same directory (DurableConvert).  They *)
(* share no state, and are looked at side by side: part says which of them *)
(* takes the steps, and the state of the others is their initial one.      *)
(***************************************************************************)
EXTENDS DurableConvert, ExtractPackage, ActionWrapper

CONSTANT Parts      \* the programs that are looked at

VARIABLE part

layerVars == <<part, vars, extractVars, wrapperVars>>

LayerInit == part \in Parts /\ Init /\ ExtractInit /\ WrapperInit

LayerNext ==
    /\ UNCHANGED part
    /\ \/ part = "convert" /\ Next /\ UNCHANGED <<extractVars, wrapperVars>>
       \/ part = "extract" /\ ExtractNext /\ UNCHANGED <<vars, wrapperVars>>
       \/ part = "wrapper" /\ WrapperNext /\ UNCHANGED <<vars, extractVars>>

ConverterStep(c) == part = "convert" /\ Step(c) /\ UNCHANGED <<part, extractVars, wrapperVars>>

LayerSpec == LayerInit /\ [][LayerNext]_layerVars
----------------------------------------------------------------------------
(* Every variable of the three programs has its type                       *)
TypesAreKept == TypeOK /\ ExtractTypeOK /\ WrapperTypeOK

(* Every conversion ends: the locks of the old and the new inode are never *)
(* waited for in a circle, and an error lets go of them                    *)
ConversionsAllEnd == part = "convert" => ConversionsEnd
===============================================================================
