----------------------------- MODULE MCPipeline ------------------------------
(***************************************************************************)
(* Two recordings with an abort(), or with a draft: the draft is not put   *)
(* beside the abort() as well.  The first one translates, the second does  *)
(* not: a target of the one in the other's stop(), or a lost one, shows in *)
(* this order.                                                             *)
(***************************************************************************)
EXTENDS Pipeline

DraftOrAbort ==
  \/ \A d \in Drafts : pc[d] = "ready"
  \/ \A a \in Aborts : abortPc[a] = "ready"

TranslateFirst ==
  \/ \A s \in Starts \ TranslateStarts : startPc[s] = "ready"
  \/ \A s \in TranslateStarts : startPc[s] # "ready"

=============================================================================
