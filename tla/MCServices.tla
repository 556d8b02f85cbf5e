----------------------------- MODULE MCServices -----------------------------
(***************************************************************************)
(* The calls to a language model and the extraction of uploaded documents, *)
(* one per behaviour: `part` says which of the two moves, the other one    *)
(* stays in its initial state, where nothing is owed to anyone.            *)
(***************************************************************************)
EXTENDS ModelCalls, Documents

VARIABLE part

servicesVars == <<part, callVars, documentVars>>

ServicesInit == part \in {"calls", "documents"} /\ RouterInit /\ DocumentInit

ServicesNext ==
  \/ part = "calls" /\ RouterNext /\ UNCHANGED <<part, documentVars>>
  \/ part = "documents" /\ DocumentNext /\ UNCHANGED <<part, callVars>>

ServicesSpec ==
  ServicesInit /\ [][ServicesNext]_servicesVars /\ RouterFairness /\ DocumentFairness

ServicesTypeOK == RouterTypeOK /\ DocumentTypeOK

(* Every call comes to an end; every document is settled, and for good.    *)
ServicesSettle == EveryCallEnds /\ DocumentsAreSettled /\ SettledDocumentsAreFinal

-----------------------------------------------------------------------------
(* Two providers, the first with the three modes of nvidia.py; a document  *)
(* that states one of two facts a model may name, and says nothing of a    *)
(* third that nobody looks up.                                             *)
MCOrder == <<"nvidia", "backup">>
MCRungs == [p \in {"nvidia", "backup"} |-> IF p = "nvidia" THEN 3 ELSE 1]
MCStated == [d \in Docs |-> {"f"}]
=============================================================================
