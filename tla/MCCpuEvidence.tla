--------------------------- MODULE MCCpuEvidence ---------------------------
(* CpuEvidenceProducer with the constants of its run. *)
EXTENDS CpuEvidenceProducer
=============================================================================
