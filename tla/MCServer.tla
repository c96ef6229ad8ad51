-------------------------------- MODULE MCServer --------------------------------
EXTENDS Server, TLC

CONSTANTS p1, p2

\* Two replicas of one deployment; the job takes whatever width it finds.
MCEmbedderDim == (p1 :> 768) @@ (p2 :> 768)
=============================================================================
