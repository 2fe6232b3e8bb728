-------------------------- MODULE MCIngestPipeline --------------------------
EXTENDS IngestPipeline
=============================================================================
