------------------------------ MODULE MCPipeline ------------------------------
\* Instances of Pipeline for TLC.
EXTENDS Pipeline, TLC

CONSTANTS d1, d2

\* As much as it takes to tell a full analysis from an incomplete one.
MCAnalysisResults == {<<d1, d2>>, <<d1>>}

\* A dimension that the LLM has scored twice, which its schema lets it.
MCRepeatedResults == {<<d1, d2>>, <<d1, d1>>}

Symmetry == Permutations(Workers)
===============================================================================
