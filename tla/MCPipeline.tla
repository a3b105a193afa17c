----------------------------- MODULE MCPipeline -----------------------------
(* Three stages are the smallest pipeline with a stage that has a pipe on   *)
(* both sides; the parser's jobs array holds four.                          *)
EXTENDS Pipeline

\* No redirection, each single one of input and output, one of standard error, and
\* input and output of the first stage.
MCRedirections ==
  {{}} \cup {{<<k, d>>} : k \in Jobs, d \in 0..1}
       \cup {{<<Cnt - 1, 2>>}, {<<0, 0>>, <<0, 1>>}}
Plain == {{}}
=============================================================================
