------------------------------- MODULE Insights -------------------------------
(***************************************************************************)
(* What becomes of a model's reply on POST .../insights/explain.  Of its   *)
(* text only this is kept: the symbols it names, whether its wording is    *)
(* one of the banned phrases or looks like SQL, and how the metric paths   *)
(* that it claims begin, none when it is not the requested JSON.           *)
(*                                                                         *)
(* Checks read the reply as it came, and the answer is decoded from it:    *)
(* what a reply only names or says once the escapes of its JSON (\n, \u)   *)
(* are gone is kept apart.  Prose has nothing of the kind.                 *)
(***************************************************************************)
EXTENDS FiniteSets

CONSTANTS
  Named,       \* Symbols a reply may name.
  Split,       \* Those with a dot or a dash: not one token.
  Long,        \* Those with a digit or of more than five letters: no token.
  Replies      \* What the model may reply.

Wordings == {"plain", "banned", "sql"}

\* Beginnings of paths, as far as usedMetricRE tells them apart.
Paths    == {"portfolio.", "risk.", "recent_events[", "recent_events", "other"}
Admitted == {"portfolio.", "risk.", "recent_events["}

ASSUME InsightsAssumption ==
  /\ Split \cup Long \subseteq Named /\ Split \cap Long = {}
  /\ Replies \subseteq [names : SUBSET Named, wording : Wordings,
                        hiddenNames : SUBSET Named, hiddenWording : Wordings,
                        metrics : SUBSET Paths]

\* mergeUsedMetrics: the claimed paths, or the defaults for this context, of
\* which the one of the events is a bare root.
MergeUsedMetrics(reply, context) ==
  IF reply.metrics # {} THEN reply.metrics
  ELSE {"portfolio.", "risk."} \cup (IF context.recent # {} THEN {"recent_events"} ELSE {})

\* The pieces tickerTokenRE finds that isKnownTickerToken does not know. The
\* pieces of a split symbol are never on the list, even when the symbol is.
Unknown(names, allowed) == (names \ (allowed \cup Long)) \cup (names \cap Split)

\* ValidateInsightOutput of the text as it came, in its order.
Verdict(reply, names, metrics, allowed) ==
  CASE reply.wording = "banned"            -> "BANNED_PHRASE"
    [] reply.wording = "sql"               -> "SUSPICIOUS_SQL"
    [] ~(metrics \subseteq Admitted)       -> "BAD_USED_METRIC"
    [] Unknown(names, allowed) # {}        -> "UNKNOWN_SYMBOL"
    [] OTHER                               -> "ok"

\* What the narrative names and says once it is decoded.
Decoded(reply, names, verdict, metrics) ==
  [verdict |-> verdict, names |-> names \cup reply.hiddenNames,
   wording |-> IF reply.wording = "plain" THEN reply.hiddenWording ELSE reply.wording,
   metrics |-> metrics]

\* Mutant: the reply is sent back with the unknown symbols in it.
ExplainUnsanitized(reply, context) ==
  LET metrics == MergeUsedMetrics(reply, context)
  IN  Decoded(reply, reply.names, Verdict(reply, {}, metrics, context.allowed), metrics)

\* Explain: a reply refused for its symbols alone is validated again, and
\* decoded, with the word "asset" in their place.
Explain(reply, context) ==
  LET metrics == MergeUsedMetrics(reply, context)
      allowed == context.allowed
      names   == IF Verdict(reply, reply.names, metrics, allowed) = "UNKNOWN_SYMBOL"
                 THEN reply.names \ Unknown(reply.names, allowed) ELSE reply.names
  IN  Decoded(reply, names, Verdict(reply, names, metrics, allowed), metrics)
=============================================================================
