-------------------------------- MODULE Metrics --------------------------------
(***************************************************************************)
(* metrics.py: the counters and samples of the server.  Each method takes  *)
(* one lock, and so does the snapshot of summary(), which runs on a thread *)
(* of its own: every state of these variables may be the one it reports.   *)
(* Of the samples the model keeps their number, of the tokens how many     *)
(* answers they come from.  reset() is called by tests alone.              *)
(***************************************************************************)
EXTENDS Integers, Sequences

VARIABLES
  total,        \* _total_requests
  errors,       \* _errors
  byStatus,     \* byStatus[c]: _requests["cxx"]
  latencies,    \* length of _latency
  ttfts,        \* length of _ttft
  interTokens,  \* length of _inter_token
  usages        \* answers whose usage is in _prompt_tokens, _completion_tokens

metricsVars == <<total, errors, byStatus, latencies, ttfts, interTokens, usages>>

sampleVars == <<latencies, ttfts, interTokens, usages>>

MetricsInit ==
  /\ total = 0 /\ errors = 0
  /\ byStatus = [c \in 1..5 |-> 0]
  /\ latencies = 0 /\ ttfts = 0 /\ interTokens = 0 /\ usages = 0

RecordRequest(code) ==
  /\ total' = total + 1
  /\ byStatus' = [byStatus EXCEPT ![code \div 100] = @ + 1]
  /\ errors' = IF code >= 400 THEN errors + 1 ELSE errors
  /\ UNCHANGED sampleVars

RecordLatency ==
  /\ latencies' = latencies + 1
  /\ UNCHANGED <<total, errors, byStatus, ttfts, interTokens, usages>>

RecordTtft ==
  /\ ttfts' = ttfts + 1
  /\ UNCHANGED <<total, errors, byStatus, latencies, interTokens, usages>>

RecordInterToken ==
  /\ interTokens' = interTokens + 1
  /\ UNCHANGED <<total, errors, byStatus, latencies, ttfts, usages>>

RecordTokens ==
  /\ usages' = usages + 1
  /\ UNCHANGED <<total, errors, byStatus, latencies, ttfts, interTokens>>

\* _percentile() for 0 < q < 100, in hundredths: linear interpolation between
\* the samples around position (n - 1) * q / 100, which counts from zero.
Percentile(samples, q) ==
  LET scaled == (Len(samples) - 1) * q
      lo == scaled \div 100
      hi == IF lo + 1 < Len(samples) - 1 THEN lo + 1 ELSE Len(samples) - 1
  IN  100 * samples[1 + lo] + (samples[1 + hi] - samples[1 + lo]) * (scaled % 100)

MetricsTypeOK ==
  /\ total \in Nat /\ errors \in Nat
  /\ byStatus \in [1..5 -> Nat]
  /\ latencies \in Nat /\ ttfts \in Nat /\ interTokens \in Nat /\ usages \in Nat
================================================================================
