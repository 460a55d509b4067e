---------------------------- MODULE DownloadRate ----------------------------
(***************************************************************************)
(* The speed of a download (flu-service/src/worker.rs, DownloadRate): the  *)
(* last three samples, weighted by their durations.  The clock counts      *)
(* ticks.                                                                  *)
(***************************************************************************)
EXTENDS Integers, Sequences

CONSTANT Second   \* ticks of the clock

ASSUME RateAssumption == Second \in Nat \ {0}

NewRate(bytes, now) == [last_bytes |-> bytes, last_sample |-> now, samples |-> <<>>]

LastThree(s) == IF Len(s) > 3 THEN Tail(s) ELSE s

\* sample(): a clock that stands or goes back adds nothing, a cache that
\* shrinks counts as no traffic.
Sampled(rate, bytes, now) ==
  IF now <= rate.last_sample THEN rate
  ELSE LET more == bytes - rate.last_bytes
       IN  [last_bytes |-> bytes, last_sample |-> now,
            samples |-> LastThree(Append(rate.samples,
                          [bytes |-> IF more > 0 THEN more ELSE 0,
                           elapsed |-> now - rate.last_sample]))]

\* The sum of the samples' values; there are no more than three.
Value(values, k) == IF k \in DOMAIN values THEN values[k] ELSE 0
Total(values)    == Value(values, 1) + Value(values, 2) + Value(values, 3)
Bytes(samples)   == [k \in DOMAIN samples |-> samples[k].bytes]
Elapsed(samples) == [k \in DOMAIN samples |-> samples[k].elapsed]

\* Bytes per second, 0 without a sample.
Speed(rate) == IF rate.samples = <<>> THEN 0
               ELSE (Total(Bytes(rate.samples)) * Second)
                      \div Total(Elapsed(rate.samples))
=============================================================================
