---------------------------- MODULE PreambleSync ----------------------------
(***************************************************************************)
(* The preamble detector: one correlation score per sample, and a tracker  *)
(* that reports the best point of each run of samples above the threshold. *)
(* A tracker is a record and the operators here are its methods; positions *)
(* count the samples pushed since the detector was made.                   *)
(*                                                                         *)
(* What the sliding DFT hears is abstracted to the score, which may be     *)
(* anything: noise and other stations make every sequence of scores.       *)
(***************************************************************************)
EXTENDS Integers

CONSTANTS
  SAMPLES_PER_SYMBOL,  \* 1536
  PREAMBLE_LENGTH,     \* 16 symbols
  SCORE_THRESHOLD      \* 0.45: scores are compared and nothing else

ASSUME SyncAssumption ==
  /\ SAMPLES_PER_SYMBOL \in Nat \ {0}
  /\ PREAMBLE_LENGTH \in Nat \ {0}
  /\ SCORE_THRESHOLD \in Nat \ {0}

PreambleSamples   == PREAMBLE_LENGTH * SAMPLES_PER_SYMBOL
REACH_BACK        == (PREAMBLE_LENGTH - 1) * SAMPLES_PER_SYMBOL
MAX_RUN_SAMPLES   == 2 * SAMPLES_PER_SYMBOL
RESET_GAP_SAMPLES == PreambleSamples

(***************************************************************************)
(* inRun, best, length, lastEnd (-1: no run yet) are the fields of the     *)
(* code and bestAt the sampleIndex of m_runBestLock.  found and lock are   *)
(* the locals of the caller's loop over a chunk.  chainAt is a history:    *)
(* the position of the first sample of the present chain of runs, runs     *)
(* that follow each other within RESET_GAP_SAMPLES.                        *)
(***************************************************************************)
NewSync ==
  [inRun |-> FALSE, best |-> 0, bestAt |-> 0, length |-> 0, lastEnd |-> -1,
   found |-> FALSE, lock |-> 0, chainAt |-> 0]

SameChain(s, now) == s.lastEnd >= 0 /\ now - s.lastEnd <= RESET_GAP_SAMPLES

Chained(s, now) ==
  IF s.inRun \/ SameChain(s, now) THEN s ELSE [s EXCEPT !.chainAt = now]

\* Mutant: the high-water mark outlives its chain, as before ADR-114.
StartRunKeepingBest(s, now) ==
  IF s.inRun THEN s ELSE [s EXCEPT !.inRun = TRUE, !.length = 0]

StartRun(s, now) ==
  IF s.inRun THEN s
  ELSE [s EXCEPT !.inRun = TRUE, !.length = 0,
                 !.best = IF SameChain(s, now) THEN @ ELSE 0]

\* Mutant: the lock is the preamble's last sample instead of its first.
ClimbToItsEnd(s, now, score) ==
  LET r == [s EXCEPT !.length = @ + 1]
  IN  IF score > r.best THEN [r EXCEPT !.best = score, !.bestAt = now + 1] ELSE r

\* The sample that follows the preamble ends it: it began PreambleSamples ago.
Climb(s, now, score) ==
  LET r == [s EXCEPT !.length = @ + 1]
  IN  IF score > r.best
      THEN [r EXCEPT !.best = score, !.bestAt = now - PreambleSamples + 1]
      ELSE r

EndRun(s, now) ==
  [s EXCEPT !.inRun = FALSE, !.lastEnd = now, !.found = TRUE, !.lock = s.bestAt]

Above(s, now, score) ==
  LET r == Climb(StartRun(Chained(s, now), now), now, score)
  IN  IF r.length >= MAX_RUN_SAMPLES THEN EndRun(r, now) ELSE r

PushSample(s, now, score) ==
  CASE now < REACH_BACK         -> s
    [] now >= REACH_BACK /\ score >= SCORE_THRESHOLD -> Above(s, now, score)
    [] now >= REACH_BACK /\ score < SCORE_THRESHOLD  ->
         IF s.inRun THEN EndRun(s, now) ELSE s
=============================================================================
