------------------------------- MODULE MCCron -------------------------------
(***************************************************************************)
(* Job mixes for the model checker.                                        *)
(***************************************************************************)
EXTENDS CronService, TLC

\* A one-shot job and a recurring one that is due at every other instant.
MixKind == "shot" :> "at" @@ "loop" :> "every"
MixWhen == "shot" :> 2 @@ "loop" :> 1

\* A single job with a cron expression.
SoleKind == "loop" :> "cron"
SoleWhen == "loop" :> 2
=============================================================================
