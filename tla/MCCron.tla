------------------------------ MODULE MCCron --------------------------------
\* The schedules of the model-checked jobs: once, later than Hour from the start, and
\* every unit of time.
EXTENDS Cron

MCSchedules == {[kind |-> "at", v |-> 3], [kind |-> "every", v |-> 1]}
=============================================================================
