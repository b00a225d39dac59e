---- MODULE MCTraining ----
EXTENDS TrainingProperties
====
