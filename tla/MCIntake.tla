---- MODULE MCIntake ----
EXTENDS Intake
====
