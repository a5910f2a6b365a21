------------------------------ MODULE MCFeedback ------------------------------
\* Instances of Feedback for TLC.
EXTENDS Feedback
===============================================================================
